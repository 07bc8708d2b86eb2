\* Sessions of two clients overlap and follow one another on a server stream.
SPECIFICATION Spec
CONSTANTS
  alice = alice
  bob = bob
  NoClient = NoClient
  SeqMod = 9
  WrapCutoff = 4
  GiveUp = 2
  Sessions <- ThreeSessions
  Owner <- ThreeOwner
  FromServer = TRUE
  ZoneStream = TRUE
  Primary = TRUE
  Settings = {0, 1}
  Bundling = FALSE
  MaxSend = 3
  MaxLate = 2
  MaxLoss = 1
  MaxHandOffs = 1
PROPERTIES OldSessionSilent LatchHolds InOrder
