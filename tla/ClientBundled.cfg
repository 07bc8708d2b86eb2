\* A client-to-server stream whose packets also come two in one OP_Combined.
SPECIFICATION Spec
CONSTANTS
  alice = alice
  bob = bob
  NoClient = NoClient
  SeqMod = 9
  WrapCutoff = 4
  GiveUp = 2
  Sessions <- ThreeSessions
  Owner <- ThreeOwner
  FromServer = FALSE
  ZoneStream = TRUE
  Primary = TRUE
  Settings = {1}
  Bundling = TRUE
  MaxSend = 3
  MaxLate = 2
  MaxLoss = 1
  MaxHandOffs = 1
INVARIANTS DrainInv
PROPERTIES LatchHolds
