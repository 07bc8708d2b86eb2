\* One session whose numbers wrap: packets lost, repeated and reordered.
SPECIFICATION Spec
CONSTANTS
  alice = alice
  bob = bob
  NoClient = NoClient
  SeqMod = 37
  WrapCutoff = 18
  GiveUp = 3
  Sessions <- OneSession
  Owner <- OneOwner
  FromServer = TRUE
  ZoneStream = TRUE
  Primary = TRUE
  Settings = {1}
  Bundling = FALSE
  MaxSend = 40
  MaxLate = 3
  MaxLoss = 2
  MaxHandOffs = 1
INVARIANTS CacheBounded
PROPERTIES InOrder NewestIsKept
