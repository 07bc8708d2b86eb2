\* Two zones, crashes, failing saves and hand-offs.
SPECIFICATION Spec
CONSTANTS
  qeynos = qeynos
  freport = freport
  gate = gate
  pier = pier
  named = named
  Zones = {qeynos, freport}
  NoZone = NoZone
  Keys = {gate, pier}
  Ids = {1, 2}
  Labels = {Unnamed, named}
  Unnamed = Unnamed
  NoFile = NoFile
  MaxPops = 4
SYMMETRY Interchange
INVARIANTS RecordsOK FlagHonest NothingLost Recoverable NoFalseCountdown
