SPECIFICATION Spec
CONSTANTS
  s1 = s1
  s2 = s2
  Spawns <- TwoSpawns
  RingCap = 2
  MaxConns = 3
  MaxEvents = 3
CHECK_DEADLOCK FALSE
INVARIANTS ClientOK Served
PROPERTIES NoRepeat CatchesUp
