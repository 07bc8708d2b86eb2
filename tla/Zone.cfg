\* Two ids, one other character, two zones, one place in the group.
SPECIFICATION Spec
CONSTANTS
  i1 = i1
  i2 = i2
  east = east
  west = west
  Ids = {i1, i2}
  Pals = {"pal"}
  Zones = {east, west}
  MaxPeers = 1
  MaxDead = 2
  MaxPackets = 6
CONSTRAINT Apart
SYMMETRY Alike
INVARIANTS PointersOK NeverAMob
PROPERTIES Resyncs StaysInSync RosterKept
CHECK_DEADLOCK FALSE
