SPECIFICATION FragmentSpec
CONSTANTS
  NumMessages = 5
  Size <- Sizes
  Mtu = 4
  LenField = 2
  Cap = 16
  Word = 64
  Claims = {0, 1, 3, 8, 15, 17}
INVARIANTS BufferSound
PROPERTIES WholeMessages
