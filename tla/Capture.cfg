SPECIFICATION Spec
CONSTANTS
  Sources <- AllSources
  Packets = 3
  MaxRestarts = 2
  Buffer = 6
  Header = 1
  FileEnd = 10
  End <- RecordEnd
INVARIANTS StopOK FinishedWhole
PROPERTIES NoLoss StopReturns PlaybackEnds
