SPECIFICATION Spec
CONSTANTS
  MaxBoxes = 2
  MaxSessions = 3
  Host <- OneHost
  p1 = p1
  Ports <- OnePort
  NoPort = NoPort
  Allowed <- Mishaps
CHECK_DEADLOCK FALSE
INVARIANTS Exclusive RoutedOK
PROPERTIES NotStolen
