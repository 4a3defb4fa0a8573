CONSTANTS
  A = A
  B = B
  MaxSend <- McSend0
  MaxFaults = 1
  MaxNet = 3
  MaxConns = 1
SPECIFICATION FairSpec
PROPERTIES
  Arrives
CHECK_DEADLOCK FALSE
