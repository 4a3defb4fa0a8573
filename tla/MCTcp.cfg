CONSTANTS
  A = A
  B = B
  MaxSend <- McSend
  MaxFaults = 1
  MaxNet = 4
  MaxConns = 1
SPECIFICATION Spec
INVARIANTS
  TypeOK
  InOrder
  AckedWasReceived
  RefsHeld
CHECK_DEADLOCK FALSE
