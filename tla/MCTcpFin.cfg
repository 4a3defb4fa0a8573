CONSTANTS
  A = A
  B = B
  MaxSend <- McSend
  MaxFaults = 0
  MaxNet = 4
  MaxConns = 1
SPECIFICATION Spec
INVARIANTS
  FinOwed
CHECK_DEADLOCK FALSE
