SPECIFICATION FairSpec
CONSTANTS
  A = a
  B = b
  RESTART_MAX_CONFIGURE = 3
  RESTART_MAX_TERMINATE = 2
  MaxFaults = 1
  Foreign = {}
  MaxForeign = 0
PROPERTY Settles
CHECK_DEADLOCK FALSE
