SPECIFICATION Spec
CONSTANTS
  A = A
  B = B
  u1 = u1
  u2 = u2
INVARIANTS
  TypeOK
  TimerRuns
  Contained
  RefsExact
  RoutesSpecific
  ArpTrue
  ArpKeepsRecent
  ProvokesLittle
  ClientRefsExact
CHECK_DEADLOCK FALSE
