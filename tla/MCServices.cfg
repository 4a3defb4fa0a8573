SPECIFICATION FairSpec
CONSTANTS
  a = a
  b = b
  c1 = c1
  c2 = c2
  d = d
  Blocks = {b1, b2, b3}
  Idle = Idle
  Null = Null
  Junk = Junk
  Timers = {x1, x2, x3}
  NoTimer = NoTimer
  idle = idle
  t1 = t1
  t2 = t2
  isr = isr
  high = high
  q1 = q1
  NoLock = NoLock
  NoQueue = NoQueue
INVARIANTS
  TypeOK
  WritersAlone
  AccessCounted
  UnitsCounted
  ThreadsKept
  RefsConserved
  NeverEarly
  HeapWhole
PROPERTIES
  WritersFirst
  UrgentFirst
  MostUrgentServed
  FoundAreFreed
  CallsOwners
  Allocates
  RoundRobin
