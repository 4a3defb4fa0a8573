SPECIFICATION Spec
CONSTANTS
  idle = idle
  drv = drv
  t1 = t1
  t2 = t2
  isr = isr
  low = low
  high = high
  q1 = q1
  q2 = q2
  NoLock = NoLock
  NoQueue = NoQueue
  Contexts = {idle, drv, t1, t2}
  Idle = idle
  Locks = {isr, low, high}
  IsrLocks = {isr}
  l_pri_locked <- McCeiling
  Pri <- McPri
  Queues = {q1, q2}
  PriQueues = {q1}
  QueueLock <- McQueueLock
  Ticks = 1
INVARIANTS
  TypeOK
  MutualExclusion
  CurrentIsHead
  RunQueueSorted
  NoneLost
  SleepersQueued
  HoldersFirst
  PriorityRestored
  PriQueueSorted
PROPERTY
  PreemptedByMoreUrgent
