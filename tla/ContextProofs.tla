--------------------------- MODULE ContextProofs ---------------------------
(***************************************************************************)
(* Proofs about Context: the run queue stays sorted with the running       *)
(* context at its head, nothing is lost from it, and the ceilings alone    *)
(* make the spinlocks mutually exclusive, for any number of contexts,      *)
(* locks, queues and priorities.                                           *)
(***************************************************************************)
EXTENDS ContextQueue

-----------------------------------------------------------------------------
(* The stack of locks of one context *)

\* LockStack for a context with the locks h, the own priority b and the
\* priority p, when the locks give back the priorities lpu.
StackOK(h, b, p, lpu) ==
  /\ \A i \in 1 .. Len(h) :
       /\ lpu[h[i]] = IF i = 1 THEN b ELSE l_pri_locked[h[i - 1]]
       /\ l_pri_locked[h[i]] <= b
       /\ \A j \in i .. Len(h) : l_pri_locked[h[j]] <= l_pri_locked[h[i]] /\ (h[i] = h[j] => i = j)
  /\ p = IF h = <<>> THEN b ELSE l_pri_locked[h[Len(h)]]

LEMMA LockStackValue ==
  LockStack <=> \A c \in Contexts : StackOK(held[c], base[c], c_priority[c], l_pri_unlocked)
BY DEF LockStack, StackOK

LEMMA LockStackValueNext ==
  LockStack' <=> \A c \in Contexts : StackOK(held'[c], base'[c], c_priority'[c], l_pri_unlocked')
BY DEF LockStack, StackOK

\* Taking a lock that is not on the stack, from a priority that allows it.
LEMMA PushStack ==
  ASSUME NEW h \in Seq(Locks), NEW b \in Int, NEW p \in Int, NEW lpu \in [Locks -> Int],
         NEW l \in Locks, StackOK(h, b, p, lpu), l_pri_locked[l] <= p,
         \A i \in 1 .. Len(h) : h[i] # l
  PROVE  StackOK(Append(h, l), b, l_pri_locked[l], [lpu EXCEPT ![l] = p])
<1> DEFINE g == Append(h, l)
           n == Len(h)
           lpu2 == [lpu EXCEPT ![l] = p]
<1>1. /\ g \in Seq(Locks) /\ n \in Nat /\ Len(g) = n + 1 /\ g[n + 1] = l
      /\ \A i \in 1 .. n : g[i] = h[i]
  BY LenProperties, AppendProperties
<1>2. lpu2[l] = p /\ \A m \in Locks : m # l => lpu2[m] = lpu[m]
  OBVIOUS
<1>3. \A m \in Locks : l_pri_locked[m] \in Int
  BY ContextAssumption DEF Priorities, Byte
<1>4. \A i \in 1 .. n : h[i] \in Locks /\ h[i] # l
  BY ElementOfSeq
<1>5. g # <<>>
  BY <1>1, EmptySeq
<1>6. h = <<>> <=> n = 0
  BY EmptySeq
<1>7. p = IF n = 0 THEN b ELSE l_pri_locked[h[n]]
  BY <1>6 DEF StackOK
<1>8. \A i \in 1 .. n : /\ lpu[h[i]] = IF i = 1 THEN b ELSE l_pri_locked[h[i - 1]]
                        /\ l_pri_locked[h[i]] <= b
                        /\ \A j \in i .. n : l_pri_locked[h[j]] <= l_pri_locked[h[i]]
                        /\ \A j \in i .. n : h[i] = h[j] => i = j
  BY DEF StackOK
<1> HIDE DEF g, n, lpu2
<1>9. \A i \in 1 .. n : l_pri_locked[l] <= l_pri_locked[h[i]]
  <2> TAKE i \in 1 .. n
  <2>1. n \in i .. n /\ n \in 1 .. n /\ n # 0
    BY <1>1
  <2>2. l_pri_locked[h[n]] <= l_pri_locked[h[i]] /\ p = l_pri_locked[h[n]]
    BY <1>7, <1>8, <2>1
  <2>3. l_pri_locked[h[n]] \in Int /\ l_pri_locked[h[i]] \in Int
    BY <1>3, <1>4, <2>1
  <2> QED
    BY <1>3, <1>4, <2>2, <2>3
<1>10. l_pri_locked[l] <= b
  <2>1. CASE n = 0
    BY <1>7, <2>1
  <2>2. CASE n # 0
    <3>1. 1 \in 1 .. n
      BY <1>1, <2>2
    <3> QED
      BY <1>3, <1>4, <1>8, <1>9, <3>1
  <2> QED
    BY <2>1, <2>2
<1>11. ASSUME NEW i \in 1 .. n + 1
       PROVE  /\ lpu2[g[i]] = IF i = 1 THEN b ELSE l_pri_locked[g[i - 1]]
              /\ l_pri_locked[g[i]] <= b
  <2>1. CASE i = n + 1
    <3>1. n # 0 => n \in 1 .. n /\ i - 1 = n
      BY <1>1, <2>1
    <3>2. n # 0 => g[i - 1] = h[n]
      BY <1>1, <3>1
    <3> QED
      BY <1>1, <1>2, <1>7, <1>10, <2>1, <3>2
  <2>2. CASE i # n + 1
    <3>1. i \in 1 .. n /\ (i # 1 => i - 1 \in 1 .. n)
      BY <1>1, <2>2
    <3>2. g[i] = h[i] /\ (i # 1 => g[i - 1] = h[i - 1]) /\ lpu2[h[i]] = lpu[h[i]]
      BY <1>1, <1>2, <1>4, <3>1
    <3> QED
      BY <1>8, <3>1, <3>2
  <2> QED
    BY <2>1, <2>2
<1>12. ASSUME NEW i \in 1 .. n + 1, NEW j \in i .. n + 1
       PROVE  l_pri_locked[g[j]] <= l_pri_locked[g[i]] /\ (g[i] = g[j] => i = j)
  <2>1. CASE j = n + 1 /\ i = n + 1
    BY <1>1, <1>3, <2>1
  <2>2. CASE j = n + 1 /\ i # n + 1
    <3>1. i \in 1 .. n
      BY <1>1, <2>2
    <3> QED
      BY <1>1, <1>4, <1>9, <2>2, <3>1
  <2>3. CASE j # n + 1
    <3>1. i \in 1 .. n /\ j \in i .. n /\ j \in 1 .. n
      BY <1>1, <2>3
    <3> QED
      BY <1>1, <1>8, <3>1
  <2> QED
    BY <2>1, <2>2, <2>3
<1>13. StackOK(g, b, l_pri_locked[l], lpu2)
  BY <1>1, <1>5, <1>11, <1>12 DEF StackOK
<1> QED
  BY <1>13 DEF g, lpu2

\* Releasing the innermost lock.
LEMMA PopStack ==
  ASSUME NEW h \in Seq(Locks), h # <<>>, NEW b, NEW p, NEW lpu, StackOK(h, b, p, lpu)
  PROVE  /\ SubSeq(h, 1, Len(h) - 1) \in Seq(Locks)
         /\ StackOK(SubSeq(h, 1, Len(h) - 1), b, lpu[h[Len(h)]], lpu)
         /\ \A l \in Locks : (\E i \in 1 .. Len(h) - 1 : SubSeq(h, 1, Len(h) - 1)[i] = l)
                             <=> (\E i \in 1 .. Len(h) : h[i] = l) /\ l # h[Len(h)]
         /\ Len(SubSeq(h, 1, Len(h) - 1)) = Len(h) - 1
<1> DEFINE n == Len(h)
           g == SubSeq(h, 1, n - 1)
<1>1. n \in Nat \ {0}
  BY LenProperties, EmptySeq
<1>2. g \in Seq(Locks) /\ Len(g) = n - 1 /\ \A i \in 1 .. n - 1 : g[i] = h[i]
  <2>1. \A i \in 1 .. n - 1 : h[i] \in Locks
    BY <1>1, ElementOfSeq
  <2>2. 1 \in Int /\ n - 1 \in Int
    BY <1>1
  <2>3. /\ g \in Seq(Locks)
        /\ Len(g) = IF 1 <= n - 1 THEN n - 1 - 1 + 1 ELSE 0
        /\ \A i \in 1 .. n - 1 - 1 + 1 : g[i] = h[1 + i - 1]
    <3> HIDE DEF n
    <3> QED
      BY <2>1, <2>2, SubSeqProperties, SMT
  <2> HIDE DEF g, n
  <2>4. n - 1 - 1 + 1 = n - 1 /\ \A i \in 1 .. n - 1 : 1 + i - 1 = i
    BY <1>1
  <2> QED
    BY <1>1, <2>3, <2>4
<1>3. g = <<>> <=> n = 1
  <2>1. Len(<<>>) = 0
    OBVIOUS
  <2> HIDE DEF g, n
  <2>2. g # <<>> => Len(g) # 0
    BY <1>2, EmptySeq
  <2> QED
    BY <1>1, <1>2, <2>1, <2>2
<1>4. /\ \A i \in 1 .. n : /\ lpu[h[i]] = IF i = 1 THEN b ELSE l_pri_locked[h[i - 1]]
                           /\ l_pri_locked[h[i]] <= b
      /\ \A i \in 1 .. n : \A j \in i .. n : l_pri_locked[h[j]] <= l_pri_locked[h[i]] /\ (h[i] = h[j] => i = j)
  BY DEF StackOK
<1> HIDE DEF g, n
<1>5. n \in 1 .. n /\ \A i \in 1 .. n - 1 : i \in 1 .. n /\ n \in i .. n /\ i # n /\ (i # 1 => i - 1 \in 1 .. n - 1)
  BY <1>1
<1>6. \A i \in 1 .. n - 1 : /\ lpu[g[i]] = IF i = 1 THEN b ELSE l_pri_locked[g[i - 1]]
                            /\ l_pri_locked[g[i]] <= b
  BY <1>2, <1>4, <1>5
<1>7. ASSUME NEW i \in 1 .. n - 1, NEW j \in i .. n - 1
      PROVE  l_pri_locked[g[j]] <= l_pri_locked[g[i]] /\ (g[i] = g[j] => i = j)
  <2>1. i \in 1 .. n /\ j \in i .. n /\ j \in 1 .. n - 1
    BY <1>1
  <2> QED
    BY <1>2, <1>4, <2>1
<1>8. lpu[h[n]] = IF g = <<>> THEN b ELSE l_pri_locked[g[n - 1]]
  <2>1. n # 1 => n - 1 \in 1 .. n - 1
    BY <1>1
  <2> QED
    BY <1>2, <1>3, <1>4, <1>5, <2>1
<1>9. StackOK(g, b, lpu[h[n]], lpu)
  BY <1>2, <1>6, <1>7, <1>8 DEF StackOK
<1>10. ASSUME NEW l \in Locks
       PROVE  (\E i \in 1 .. n - 1 : g[i] = l) <=> (\E i \in 1 .. n : h[i] = l) /\ l # h[n]
  <2>1. \A i \in 1 .. n - 1 : h[i] # h[n]
    BY <1>4, <1>5
  <2>2. \A i \in 1 .. n : i # n => i \in 1 .. n - 1
    BY <1>1
  <2> QED
    BY <1>2, <1>5, <2>1, <2>2
<1> QED
  BY <1>2, <1>9, <1>10 DEF g, n

-----------------------------------------------------------------------------
(* The run queue *)

\* A sleeper whose lock the current context holds is no more urgent than the
\* current context, so linking it in never makes it the head.
LEMMA HolderMoreUrgent ==
  ASSUME IInv, NEW c \in Contexts, c_state[c] \in Asleep, Holds(current, wait_lock[c])
  PROVE  c_priority[current] <= c_priority[c]
<1>1. resume[c] = "wait" /\ held[c] = <<>>
  BY DEF IInv, SleepInv, SleepersCanResume, Asleep, Runnable
<1>2. wait_lock[c] \in Locks /\ l_pri_locked[wait_lock[c]] <= base[c]
  BY <1>1 DEF IInv, SleepInv, SleepersCanResume
<1>3. current \in Contexts
  BY Basics
<1>4. c_priority[current] <= l_pri_locked[wait_lock[c]]
  BY <1>2, <1>3, CeilingBounds DEF IInv, LockInv
<1>5. c_priority[c] = base[c]
  BY <1>1, Basics
<1>6. c_priority[current] \in Int /\ base[c] \in Int /\ l_pri_locked[wait_lock[c]] \in Int
  BY <1>2, <1>3, Basics
<1> QED
  BY <1>2, <1>4, <1>5, <1>6

\* The context a queue operation wakes.
LEMMA QueuedSleeper ==
  ASSUME IInv, NEW q \in Queues, NEW i \in 1 .. Len(sleep_queue[q])
  PROVE  /\ sleep_queue[q][i] \in Contexts
         /\ c_state[sleep_queue[q][i]] = "SLEEP_QUEUE"
         /\ wait_lock[sleep_queue[q][i]] = QueueLock[q]
<1>1. sleep_queue[q] \in Seq(Contexts)
  BY DEF IInv, TypeOK
<1>2. sleep_queue[q][i] \in Contexts
  BY <1>1, ElementOfSeq
<1> QED
  BY <1>2 DEF IInv, SleepInv, SleepersQueued

\* The head of a non-empty sleep queue.
LEMMA QueueHead ==
  ASSUME IInv, NEW q \in Queues, sleep_queue[q] # <<>>
  PROVE  /\ Head(sleep_queue[q]) = sleep_queue[q][1]
         /\ 1 \in 1 .. Len(sleep_queue[q])
         /\ Len(sleep_queue[q]) \in Nat
<1>1. sleep_queue[q] \in Seq(Contexts)
  BY DEF IInv, TypeOK
<1> QED
  BY <1>1, EmptySeq

\* The run queue part of the invariant after the actions that wake a sleeper
\* while they hold its lock.
LEMMA WakeKeepsRQ ==
  ASSUME IInv, NEW c \in Contexts, NEW st \in {"READY", "INTERRUPTED"}, c_state[c] \in Asleep,
         Holds(current, wait_lock[c]), Wake(c, st)
  PROVE  /\ run_queue' \in Seq(Contexts)
         /\ RQ(run_queue', current', c_state', c_priority', base', held')
BY HolderMoreUrgent, WakeRQ

LEMMA RunQueueNext ==
  ASSUME IInv, Next
  PROVE  run_queue' \in Seq(Contexts) /\ RunQueueInv'
<1> DEFINE Good == /\ run_queue' \in Seq(Contexts)
                   /\ RQ(run_queue', current', c_state', c_priority', base', held')
<1> SUFFICES Good
  BY RunQueueValueNext
<1>b. /\ c_priority \in [Contexts -> Int] /\ base \in [Contexts -> Int]
      /\ l_pri_locked \in [Locks -> Int] /\ l_pri_unlocked \in [Locks -> Int]
      /\ current \in Contexts /\ run_queue \in Seq(Contexts)
      /\ \A c \in Contexts : held[c] = <<>> => base[c] = c_priority[c]
  BY Basics
<1>y. ASSUME held[current] = <<>>, YieldAt(c_priority), UNCHANGED <<c_priority, base, held>>
      PROVE  Good
  BY <1>b, <1>y, YieldRQ
<1>1. CASE ContextYield
  BY <1>1, <1>y DEF ContextYield, lockVars
<1>2. CASE ThreadYield
  BY <1>2, <1>y DEF ThreadYield, lockVars
<1>3. CASE IdleDemote
  <2> DEFINE pri == [c_priority EXCEPT ![Idle] = IdlePri]
             bs == [base EXCEPT ![Idle] = IdlePri]
  <2>1. /\ current = Idle /\ held[Idle] = <<>> /\ c_priority' = pri /\ base' = bs
        /\ held' = held /\ YieldAt(pri)
    BY <1>3 DEF IdleDemote, lockVars
  <2>2. pri \in [Contexts -> Int] /\ bs \in [Contexts -> Int]
    BY <1>b, ContextAssumption DEF IdlePri
  <2>3. \A c \in Contexts \ {current} : pri[c] = c_priority[c] /\ bs[c] = base[c]
    BY <2>1, <1>b
  <2>4. bs[current] = pri[current]
    BY <2>1, <1>b
  <2> HIDE DEF pri, bs
  <2> QED
    BY <2>1, <2>2, <2>3, <2>4, YieldRQ
<1>4. ASSUME NEW c \in Contexts, Create(c) PROVE Good
  BY <1>4, CreateRQ
<1>5. CASE Exit
  <2>1. /\ current # Idle /\ run_queue' = Tail(run_queue)
        /\ SwitchTo(Tail(run_queue), [c_state EXCEPT ![current] = "NULL"])
        /\ c_priority' = c_priority /\ base' = base /\ held' = held
    BY <1>5 DEF Exit, lockVars
  <2>2. "NULL" \in States \ Runnable
    BY DEF States, Runnable
  <2> QED
    BY <2>1, <2>2, LeaveRQ
<1>6. ASSUME NEW l \in Locks, SpinlockLock(l) PROVE Good
  <2> DEFINE pri == [c_priority EXCEPT ![current] = l_pri_locked[l]]
             hd == [held EXCEPT ![current] = Append(@, l)]
  <2>1. /\ c_priority' = pri /\ held' = hd /\ l_pri_locked[l] <= c_priority[current]
        /\ current' = current /\ run_queue' = run_queue /\ c_state' = c_state /\ base' = base
    BY <1>6 DEF SpinlockLock
  <2>2. pri \in [Contexts -> Int] /\ pri[current] = l_pri_locked[l]
    BY <1>b
  <2>3. \A c \in Contexts \ {current} : pri[c] = c_priority[c] /\ hd[c] = held[c]
    BY DEF IInv, TypeOK
  <2> HIDE DEF pri, hd
  <2> QED
    BY <1>b, <2>1, <2>2, <2>3, RaiseRQ
<1>7. CASE SpinlockUnlock
  BY <1>7, UnlockRQ
<1>8. ASSUME NEW l \in Locks, NEW s \in Asleep, WaitIn(l, s) PROVE Good
  <2> DEFINE pri == [c_priority EXCEPT ![current] = l_pri_unlocked[l]]
             hd == [held EXCEPT ![current] = <<>>]
  <2>1. /\ current # Idle /\ run_queue' = Tail(run_queue)
        /\ SwitchTo(Tail(run_queue), [c_state EXCEPT ![current] = s])
        /\ c_priority' = pri /\ base' = base /\ held' = hd
    BY <1>8 DEF WaitIn
  <2>2. s \in States \ Runnable
    BY DEF States, Runnable, Asleep
  <2>3. \A c \in Contexts \ {current} : pri[c] = c_priority[c] /\ hd[c] = held[c]
    BY DEF IInv, TypeOK
  <2> HIDE DEF pri, hd
  <2> QED
    BY <2>1, <2>2, <2>3, LeaveRQ
<1>9. CASE WaitReturn
  <2> DEFINE l == wait_lock[current]
             pri == [c_priority EXCEPT ![current] = l_pri_locked[l]]
             hd == [held EXCEPT ![current] = Append(@, l)]
  <2>1. /\ c_priority' = pri /\ held' = hd /\ resume[current] = "wait"
        /\ current' = current /\ run_queue' = run_queue /\ c_state' = c_state /\ base' = base
    BY <1>9 DEF WaitReturn
  <2>2. l \in Locks /\ l_pri_locked[l] <= base[current] /\ held[current] = <<>>
    BY <1>b, <2>1 DEF IInv, SleepInv, SleepersCanResume
  <2>3. pri \in [Contexts -> Int] /\ pri[current] = l_pri_locked[l]
    BY <1>b, <2>2
  <2>4. pri[current] <= c_priority[current]
    BY <1>b, <2>2, <2>3
  <2>5. \A c \in Contexts \ {current} : pri[c] = c_priority[c] /\ hd[c] = held[c]
    BY DEF IInv, TypeOK
  <2> HIDE DEF pri, hd
  <2> QED
    BY <1>b, <2>1, <2>3, <2>4, <2>5, RaiseRQ
<1>10. ASSUME NEW c \in Contexts, Signal(c) PROVE Good
  BY <1>10, WakeKeepsRQ DEF Signal, Asleep
<1>11. ASSUME NEW c \in Contexts, Interrupt(c) PROVE Good
  BY <1>11, WakeKeepsRQ DEF Interrupt, Asleep
<1>12. ASSUME NEW q \in Queues, SignalQueue(q) PROVE Good
  BY <1>12, QueueHead, QueuedSleeper, WakeKeepsRQ DEF SignalQueue, Asleep
<1>13. ASSUME NEW q \in Queues, NEW i \in DOMAIN sleep_queue[q], InterruptQueue(q, i) PROVE Good
  <2>1. i \in 1 .. Len(sleep_queue[q])
    BY LenProperties DEF IInv, TypeOK
  <2> QED
    BY <1>13, <2>1, QueuedSleeper, WakeKeepsRQ DEF InterruptQueue, Asleep
<1>14. ASSUME NEW q \in Queues, Broadcast(q) PROVE Good
  <2>1. UNCHANGED <<current, run_queue, c_state, c_priority, base, held>>
    BY <1>14 DEF Broadcast, lockVars
  <2> QED
    BY <2>1, Basics
<1>15. CASE BroadcastStep
  <2>1. bcast_q # NoQueue /\ Wake(Head(sleep_queue[bcast_q]), "READY")
    BY <1>15 DEF BroadcastStep
  <2>2. bcast_q \in Queues /\ Holds(current, QueueLock[bcast_q]) /\ sleep_queue[bcast_q] # <<>>
    BY <2>1 DEF IInv, TypeOK, SleepInv, SleepersCanResume
  <2> QED
    BY <2>1, <2>2, QueueHead, QueuedSleeper, WakeKeepsRQ DEF Asleep
<1>16. ASSUME NEW l \in IsrLocks, NEW c \in Contexts, NEW rest, TrapSignal(l, c, rest) PROVE Good
  BY <1>16, TrapRQ
<1>17. CASE TrapSchedule
  <2>1. CASE c_priority[current] >= RoundRobinPri /\ ticks_left[current] = 1
    <3>1. held[current] = <<>>
      <4>1. held[current] # <<>> => c_priority[current] < RoundRobinPri
        BY <1>b, CeilingBounds DEF IInv, LockInv
      <4> QED
        BY <2>1, <4>1, <1>b DEF RoundRobinPri
    <3>2. YieldAt(c_priority) /\ UNCHANGED <<c_priority, base, held>>
      BY <1>17, <2>1 DEF TrapSchedule, lockVars
    <3> QED
      BY <1>y, <3>1, <3>2
  <2>2. CASE ~(c_priority[current] >= RoundRobinPri /\ ticks_left[current] = 1)
    <3>1. UNCHANGED <<current, run_queue, c_state, c_priority, base, held>>
      BY <1>17, <2>2 DEF TrapSchedule, lockVars
    <3> QED
      BY <3>1, Basics
  <2> QED
    BY <2>1, <2>2
<1> QED
  <2> HIDE DEF Good
  <2>1. ASSUME NEW l \in Locks, Wait(l) PROVE Good
    BY <1>8, <2>1 DEF Wait, Asleep
  <2>2. ASSUME NEW q \in Queues, WaitQueue(q) PROVE Good
    BY <1>8, <2>2, ContextAssumption DEF WaitQueue, Asleep
  <2>3. ASSUME NEW q \in Queues, WaitPriQueue(q) PROVE Good
    BY <1>8, <2>3, ContextAssumption DEF WaitPriQueue, Asleep
  <2>4. ASSUME NEW l \in IsrLocks, NEW c \in Contexts, TrapDevice(l, c) \/ TrapTimer(l, c) PROVE Good
    BY <1>16, <2>4 DEF TrapDevice, TrapTimer
  <2> QED
    BY <1>1, <1>2, <1>3, <1>4, <1>5, <1>6, <1>7, <1>9, <1>10, <1>11, <1>12, <1>13, <1>14,
       <1>15, <1>17, <2>1, <2>2, <2>3, <2>4 DEF Next

-----------------------------------------------------------------------------
(* The locks *)

\* Holds by position.
LEMMA HoldsAt ==
  ASSUME TypeOK, NEW c \in Contexts, NEW l
  PROVE  Holds(c, l) <=> \E i \in 1 .. Len(held[c]) : held[c][i] = l
BY LenProperties DEF TypeOK, Holds

\* The current context takes a lock that its priority allows it to take.
LEMMA PushLock ==
  ASSUME IInv, NEW l \in Locks, l_pri_locked[l] <= c_priority[current], ~Holds(current, l),
         l_pri_unlocked' = [l_pri_unlocked EXCEPT ![l] = c_priority[current]],
         c_priority' = [c_priority EXCEPT ![current] = l_pri_locked[l]],
         held' = [held EXCEPT ![current] = Append(@, l)],
         l_lock' = [l_lock EXCEPT ![l] = 1],
         base' = base
  PROVE  LockInv'
<1> DEFINE h == held[current]
           lpu == [l_pri_unlocked EXCEPT ![l] = c_priority[current]]
<1>1. /\ current \in Contexts /\ held \in [Contexts -> Seq(Locks)] /\ h \in Seq(Locks)
      /\ l_lock \in [Locks -> {0, 1}] /\ l_pri_unlocked \in [Locks -> Int]
      /\ c_priority \in [Contexts -> Int] /\ base \in [Contexts -> Int] /\ l_pri_locked[l] \in Int
  BY Basics DEF IInv, TypeOK
<1>2. \A d \in Contexts : ~Holds(d, l)
  <2>1. c_priority[current] <= base[current]
    BY <1>1, Basics
  <2>2. c_priority[current] \in Int /\ base[current] \in Int
    BY <1>1
  <2>3. l_pri_locked[l] <= base[current]
    BY <1>1, <2>1, <2>2
  <2> QED
    BY <2>3, CeilingExcludes
<1>3. \A d \in Contexts : \A i \in 1 .. Len(held[d]) : held[d][i] # l
  BY <1>2, HoldsAt DEF IInv
<1>4. /\ held'[current] = Append(h, l) /\ c_priority'[current] = l_pri_locked[l]
      /\ \A d \in Contexts \ {current} : held'[d] = held[d] /\ c_priority'[d] = c_priority[d]
      /\ l_pri_unlocked' = lpu
  BY <1>1
<1>5. \A d \in Contexts : \A m : Holds(d, m)' <=> Holds(d, m) \/ (d = current /\ m = l)
  <2> TAKE d \in Contexts
  <2> TAKE m
  <2>1. CASE d # current
    <3>1. held'[d] = held[d]
      BY <1>4, <2>1
    <3> QED
      BY <2>1, <3>1 DEF Holds
  <2>2. CASE d = current
    <3>1. /\ DOMAIN Append(h, l) = 1 .. Len(h) + 1 /\ Len(h) \in Nat /\ DOMAIN h = 1 .. Len(h)
          /\ Append(h, l)[Len(h) + 1] = l /\ \A i \in 1 .. Len(h) : Append(h, l)[i] = h[i]
      BY <1>1, LenProperties, AppendProperties
    <3>2. Holds(d, m)' <=> \E i \in 1 .. Len(h) + 1 : Append(h, l)[i] = m
      BY <1>4, <2>2, <3>1 DEF Holds
    <3>3. Holds(d, m) <=> \E i \in 1 .. Len(h) : h[i] = m
      BY <2>2, <3>1 DEF Holds
    <3> HIDE DEF h
    <3>4. \A i : i \in 1 .. Len(h) + 1 <=> i \in 1 .. Len(h) \/ i = Len(h) + 1
      BY <3>1
    <3> QED
      BY <2>2, <3>1, <3>2, <3>3, <3>4
  <2> QED
    BY <2>1, <2>2
<1>6. LockStack'
  <2>0. \A d \in Contexts : StackOK(held[d], base[d], c_priority[d], l_pri_unlocked)
    BY LockStackValue DEF IInv, LockInv
  <2>1. StackOK(held'[current], base'[current], c_priority'[current], l_pri_unlocked')
    <3>1. c_priority[current] \in Int /\ base[current] \in Int /\ \A i \in 1 .. Len(h) : h[i] # l
      BY <1>1, <1>3
    <3>2. StackOK(h, base[current], c_priority[current], l_pri_unlocked)
      BY <1>1, <2>0
    <3> HIDE DEF h
    <3>3. StackOK(Append(h, l), base[current], l_pri_locked[l], lpu)
      BY <1>1, <3>1, <3>2, PushStack
    <3> QED
      BY <1>4, <3>3
  <2>2. ASSUME NEW d \in Contexts \ {current}
        PROVE  StackOK(held'[d], base'[d], c_priority'[d], l_pri_unlocked')
    <3>1. \A i \in 1 .. Len(held[d]) : l_pri_unlocked'[held[d][i]] = l_pri_unlocked[held[d][i]]
      <4> TAKE i \in 1 .. Len(held[d])
      <4>1. held[d][i] # l /\ held[d][i] \in Locks
        BY <1>1, <1>3, ElementOfSeq
      <4> QED
        BY <1>1, <4>1
    <3>2. StackOK(held[d], base[d], c_priority[d], l_pri_unlocked')
      BY <2>0, <3>1 DEF StackOK
    <3> QED
      BY <1>4, <3>2
  <2> QED
    BY <2>1, <2>2, LockStackValueNext
<1>7. LockFlag'
  <2> SUFFICES ASSUME NEW m \in Locks PROVE l_lock'[m] = 1 <=> \E d \in Contexts : Holds(d, m)'
    BY DEF LockFlag
  <2>1. l_lock[m] = 1 <=> \E d \in Contexts : Holds(d, m)
    BY DEF IInv, LockInv, LockFlag
  <2>2. l_lock'[m] = IF m = l THEN 1 ELSE l_lock[m]
    BY <1>1
  <2> QED
    BY <1>1, <1>5, <2>1, <2>2
<1>8. MutualExclusion'
  <2> SUFFICES ASSUME NEW d \in Contexts, NEW e \in Contexts, NEW m \in Locks, Holds(d, m)', Holds(e, m)'
               PROVE  d = e
    BY DEF MutualExclusion
  <2>1. Holds(d, m) /\ Holds(e, m) => d = e
    BY DEF IInv, LockInv, MutualExclusion
  <2> QED
    BY <1>2, <1>5, <2>1
<1> QED
  BY <1>6, <1>7, <1>8 DEF LockInv

\* The current context gives its innermost lock back.
LEMMA PopLock ==
  ASSUME IInv, held[current] # <<>>, NEW l, l = held[current][Len(held[current])],
         l_pri_unlocked' = l_pri_unlocked,
         c_priority' = [c_priority EXCEPT ![current] = l_pri_unlocked[l]],
         held' = [held EXCEPT ![current] = SubSeq(@, 1, Len(@) - 1)],
         l_lock' = [l_lock EXCEPT ![l] = 0],
         base' = base
  PROVE  LockInv'
<1> DEFINE h == held[current]
           g == SubSeq(h, 1, Len(h) - 1)
<1>1. /\ current \in Contexts /\ held \in [Contexts -> Seq(Locks)] /\ h \in Seq(Locks)
      /\ l_lock \in [Locks -> {0, 1}] /\ c_priority \in [Contexts -> Int]
  BY Basics DEF IInv, TypeOK
<1>2. l \in Locks /\ Holds(current, l)
  BY <1>1, Innermost DEF IInv, LockInv
<1>3. /\ held'[current] = g /\ c_priority'[current] = l_pri_unlocked[l]
      /\ \A d \in Contexts \ {current} : held'[d] = held[d] /\ c_priority'[d] = c_priority[d]
  BY <1>1
<1>4. \A d \in Contexts : StackOK(held[d], base[d], c_priority[d], l_pri_unlocked)
  BY LockStackValue DEF IInv, LockInv
<1>5. /\ g \in Seq(Locks) /\ StackOK(g, base[current], l_pri_unlocked[l], l_pri_unlocked)
      /\ \A m \in Locks : (\E i \in 1 .. Len(h) - 1 : g[i] = m)
                          <=> (\E i \in 1 .. Len(h) : h[i] = m) /\ m # l
      /\ Len(g) = Len(h) - 1
  <2>1. StackOK(h, base[current], c_priority[current], l_pri_unlocked)
    BY <1>1, <1>4
  <2> QED
    BY <1>1, <2>1, PopStack
<1>6. \A d \in Contexts, m \in Locks : Holds(d, m)' <=> Holds(d, m) /\ ~(d = current /\ m = l)
  <2> TAKE d \in Contexts, m \in Locks
  <2>1. CASE d # current
    <3>1. held'[d] = held[d]
      BY <1>3, <2>1
    <3> QED
      BY <2>1, <3>1 DEF Holds
  <2>2. CASE d = current
    <3>1. DOMAIN g = 1 .. Len(h) - 1
      BY <1>5, LenProperties
    <3> HIDE DEF g
    <3>2. Holds(d, m)' <=> \E i \in 1 .. Len(h) - 1 : g[i] = m
      BY <1>3, <2>2, <3>1 DEF Holds
    <3>3. Holds(d, m) <=> \E i \in 1 .. Len(h) : h[i] = m
      BY <2>2, HoldsAt DEF IInv
    <3> QED
      BY <1>5, <2>2, <3>2, <3>3
  <2> QED
    BY <2>1, <2>2
<1>7. LockStack'
  <2>1. ASSUME NEW d \in Contexts
        PROVE  StackOK(held'[d], base'[d], c_priority'[d], l_pri_unlocked')
    BY <1>3, <1>4, <1>5
  <2> QED
    BY <2>1, LockStackValueNext
<1>8. MutualExclusion'
  <2> SUFFICES ASSUME NEW d \in Contexts, NEW e \in Contexts, NEW m \in Locks, Holds(d, m)', Holds(e, m)'
               PROVE  d = e
    BY DEF MutualExclusion
  <2>1. Holds(d, m) /\ Holds(e, m) => d = e
    BY DEF IInv, LockInv, MutualExclusion
  <2> QED
    BY <1>6, <2>1
<1>9. LockFlag'
  <2> SUFFICES ASSUME NEW m \in Locks PROVE l_lock'[m] = 1 <=> \E d \in Contexts : Holds(d, m)'
    BY DEF LockFlag
  <2>1. l_lock[m] = 1 <=> \E d \in Contexts : Holds(d, m)
    BY DEF IInv, LockInv, LockFlag
  <2>2. l_lock'[m] = IF m = l THEN 0 ELSE l_lock[m]
    BY <1>1
  <2>3. \A d \in Contexts : Holds(d, l) => d = current
    BY <1>1, <1>2 DEF IInv, LockInv, MutualExclusion
  <2> QED
    BY <1>1, <1>6, <2>1, <2>2, <2>3
<1> QED
  BY <1>7, <1>8, <1>9 DEF LockInv

\* Steps that leave the locks alone and change the priority only of a context
\* that holds none.
LEMMA SameLocks ==
  ASSUME IInv, NEW c \in Contexts, held[c] = <<>>, UNCHANGED lockVars, c_priority'[c] = base'[c],
         \A d \in Contexts \ {c} : c_priority'[d] = c_priority[d] /\ base'[d] = base[d]
  PROVE  LockInv'
<1>1. held' = held /\ l_lock' = l_lock /\ l_pri_unlocked' = l_pri_unlocked
  BY DEF lockVars
<1>2. LockFlag' /\ MutualExclusion'
  BY <1>1 DEF IInv, LockInv, LockFlag, MutualExclusion, Holds
<1>3. LockStack'
  <2>1. \A d \in Contexts : StackOK(held[d], base[d], c_priority[d], l_pri_unlocked)
    BY LockStackValue DEF IInv, LockInv
  <2>2. StackOK(<<>>, base'[c], c_priority'[c], l_pri_unlocked)
    BY DEF StackOK
  <2>3. \A d \in Contexts : StackOK(held'[d], base'[d], c_priority'[d], l_pri_unlocked')
    BY <1>1, <2>1, <2>2
  <2> QED
    BY <2>3, LockStackValueNext
<1> QED
  BY <1>2, <1>3 DEF LockInv

\* A trap borrows an isr lock that nobody holds.
LEMMA TrapLocks ==
  ASSUME IInv, NEW l \in IsrLocks, NEW c, NEW rest, TrapSignal(l, c, rest)
  PROVE  LockInv'
<1>1. /\ l_pri_unlocked' = [l_pri_unlocked EXCEPT ![l] = c_priority[current]]
      /\ c_priority' = c_priority /\ base' = base /\ held' = held /\ l_lock' = l_lock
      /\ IntEnabled
  BY DEF TrapSignal
<1>2. /\ l \in Locks /\ l_pri_locked[l] = 0 /\ current \in Contexts
      /\ base[current] \in Nat /\ l_pri_unlocked \in [Locks -> Int] /\ held \in [Contexts -> Seq(Locks)]
  BY ContextAssumption, Basics DEF IInv, TypeOK, Priorities, Byte
<1>3. \A d \in Contexts : ~Holds(d, l)
  <2>1. l_pri_locked[l] <= base[current]
    BY <1>2
  <2>2. ~Holds(current, l)
    BY <1>1 DEF IntEnabled, Holds
  <2> QED
    BY <1>2, <2>1, <2>2, CeilingExcludes
<1>4. \A d \in Contexts : \A i \in 1 .. Len(held[d]) : held[d][i] # l
  BY <1>3, HoldsAt DEF IInv
<1>5. ASSUME NEW d \in Contexts
      PROVE  StackOK(held[d], base[d], c_priority[d], l_pri_unlocked')
  <2>1. StackOK(held[d], base[d], c_priority[d], l_pri_unlocked)
    BY LockStackValue DEF IInv, LockInv
  <2>2. \A i \in 1 .. Len(held[d]) : held[d][i] # l /\ held[d][i] \in Locks
    BY <1>2, <1>4, ElementOfSeq
  <2>3. \A i \in 1 .. Len(held[d]) : l_pri_unlocked'[held[d][i]] = l_pri_unlocked[held[d][i]]
    BY <1>1, <1>2, <2>2
  <2> QED
    BY <2>1, <2>3 DEF StackOK
<1>6. LockStack'
  BY <1>1, <1>5, LockStackValueNext
<1> QED
  BY <1>1, <1>6 DEF IInv, LockInv, LockFlag, MutualExclusion, Holds

LEMMA LockNext ==
  ASSUME IInv, Next
  PROVE  LockInv'
<1> DEFINE same == UNCHANGED <<lockVars, c_priority, base>>
<1>b. /\ c_priority \in [Contexts -> Int] /\ base \in [Contexts -> Int] /\ current \in Contexts
      /\ \A c \in Contexts : held[c] = <<>> => base[c] = c_priority[c]
  BY Basics
<1>s. ASSUME same PROVE LockInv'
  BY <1>s DEF lockVars, IInv, LockInv, LockStack, LockFlag, MutualExclusion, Holds
<1> HIDE DEF same
<1>1. ContextYield \/ ThreadYield \/ Exit \/ BroadcastStep \/ TrapSchedule => same
  BY DEF same, ContextYield, ThreadYield, Exit, BroadcastStep, TrapSchedule, Wake
<1>2. \A c \in Contexts : Signal(c) \/ Interrupt(c) => same
  BY DEF same, Signal, Interrupt, Wake
<1>3. \A q \in Queues : SignalQueue(q) \/ Broadcast(q) => same
  BY DEF same, SignalQueue, Broadcast, Wake
<1>4. \A q \in Queues : \A i \in DOMAIN sleep_queue[q] : InterruptQueue(q, i) => same
  BY DEF same, InterruptQueue, Wake
<1>5. CASE IdleDemote
  <2>1. /\ held[Idle] = <<>> /\ UNCHANGED lockVars
        /\ c_priority' = [c_priority EXCEPT ![Idle] = IdlePri]
        /\ base' = [base EXCEPT ![Idle] = IdlePri]
    BY <1>5 DEF IdleDemote
  <2>2. Idle \in Contexts
    BY ContextAssumption
  <2> QED
    BY <1>b, <2>1, <2>2, SameLocks
<1>6. ASSUME NEW c \in Contexts, Create(c) PROVE LockInv'
  <2>1. /\ c_state[c] = "NULL" /\ UNCHANGED lockVars
        /\ c_priority' = [c_priority EXCEPT ![c] = Pri[c]]
        /\ base' = [base EXCEPT ![c] = Pri[c]]
    BY <1>6 DEF Create
  <2>2. held[c] = <<>>
    BY <2>1 DEF IInv, SleepInv, SleepersCanResume, Runnable
  <2> QED
    BY <1>b, <2>1, <2>2, SameLocks
<1>7. ASSUME NEW l \in Locks, SpinlockLock(l) PROVE LockInv'
  BY <1>7, PushLock DEF SpinlockLock
<1>8. CASE SpinlockUnlock
  BY <1>8, PopLock DEF SpinlockUnlock
<1>9. ASSUME NEW l \in Locks, NEW s, WaitIn(l, s) PROVE LockInv'
  <2>1. /\ held[current] = <<l>> /\ l_pri_unlocked' = l_pri_unlocked
        /\ c_priority' = [c_priority EXCEPT ![current] = l_pri_unlocked[l]]
        /\ held' = [held EXCEPT ![current] = <<>>]
        /\ l_lock' = [l_lock EXCEPT ![l] = 0] /\ base' = base
    BY <1>9 DEF WaitIn
  <2>2. held[current] # <<>> /\ l = held[current][Len(held[current])]
    BY <2>1
  <2>3. SubSeq(held[current], 1, Len(held[current]) - 1) = <<>>
    BY <2>1, SubSeqEmpty
  <2>4. held' = [held EXCEPT ![current] = SubSeq(@, 1, Len(@) - 1)]
    BY <2>1, <2>3
  <2> QED
    BY <2>1, <2>2, <2>4, PopLock
<1>10. CASE WaitReturn
  <2>1. resume[current] = "wait"
    BY <1>10 DEF WaitReturn
  <2>2. wait_lock[current] \in Locks /\ l_pri_locked[wait_lock[current]] <= base[current] /\ held[current] = <<>>
    BY <1>b, <2>1 DEF IInv, SleepInv, SleepersCanResume
  <2>3. ~Holds(current, wait_lock[current]) /\ l_pri_locked[wait_lock[current]] <= c_priority[current]
    BY <1>b, <2>2 DEF Holds
  <2> QED
    BY <1>10, <2>2, <2>3, PushLock DEF WaitReturn
<1>11. ASSUME NEW l \in Locks, Wait(l) PROVE LockInv'
  BY <1>9, <1>11 DEF Wait
<1>12. ASSUME NEW q \in Queues, WaitQueue(q) \/ WaitPriQueue(q) PROVE LockInv'
  BY <1>9, <1>12, ContextAssumption DEF WaitQueue, WaitPriQueue
<1>13. ASSUME NEW l \in IsrLocks, NEW c \in Contexts, TrapDevice(l, c) \/ TrapTimer(l, c) PROVE LockInv'
  BY <1>13, TrapLocks DEF TrapDevice, TrapTimer
<1> QED
  BY <1>s, <1>1, <1>2, <1>3, <1>4, <1>5, <1>6, <1>7, <1>8, <1>10, <1>11, <1>12, <1>13 DEF Next

-----------------------------------------------------------------------------
(* The sleep queues *)

\* The current context is runnable and on no sleep queue.
LEMMA CurrentAwake ==
  ASSUME IInv
  PROVE  /\ current \in Contexts /\ c_state[current] = "RUNNING"
         /\ \A q \in Queues : \A i \in 1 .. Len(sleep_queue[q]) : sleep_queue[q][i] # current
<1>1. current \in Contexts /\ c_state[current] = "RUNNING"
  BY Basics DEF RQ
<1> QED
  BY <1>1, QueuedSleeper

\* Steps that put no context on a sleep queue and take none off.
LEMMA KeepQueues ==
  ASSUME IInv, sleep_queue' = sleep_queue,
         \A c \in Contexts : c_state'[c] = "SLEEP_QUEUE" <=> c_state[c] = "SLEEP_QUEUE",
         \A c \in Contexts : c_state[c] = "SLEEP_QUEUE" => wait_lock'[c] = wait_lock[c]
  PROVE  SleepersQueued'
<1>1. \A q \in Queues : \A i \in 1 .. Len(sleep_queue[q]) :
         /\ sleep_queue[q][i] \in Contexts
         /\ c_state[sleep_queue[q][i]] = "SLEEP_QUEUE"
         /\ wait_lock[sleep_queue[q][i]] = QueueLock[q]
  BY QueuedSleeper
<1> QED
  BY <1>1 DEF IInv, SleepInv, SleepersQueued

\* The current context goes to sleep as entry k of the queue q.
LEMMA JoinQueue ==
  ASSUME IInv, NEW q \in Queues, NEW k \in 1 .. Len(sleep_queue[q]) + 1,
         sleep_queue' = [sleep_queue EXCEPT ![q] = LinkAt(@, k, current)],
         wait_lock' = [wait_lock EXCEPT ![current] = QueueLock[q]],
         c_state'[current] = "SLEEP_QUEUE",
         \A c \in Contexts \ {current} : c_state'[c] = "SLEEP_QUEUE" <=> c_state[c] = "SLEEP_QUEUE"
  PROVE  SleepersQueued' /\ sleep_queue' \in [Queues -> Seq(Contexts)]
<1> DEFINE s == sleep_queue[q]
           n == Len(s)
           r == LinkAt(s, k, current)
<1>1. /\ current \in Contexts /\ s \in Seq(Contexts) /\ n \in Nat
      /\ sleep_queue \in [Queues -> Seq(Contexts)] /\ wait_lock \in [Contexts -> Locks \cup {NoLock}]
  BY CurrentAwake, LenProperties DEF IInv, TypeOK
<1>2. /\ r \in Seq(Contexts) /\ Len(r) = n + 1 /\ r[k] = current
      /\ \A i \in 1 .. k - 1 : r[i] = s[i]
      /\ \A i \in k .. n : r[i + 1] = s[i]
      /\ \A i \in k + 1 .. n + 1 : r[i] = s[i - 1]
  <2>1. k \in 1 .. Len(s) + 1
    OBVIOUS
  <2> HIDE DEF s
  <2> QED
    BY <1>1, <2>1, LinkAtProperties
<1>3. sleep_queue'[q] = r /\ \A p \in Queues \ {q} : sleep_queue'[p] = sleep_queue[p]
  BY <1>1
<1>4. \A p \in Queues : \A i \in 1 .. Len(sleep_queue[p]) :
        /\ sleep_queue[p][i] \in Contexts \ {current}
        /\ c_state[sleep_queue[p][i]] = "SLEEP_QUEUE"
        /\ wait_lock[sleep_queue[p][i]] = QueueLock[p]
  BY QueuedSleeper, CurrentAwake
<1>5. /\ \A p, u \in Queues : \A i \in 1 .. Len(sleep_queue[p]), j \in 1 .. Len(sleep_queue[u]) :
           sleep_queue[p][i] = sleep_queue[u][j] => p = u /\ i = j
      /\ \A c \in Contexts : c_state[c] = "SLEEP_QUEUE" =>
           \E p \in Queues : \E i \in 1 .. Len(sleep_queue[p]) : sleep_queue[p][i] = c
  BY DEF IInv, SleepInv, SleepersQueued
<1>6. wait_lock'[current] = QueueLock[q] /\ \A c \in Contexts \ {current} : wait_lock'[c] = wait_lock[c]
  BY <1>1
<1>7. sleep_queue' \in [Queues -> Seq(Contexts)]
  BY <1>1, <1>2
<1> DEFINE from(i) == IF i < k THEN i ELSE i - 1
<1>8. \A i \in 1 .. n + 1 : i = k \/ (from(i) \in 1 .. n /\ r[i] = s[from(i)])
  <2> TAKE i \in 1 .. n + 1
  <2>1. CASE i < k
    BY <1>1, <1>2, <2>1
  <2>2. CASE i > k
    <3>1. i \in k + 1 .. n + 1 /\ from(i) = i - 1 /\ i - 1 \in 1 .. n
      BY <1>1, <2>2
    <3> HIDE DEF from, s, r, n
    <3> QED
      BY <1>2, <3>1
  <2> QED
    BY <1>1, <2>1, <2>2
<1>9. \A i, j \in 1 .. n + 1 : i # k /\ j # k /\ from(i) = from(j) => i = j
  BY <1>1
<1>10. k \in 1 .. n + 1
  OBVIOUS
<1>11. \A i \in 1 .. n : \E j \in 1 .. n + 1 : r[j] = s[i]
  <2> TAKE i \in 1 .. n
  <2>1. CASE i < k
    <3>1. i \in 1 .. k - 1 /\ i \in 1 .. n + 1
      BY <1>1, <2>1
    <3> QED
      BY <1>2, <3>1
  <2>2. CASE i >= k
    <3>1. i \in k .. n /\ i + 1 \in 1 .. n + 1
      BY <1>1, <2>2
    <3> QED
      BY <1>2, <3>1
  <2> QED
    BY <1>1, <2>1, <2>2
<1>12. \A i \in 1 .. n : s[i] \in Contexts \ {current} /\ c_state[s[i]] = "SLEEP_QUEUE" /\ wait_lock[s[i]] = QueueLock[q]
  BY <1>4
<1>13. \A i, j \in 1 .. n : s[i] = s[j] => i = j
  BY <1>5
<1>14. \A p \in Queues \ {q} : \A i \in 1 .. n : \A j \in 1 .. Len(sleep_queue[p]) : s[i] # sleep_queue[p][j]
  BY <1>5
<1> HIDE DEF s, r, n, from
<1>15. ASSUME NEW p \in Queues, NEW i \in 1 .. Len(sleep_queue'[p])
       PROVE  /\ c_state'[sleep_queue'[p][i]] = "SLEEP_QUEUE"
              /\ wait_lock'[sleep_queue'[p][i]] = QueueLock[p]
  <2>1. CASE p = q
    BY <1>2, <1>3, <1>6, <1>8, <1>12, <2>1
  <2>2. CASE p # q
    BY <1>3, <1>4, <1>6, <2>2
  <2> QED
    BY <2>1, <2>2
<1>16. ASSUME NEW p \in Queues, NEW u \in Queues, NEW i \in 1 .. Len(sleep_queue'[p]),
              NEW j \in 1 .. Len(sleep_queue'[u]), sleep_queue'[p][i] = sleep_queue'[u][j]
       PROVE  p = u /\ i = j
  <2>1. CASE p = q /\ u = q
    <3>1. i \in 1 .. n + 1 /\ j \in 1 .. n + 1 /\ r[i] = r[j]
      BY <1>2, <1>3, <1>16, <2>1
    <3>2. i = k <=> j = k
      BY <1>2, <1>8, <1>12, <3>1
    <3>3. i # k => from(i) = from(j)
      BY <1>8, <1>13, <3>1, <3>2
    <3> QED
      BY <1>9, <2>1, <3>1, <3>2, <3>3
  <2>0. ASSUME NEW w \in Queues \ {q}, NEW a \in 1 .. n + 1, NEW b \in 1 .. Len(sleep_queue[w])
        PROVE  r[a] # sleep_queue[w][b]
    <3>1. CASE a = k
      BY <1>2, <1>4, <3>1
    <3>2. CASE a # k
      BY <1>8, <1>14, <3>2
    <3> QED
      BY <3>1, <3>2
  <2>2. CASE p = q /\ u # q
    <3>1. i \in 1 .. n + 1 /\ j \in 1 .. Len(sleep_queue[u]) /\ r[i] = sleep_queue[u][j]
      BY <1>2, <1>3, <1>16, <2>2
    <3> QED
      BY <2>0, <2>2, <3>1
  <2>3. CASE p # q /\ u = q
    <3>1. j \in 1 .. n + 1 /\ i \in 1 .. Len(sleep_queue[p]) /\ r[j] = sleep_queue[p][i]
      BY <1>2, <1>3, <1>16, <2>3
    <3> QED
      BY <2>0, <2>3, <3>1
  <2>4. CASE p # q /\ u # q
    BY <1>3, <1>5, <1>16, <2>4
  <2> QED
    BY <2>1, <2>2, <2>3, <2>4
<1>17. ASSUME NEW c \in Contexts, c_state'[c] = "SLEEP_QUEUE"
       PROVE  \E p \in Queues : \E i \in 1 .. Len(sleep_queue'[p]) : sleep_queue'[p][i] = c
  <2>1. CASE c = current
    BY <1>2, <1>3, <1>10, <2>1
  <2>2. CASE c # current
    <3>1. PICK p \in Queues : \E i \in 1 .. Len(sleep_queue[p]) : sleep_queue[p][i] = c
      BY <1>5, <1>17, <2>2
    <3>2. CASE p = q
      <4>1. \E i \in 1 .. n : s[i] = c
        BY <3>1, <3>2 DEF n, s
      <4> QED
        BY <1>2, <1>3, <1>11, <4>1
    <3>3. CASE p # q
      BY <1>3, <3>1, <3>3
    <3> QED
      BY <3>2, <3>3
  <2> QED
    BY <2>1, <2>2
<1>18. SleepersQueued'
  BY <1>15, <1>16, <1>17 DEF SleepersQueued
<1> QED
  BY <1>7, <1>18

\* Entry k of the queue q is woken, which leaves the entries t.
LEMMA LeaveQueue ==
  ASSUME IInv, NEW q \in Queues, NEW k \in 1 .. Len(sleep_queue[q]), NEW t \in Seq(Contexts),
         Len(t) = Len(sleep_queue[q]) - 1,
         \A i \in 1 .. k - 1 : t[i] = sleep_queue[q][i],
         \A i \in k .. Len(sleep_queue[q]) - 1 : t[i] = sleep_queue[q][i + 1],
         sleep_queue' = [sleep_queue EXCEPT ![q] = t],
         wait_lock' = wait_lock, NEW s \in Runnable,
         c_state' = [c_state EXCEPT ![sleep_queue[q][k]] = s]
  PROVE  SleepersQueued' /\ sleep_queue' \in [Queues -> Seq(Contexts)]
<1> DEFINE z == sleep_queue[q]
           n == Len(z)
           from(i) == IF i < k THEN i ELSE i + 1
<1>1. /\ z \in Seq(Contexts) /\ n \in Nat /\ c_state \in [Contexts -> States]
      /\ sleep_queue \in [Queues -> Seq(Contexts)] /\ z[k] \in Contexts
  BY LenProperties, QueuedSleeper DEF IInv, TypeOK
<1>2. sleep_queue'[q] = t /\ \A p \in Queues \ {q} : sleep_queue'[p] = sleep_queue[p]
  BY <1>1
<1>3. sleep_queue' \in [Queues -> Seq(Contexts)]
  BY <1>1
<1>4. \A p \in Queues : \A i \in 1 .. Len(sleep_queue[p]) :
        /\ sleep_queue[p][i] \in Contexts
        /\ c_state[sleep_queue[p][i]] = "SLEEP_QUEUE"
        /\ wait_lock[sleep_queue[p][i]] = QueueLock[p]
  BY QueuedSleeper
<1>5. /\ \A p, u \in Queues : \A i \in 1 .. Len(sleep_queue[p]), j \in 1 .. Len(sleep_queue[u]) :
           sleep_queue[p][i] = sleep_queue[u][j] => p = u /\ i = j
      /\ \A c \in Contexts : c_state[c] = "SLEEP_QUEUE" =>
           \E p \in Queues : \E i \in 1 .. Len(sleep_queue[p]) : sleep_queue[p][i] = c
  BY DEF IInv, SleepInv, SleepersQueued
<1>6. \A c \in Contexts : c_state'[c] = IF c = z[k] THEN s ELSE c_state[c]
  BY <1>1
<1>7. s # "SLEEP_QUEUE"
  BY DEF Runnable
<1>8. \A i \in 1 .. n - 1 : from(i) \in 1 .. n /\ from(i) # k /\ t[i] = z[from(i)]
  <2> TAKE i \in 1 .. n - 1
  <2>1. CASE i < k
    <3>1. i \in 1 .. k - 1 /\ i \in 1 .. n
      BY <1>1, <2>1
    <3> QED
      BY <2>1, <3>1
  <2>2. CASE ~(i < k)
    <3>1. i \in k .. n - 1 /\ i + 1 \in 1 .. n /\ i + 1 # k
      BY <1>1, <2>2
    <3> QED
      BY <2>2, <3>1
  <2> QED
    BY <2>1, <2>2
<1>9. \A i, j \in 1 .. n - 1 : from(i) = from(j) => i = j
  BY <1>1
<1>10. \A i \in 1 .. n : i # k => \E j \in 1 .. n - 1 : t[j] = z[i]
  <2> SUFFICES ASSUME NEW i \in 1 .. n, i # k PROVE \E j \in 1 .. n - 1 : t[j] = z[i]
    OBVIOUS
  <2>1. CASE i < k
    <3>1. i \in 1 .. k - 1 /\ i \in 1 .. n - 1
      BY <1>1, <2>1
    <3> QED
      BY <3>1
  <2>2. CASE ~(i < k)
    <3>1. i - 1 \in k .. n - 1 /\ i - 1 \in 1 .. n - 1 /\ i - 1 + 1 = i
      BY <1>1, <2>2
    <3> QED
      BY <3>1
  <2> QED
    BY <2>1, <2>2
<1>11. \A i, j \in 1 .. n : z[i] = z[j] => i = j
  BY <1>5
<1>12. \A p \in Queues \ {q} : \A i \in 1 .. n : \A j \in 1 .. Len(sleep_queue[p]) : z[i] # sleep_queue[p][j]
  BY <1>5
<1>13. /\ Len(t) = n - 1 /\ k \in 1 .. n
       /\ \A i \in 1 .. n : z[i] \in Contexts /\ c_state[z[i]] = "SLEEP_QUEUE" /\ wait_lock[z[i]] = QueueLock[q]
  BY <1>4
<1> HIDE DEF z, n, from
<1>14. ASSUME NEW p \in Queues, NEW i \in 1 .. Len(sleep_queue'[p])
       PROVE  /\ c_state'[sleep_queue'[p][i]] = "SLEEP_QUEUE"
              /\ wait_lock'[sleep_queue'[p][i]] = QueueLock[p]
  <2>1. CASE p = q
    <3>1. i \in 1 .. n - 1 /\ sleep_queue'[p][i] = z[from(i)] /\ from(i) \in 1 .. n /\ from(i) # k
      BY <1>2, <1>8, <1>13, <2>1
    <3>2. z[from(i)] # z[k]
      BY <1>11, <1>13, <3>1
    <3> QED
      BY <1>6, <1>13, <2>1, <3>1, <3>2
  <2>2. CASE p # q
    <3>1. i \in 1 .. Len(sleep_queue[p]) /\ sleep_queue'[p][i] = sleep_queue[p][i]
      BY <1>2, <2>2
    <3>2. sleep_queue[p][i] # z[k]
      BY <1>12, <1>13, <2>2, <3>1
    <3> QED
      BY <1>4, <1>6, <3>1, <3>2
  <2> QED
    BY <2>1, <2>2
<1>15. ASSUME NEW p \in Queues, NEW u \in Queues, NEW i \in 1 .. Len(sleep_queue'[p]),
              NEW j \in 1 .. Len(sleep_queue'[u]), sleep_queue'[p][i] = sleep_queue'[u][j]
       PROVE  p = u /\ i = j
  <2>0. ASSUME NEW w \in Queues \ {q}, NEW a \in 1 .. n - 1, NEW b \in 1 .. Len(sleep_queue[w])
        PROVE  t[a] # sleep_queue[w][b]
    BY <1>8, <1>12
  <2>1. CASE p = q /\ u = q
    <3>1. i \in 1 .. n - 1 /\ j \in 1 .. n - 1 /\ t[i] = t[j]
      BY <1>2, <1>13, <1>15, <2>1
    <3>2. from(i) = from(j)
      BY <1>8, <1>11, <3>1
    <3> QED
      BY <1>9, <2>1, <3>1, <3>2
  <2>2. CASE p = q /\ u # q
    <3>1. i \in 1 .. n - 1 /\ j \in 1 .. Len(sleep_queue[u]) /\ t[i] = sleep_queue[u][j]
      BY <1>2, <1>13, <1>15, <2>2
    <3> QED
      BY <2>0, <2>2, <3>1
  <2>3. CASE p # q /\ u = q
    <3>1. j \in 1 .. n - 1 /\ i \in 1 .. Len(sleep_queue[p]) /\ t[j] = sleep_queue[p][i]
      BY <1>2, <1>13, <1>15, <2>3
    <3> QED
      BY <2>0, <2>3, <3>1
  <2>4. CASE p # q /\ u # q
    BY <1>2, <1>5, <1>15, <2>4
  <2> QED
    BY <2>1, <2>2, <2>3, <2>4
<1>16. ASSUME NEW c \in Contexts, c_state'[c] = "SLEEP_QUEUE"
       PROVE  \E p \in Queues : \E i \in 1 .. Len(sleep_queue'[p]) : sleep_queue'[p][i] = c
  <2>1. c # z[k] /\ c_state[c] = "SLEEP_QUEUE"
    BY <1>6, <1>7, <1>16
  <2>2. PICK p \in Queues : \E i \in 1 .. Len(sleep_queue[p]) : sleep_queue[p][i] = c
    BY <1>5, <2>1
  <2>3. CASE p = q
    <3>1. PICK i \in 1 .. n : z[i] = c
      BY <2>2, <2>3 DEF n, z
    <3>2. i # k
      BY <2>1, <3>1
    <3> QED
      BY <1>2, <1>10, <1>13, <3>1, <3>2
  <2>4. CASE p # q
    BY <1>2, <2>2, <2>4
  <2> QED
    BY <2>3, <2>4
<1>17. SleepersQueued'
  BY <1>14, <1>15, <1>16 DEF SleepersQueued
<1> QED
  BY <1>3, <1>17

-----------------------------------------------------------------------------
(* Sleepers can resume *)

\* What SleepersCanResume says of one context, with the state st, the locks
\* hd, the pending call rs, the lock wl to retake and the own priority bs.
Resumable(st, hd, rs, wl, bs) ==
  /\ st \notin Runnable => hd = <<>>
  /\ st \in Asleep => rs = "wait"
  /\ st = "NULL" => rs = "none"
  /\ rs = "wait" => hd = <<>> /\ wl \in Locks /\ l_pri_locked[wl] <= bs

LEMMA ResumableNow ==
  ASSUME IInv, NEW c \in Contexts
  PROVE  Resumable(c_state[c], held[c], resume[c], wait_lock[c], base[c])
BY DEF IInv, SleepInv, SleepersCanResume, Resumable

\* Outside a broadcast the invariant is about the single contexts.
LEMMA ResumableNext ==
  ASSUME bcast_q' = NoQueue, c_state'[Idle] \in Runnable,
         \A c \in Contexts : Resumable(c_state'[c], held'[c], resume'[c], wait_lock'[c], base'[c])
  PROVE  SleepersCanResume'
BY DEF SleepersCanResume, Resumable

\* Only a broadcast runs while a broadcast is in progress.
LEMMA NoBroadcast ==
  ASSUME IInv, resume[current] # "none" \/ InUser
  PROVE  bcast_q = NoQueue
BY DEF IInv, SleepInv, SleepersCanResume, InUser

\* Steps in which no context falls asleep, wakes up or stops, and that change
\* only the current context's locks and pending call.
LEMMA AwakeStep ==
  ASSUME IInv, AsleepAs(c_state), resume[current] # "none" \/ InUser, UNCHANGED sleepVars,
         resume'[current] # "wait",
         \A c \in Contexts \ {current} : resume'[c] = resume[c] /\ held'[c] = held[c] /\ base'[c] = base[c]
  PROVE  SleepInv' /\ sleep_queue' \in [Queues -> Seq(Contexts)]
<1>1. /\ current \in Contexts /\ c_state[current] \in Runnable /\ Idle \in Contexts
      /\ c_state[Idle] \in Runnable
  BY CurrentAwake, ContextAssumption DEF Runnable, IInv, SleepInv, SleepersCanResume
<1>2. bcast_q' = NoQueue /\ sleep_queue' = sleep_queue /\ wait_lock' = wait_lock
  BY NoBroadcast DEF sleepVars
<1>3. \A c \in Contexts : c_state'[c] = c_state[c] \/ (c_state'[c] \in Runnable /\ c_state[c] \in Runnable)
  BY DEF AsleepAs
<1>4. SleepersQueued'
  BY <1>2, <1>3, KeepQueues DEF Runnable
<1>5. ASSUME NEW c \in Contexts
      PROVE  Resumable(c_state'[c], held'[c], resume'[c], wait_lock'[c], base'[c])
  <2>1. CASE c = current
    BY <1>1, <1>3, <2>1 DEF Resumable, Runnable, Asleep
  <2>2. CASE c # current
    BY <1>2, <1>3, <2>2, ResumableNow DEF Resumable, Runnable, Asleep
  <2> QED
    BY <2>1, <2>2
<1>6. SleepersCanResume'
  BY <1>1, <1>2, <1>3, <1>5, ResumableNext
<1> QED
  BY <1>2, <1>4, <1>6 DEF SleepInv, IInv, TypeOK

\* A sleeper that is on no queue is woken.
LEMMA WakeStep ==
  ASSUME IInv, NEW c \in Contexts, c_state[c] = "SLEEP", InUser, UNCHANGED sleepVars,
         AsleepAs([c_state EXCEPT ![c] = "READY"]),
         held' = held, base' = base, resume'[current] # "wait",
         \A d \in Contexts \ {current} : resume'[d] = resume[d]
  PROVE  SleepInv' /\ sleep_queue' \in [Queues -> Seq(Contexts)]
<1>1. /\ current \in Contexts /\ c_state[current] \in Runnable /\ Idle \in Contexts
      /\ c_state[Idle] \in Runnable /\ c_state \in [Contexts -> States]
  BY CurrentAwake, ContextAssumption DEF Runnable, IInv, TypeOK, SleepInv, SleepersCanResume
<1>2. bcast_q' = NoQueue /\ sleep_queue' = sleep_queue /\ wait_lock' = wait_lock
  BY NoBroadcast DEF sleepVars
<1>3. \A d \in Contexts :
        IF d = c THEN c_state'[d] \in Runnable
                 ELSE c_state'[d] = c_state[d] \/ (c_state'[d] \in Runnable /\ c_state[d] \in Runnable)
  BY <1>1 DEF AsleepAs, Runnable
<1>4. SleepersQueued'
  BY <1>2, <1>3, KeepQueues DEF Runnable
<1>5. ASSUME NEW d \in Contexts
      PROVE  Resumable(c_state'[d], held'[d], resume'[d], wait_lock'[d], base'[d])
  <2>1. CASE d = current
    BY <1>1, <1>3, <2>1 DEF Resumable, Runnable, Asleep
  <2>2. CASE d # current
    BY <1>2, <1>3, <2>2, ResumableNow DEF Resumable, Runnable, Asleep
  <2> QED
    BY <2>1, <2>2
<1>6. SleepersCanResume'
  BY <1>1, <1>2, <1>3, <1>5, ResumableNext
<1> QED
  BY <1>2, <1>4, <1>6 DEF SleepInv, IInv, TypeOK

\* The current context goes to sleep or exits.
LEMMA LeaveStep ==
  ASSUME IInv, InUser, current # Idle, bcast_q' = bcast_q, base' = base, NEW s,
         AsleepAs([c_state EXCEPT ![current] = s]),
         Resumable(s, held'[current], resume'[current], wait_lock'[current], base[current]),
         s \notin Runnable,
         \A c \in Contexts \ {current} : /\ resume'[c] = resume[c] /\ held'[c] = held[c]
                                         /\ wait_lock'[c] = wait_lock[c]
  PROVE  /\ SleepersCanResume' /\ c_state'[current] = s
         /\ \A c \in Contexts \ {current} :
              c_state'[c] = c_state[c] \/ (c_state'[c] \in Runnable /\ c_state[c] \in Runnable)
<1>1. /\ current \in Contexts /\ Idle \in Contexts /\ c_state[Idle] \in Runnable
      /\ c_state \in [Contexts -> States]
  BY CurrentAwake, ContextAssumption DEF IInv, TypeOK, SleepInv, SleepersCanResume
<1>2. bcast_q' = NoQueue
  BY NoBroadcast
<1>3. /\ c_state'[current] = s
      /\ \A c \in Contexts \ {current} :
           c_state'[c] = c_state[c] \/ (c_state'[c] \in Runnable /\ c_state[c] \in Runnable)
  BY <1>1 DEF AsleepAs
<1>4. ASSUME NEW c \in Contexts
      PROVE  Resumable(c_state'[c], held'[c], resume'[c], wait_lock'[c], base'[c])
  <2>1. CASE c = current
    BY <1>3, <2>1
  <2>2. CASE c # current
    BY <1>3, <2>2, ResumableNow DEF Resumable, Runnable, Asleep
  <2> QED
    BY <2>1, <2>2
<1> QED
  BY <1>1, <1>2, <1>3, <1>4, ResumableNext

\* The head of a sleep queue, or another entry of it, is woken by the holder
\* of the queue's lock.
LEMMA WakeQueuedStep ==
  ASSUME IInv, NEW q \in Queues, NEW k \in 1 .. Len(sleep_queue[q]), NEW s \in {"READY", "INTERRUPTED"},
         NEW t \in Seq(Contexts), Len(t) = Len(sleep_queue[q]) - 1,
         \A i \in 1 .. k - 1 : t[i] = sleep_queue[q][i],
         \A i \in k .. Len(sleep_queue[q]) - 1 : t[i] = sleep_queue[q][i + 1],
         sleep_queue' = [sleep_queue EXCEPT ![q] = t],
         Wake(sleep_queue[q][k], s)
  PROVE  /\ SleepersQueued' /\ sleep_queue' \in [Queues -> Seq(Contexts)]
         /\ c_state'[Idle] \in Runnable
         /\ \A c \in Contexts : Resumable(c_state'[c], held'[c], resume'[c], wait_lock'[c], base'[c])
<1>1. /\ c_state' = [c_state EXCEPT ![sleep_queue[q][k]] = s] /\ wait_lock' = wait_lock
      /\ held' = held /\ base' = base /\ resume' = resume
  BY DEF Wake, lockVars
<1>2. s \in Runnable
  BY DEF Runnable
<1>3. SleepersQueued' /\ sleep_queue' \in [Queues -> Seq(Contexts)]
  BY <1>1, <1>2, LeaveQueue
<1>4. /\ c_state \in [Contexts -> States] /\ Idle \in Contexts /\ c_state[Idle] \in Runnable
      /\ sleep_queue[q][k] \in Contexts /\ c_state[sleep_queue[q][k]] \in Asleep
  <2>1. c_state \in [Contexts -> States] /\ c_state[Idle] \in Runnable
    BY DEF IInv, TypeOK, SleepInv, SleepersCanResume
  <2>2. sleep_queue[q][k] \in Contexts /\ c_state[sleep_queue[q][k]] \in Asleep
    BY QueuedSleeper DEF Asleep
  <2> QED
    BY <2>1, <2>2, ContextAssumption
<1>5. \A c \in Contexts : c_state'[c] = IF c = sleep_queue[q][k] THEN s ELSE c_state[c]
  BY <1>1, <1>4
<1>6. ASSUME NEW c \in Contexts
      PROVE  Resumable(c_state'[c], held'[c], resume'[c], wait_lock'[c], base'[c])
  BY <1>1, <1>4, <1>5, ResumableNow DEF Resumable, Runnable, Asleep
<1> QED
  BY <1>2, <1>3, <1>4, <1>5, <1>6

\* Waking the head of a queue.
LEMMA WakeHeadStep ==
  ASSUME IInv, NEW q \in Queues, sleep_queue[q] # <<>>,
         sleep_queue' = [sleep_queue EXCEPT ![q] = Tail(@)],
         Wake(Head(sleep_queue[q]), "READY")
  PROVE  /\ SleepersQueued' /\ sleep_queue' \in [Queues -> Seq(Contexts)]
         /\ c_state'[Idle] \in Runnable
         /\ \A c \in Contexts : Resumable(c_state'[c], held'[c], resume'[c], wait_lock'[c], base'[c])
         /\ Len(sleep_queue'[q]) = Len(sleep_queue[q]) - 1
<1> DEFINE z == sleep_queue[q]
           t == Tail(z)
<1>1. z \in Seq(Contexts) /\ Head(z) = z[1] /\ 1 \in 1 .. Len(z) /\ Len(z) \in Nat
  BY QueueHead DEF IInv, TypeOK
<1>2. t \in Seq(Contexts) /\ Len(t) = Len(z) - 1 /\ \A i \in 1 .. Len(z) - 1 : t[i] = z[i + 1]
  BY <1>1, HeadTailProperties
<1>3. \A i \in 1 .. 1 - 1 : t[i] = z[i]
  BY SMT
<1>4. sleep_queue' = [sleep_queue EXCEPT ![q] = t] /\ Wake(z[1], "READY")
  BY <1>1
<1>5. sleep_queue'[q] = t
  BY <1>4 DEF IInv, TypeOK
<1> HIDE DEF t
<1> QED
  BY <1>1, <1>2, <1>3, <1>4, <1>5, WakeQueuedStep

\* __isr_context_wait(): the sleeper holds nothing and may retake its lock.
LEMMA WaitStep ==
  ASSUME IInv, NEW l \in Locks, NEW s \in Asleep, WaitIn(l, s)
  PROVE  /\ SleepersCanResume' /\ c_state'[current] = s
         /\ wait_lock' = [wait_lock EXCEPT ![current] = l]
         /\ \A c \in Contexts \ {current} :
              c_state'[c] = c_state[c] \/ (c_state'[c] \in Runnable /\ c_state[c] \in Runnable)
<1>1. /\ InUser /\ current # Idle /\ held[current] = <<l>>
      /\ c_priority' = [c_priority EXCEPT ![current] = l_pri_unlocked[l]]
      /\ held' = [held EXCEPT ![current] = <<>>]
      /\ wait_lock' = [wait_lock EXCEPT ![current] = l]
      /\ resume' = [resume EXCEPT ![current] = "wait"]
      /\ SwitchTo(Tail(run_queue), [c_state EXCEPT ![current] = s])
      /\ base' = base /\ bcast_q' = bcast_q
  BY DEF WaitIn
<1>2. /\ current \in Contexts /\ held \in [Contexts -> Seq(Locks)] /\ c_priority \in [Contexts -> Priorities]
      /\ wait_lock \in [Contexts -> Locks \cup {NoLock}]
      /\ resume \in [Contexts -> {"none", "wait", "sched"}]
  BY DEF IInv, TypeOK
<1>3. Holds(current, l)
  BY <1>1 DEF Holds
<1>4. l_pri_locked[l] <= base[current]
  BY <1>2, <1>3, CeilingBounds DEF IInv, LockInv
<1>5. s \in States \ Runnable
  BY DEF Asleep, States, Runnable
<1>6. AsleepAs([c_state EXCEPT ![current] = s])
  <2> DEFINE pri == [c_priority EXCEPT ![current] = l_pri_unlocked[l]]
             hd == [held EXCEPT ![current] = <<>>]
  <2>1. \A c \in Contexts \ {current} : pri[c] = c_priority[c] /\ hd[c] = held[c]
    BY <1>2
  <2> HIDE DEF pri, hd
  <2> QED
    BY <1>1, <1>5, <2>1, LeaveRQ
<1>7. /\ held'[current] = <<>> /\ resume'[current] = "wait" /\ wait_lock'[current] = l
      /\ \A c \in Contexts \ {current} : /\ resume'[c] = resume[c] /\ held'[c] = held[c]
                                         /\ wait_lock'[c] = wait_lock[c]
  BY <1>1, <1>2
<1>8. Resumable(s, held'[current], resume'[current], wait_lock'[current], base[current])
  BY <1>4, <1>7 DEF Resumable, Asleep
<1> QED
  BY <1>1, <1>5, <1>6, <1>7, <1>8, LeaveStep

LEMMA SleepNext ==
  ASSUME IInv, Next
  PROVE  SleepInv' /\ sleep_queue' \in [Queues -> Seq(Contexts)]
<1> DEFINE Good == SleepInv' /\ sleep_queue' \in [Queues -> Seq(Contexts)]
<1>t. /\ current \in Contexts /\ c_priority \in [Contexts -> Int] /\ base \in [Contexts -> Int]
      /\ \A c \in Contexts : held[c] = <<>> => base[c] = c_priority[c]
      /\ held \in [Contexts -> Seq(Locks)] /\ resume \in [Contexts -> {"none", "wait", "sched"}]
      /\ c_state \in [Contexts -> States] /\ c_state[current] = "RUNNING"
      /\ sleep_queue \in [Queues -> Seq(Contexts)]
  BY Basics, CurrentAwake DEF IInv, TypeOK
<1>a. c_state' = c_state => AsleepAs(c_state)
  BY DEF AsleepAs
<1>y. ASSUME held[current] = <<>>, YieldAt(c_priority) PROVE AsleepAs(c_state)
  BY <1>t, <1>y, YieldRQ
<1>1. CASE ContextYield \/ ThreadYield
  <2>1. /\ InUser /\ AsleepAs(c_state) /\ UNCHANGED sleepVars /\ resume' = resume
        /\ held' = held /\ base' = base
    BY <1>1, <1>y DEF ContextYield, ThreadYield, IntEnabled, lockVars
  <2> QED
    BY <2>1, AwakeStep DEF InUser
<1>2. CASE IdleDemote
  <2> DEFINE pri == [c_priority EXCEPT ![Idle] = IdlePri]
             bs == [base EXCEPT ![Idle] = IdlePri]
  <2>1. /\ InUser /\ UNCHANGED sleepVars /\ resume' = resume /\ current = Idle
        /\ held[Idle] = <<>> /\ held' = held /\ base' = bs /\ YieldAt(pri)
    BY <1>2 DEF IdleDemote, IntEnabled, lockVars
  <2>2. pri \in [Contexts -> Int] /\ bs \in [Contexts -> Int] /\ bs[current] = pri[current]
    BY <1>t, <2>1 DEF IdlePri
  <2>3. \A c \in Contexts \ {current} : pri[c] = c_priority[c] /\ bs[c] = base[c]
    BY <1>t, <2>1
  <2> HIDE DEF pri, bs
  <2>4. AsleepAs(c_state)
    BY <2>1, <2>2, <2>3, YieldRQ
  <2> QED
    BY <2>1, <2>3, <2>4, AwakeStep DEF InUser
<1>3. ASSUME NEW c \in Contexts, Create(c) PROVE Good
  <2>1. /\ InUser /\ c_state[c] = "NULL" /\ UNCHANGED sleepVars /\ resume' = resume /\ held' = held
        /\ base' = [base EXCEPT ![c] = Pri[c]]
    BY <1>3 DEF Create, IntEnabled, lockVars
  <2>2. AsleepAs([c_state EXCEPT ![c] = "READY"])
    BY <1>3, CreateRQ
  <2>3. \A d \in Contexts :
          IF d = c THEN c_state'[d] \in Runnable
                   ELSE c_state'[d] = c_state[d] \/ (c_state'[d] \in Runnable /\ c_state[d] \in Runnable)
    BY <1>t, <2>2 DEF AsleepAs, Runnable
  <2>4. bcast_q' = NoQueue /\ sleep_queue' = sleep_queue /\ wait_lock' = wait_lock
    BY <2>1, NoBroadcast DEF sleepVars
  <2>5. SleepersQueued'
    BY <2>1, <2>3, <2>4, KeepQueues DEF Runnable
  <2>6. ASSUME NEW d \in Contexts
        PROVE  Resumable(c_state'[d], held'[d], resume'[d], wait_lock'[d], base'[d])
    <3>1. CASE d = c
      BY <2>1, <2>3, <3>1, ResumableNow DEF Resumable, Runnable, Asleep
    <3>2. CASE d # c
      <4>1. base'[d] = base[d]
        BY <1>t, <2>1, <3>2
      <4> QED
        BY <2>1, <2>3, <2>4, <3>2, <4>1, ResumableNow DEF Resumable, Runnable, Asleep
    <3> QED
      BY <3>1, <3>2
  <2>7. c_state'[Idle] \in Runnable
    BY <2>3, ContextAssumption DEF IInv, SleepInv, SleepersCanResume
  <2>8. SleepersCanResume'
    BY <2>4, <2>6, <2>7, ResumableNext
  <2> QED
    BY <1>t, <2>4, <2>5, <2>8 DEF SleepInv
<1>4. CASE Exit
  <2>1. /\ InUser /\ current # Idle /\ held[current] = <<>> /\ UNCHANGED sleepVars /\ resume' = resume
        /\ held' = held /\ base' = base /\ c_priority' = c_priority
        /\ SwitchTo(Tail(run_queue), [c_state EXCEPT ![current] = "NULL"])
    BY <1>4 DEF Exit, IntEnabled, lockVars
  <2>2. "NULL" \in States \ Runnable
    BY DEF States, Runnable
  <2>3. AsleepAs([c_state EXCEPT ![current] = "NULL"])
    BY <2>1, <2>2, LeaveRQ
  <2>4. sleep_queue' = sleep_queue /\ wait_lock' = wait_lock /\ bcast_q' = bcast_q
    BY <2>1 DEF sleepVars
  <2>5. Resumable("NULL", held'[current], resume'[current], wait_lock'[current], base[current])
    BY <2>1 DEF Resumable, Asleep, InUser
  <2>6. /\ SleepersCanResume' /\ c_state'[current] = "NULL"
        /\ \A c \in Contexts \ {current} :
             c_state'[c] = c_state[c] \/ (c_state'[c] \in Runnable /\ c_state[c] \in Runnable)
    BY <2>1, <2>2, <2>3, <2>4, <2>5, LeaveStep
  <2>7. SleepersQueued'
    BY <1>t, <2>4, <2>6, KeepQueues DEF Runnable
  <2> QED
    BY <1>t, <2>4, <2>6, <2>7 DEF SleepInv
<1>5. ASSUME NEW l \in Locks, SpinlockLock(l) PROVE Good
  <2>1. /\ InUser /\ UNCHANGED sleepVars /\ resume' = resume /\ c_state' = c_state /\ base' = base
        /\ held' = [held EXCEPT ![current] = Append(@, l)]
    BY <1>5 DEF SpinlockLock, IntEnabled
  <2> QED
    BY <1>a, <1>t, <2>1, AwakeStep DEF InUser
<1>6. CASE SpinlockUnlock
  <2>1. /\ InUser /\ UNCHANGED sleepVars /\ resume' = resume /\ base' = base
        /\ held' = [held EXCEPT ![current] = SubSeq(@, 1, Len(@) - 1)]
    BY <1>6 DEF SpinlockUnlock
  <2>2. AsleepAs(c_state)
    BY <1>6, UnlockRQ
  <2> QED
    BY <1>t, <2>1, <2>2, AwakeStep DEF InUser
<1>7. ASSUME NEW l \in Locks, Wait(l) PROVE Good
  <2>1. WaitIn(l, "SLEEP") /\ sleep_queue' = sleep_queue /\ "SLEEP" \in Asleep
    BY <1>7 DEF Wait, Asleep
  <2>2. /\ SleepersCanResume' /\ c_state'[current] = "SLEEP"
        /\ wait_lock' = [wait_lock EXCEPT ![current] = l]
        /\ \A c \in Contexts \ {current} :
             c_state'[c] = c_state[c] \/ (c_state'[c] \in Runnable /\ c_state[c] \in Runnable)
    BY <2>1, WaitStep
  <2>3. SleepersQueued'
    BY <1>t, <2>1, <2>2, KeepQueues DEF Runnable, IInv, TypeOK
  <2> QED
    BY <1>t, <2>1, <2>2, <2>3 DEF SleepInv
<1>8. ASSUME NEW q \in Queues, NEW k \in 1 .. Len(sleep_queue[q]) + 1,
             WaitIn(QueueLock[q], "SLEEP_QUEUE"),
             sleep_queue' = [sleep_queue EXCEPT ![q] = LinkAt(@, k, current)]
      PROVE  Good
  <2>1. QueueLock[q] \in Locks /\ "SLEEP_QUEUE" \in Asleep
    BY ContextAssumption DEF Asleep
  <2>2. /\ SleepersCanResume' /\ c_state'[current] = "SLEEP_QUEUE"
        /\ wait_lock' = [wait_lock EXCEPT ![current] = QueueLock[q]]
        /\ \A c \in Contexts \ {current} :
             c_state'[c] = c_state[c] \/ (c_state'[c] \in Runnable /\ c_state[c] \in Runnable)
    BY <1>8, <2>1, WaitStep
  <2>3. \A c \in Contexts \ {current} : c_state'[c] = "SLEEP_QUEUE" <=> c_state[c] = "SLEEP_QUEUE"
    BY <2>2 DEF Runnable
  <2>4. SleepersQueued' /\ sleep_queue' \in [Queues -> Seq(Contexts)]
    BY <1>8, <2>2, <2>3, JoinQueue
  <2> QED
    BY <2>2, <2>4 DEF SleepInv
<1>9. ASSUME NEW q \in Queues, WaitQueue(q) PROVE Good
  <2>1. sleep_queue[q] \in Seq(Contexts)
    BY <1>t
  <2>2. 1 \in 1 .. Len(sleep_queue[q]) + 1
    BY <2>1
  <2> QED
    BY <1>8, <1>9, <2>2 DEF WaitQueue
<1>10. ASSUME NEW q \in Queues, WaitPriQueue(q) PROVE Good
  <2>1. sleep_queue[q] \in Seq(Contexts) /\ QueueLock[q] \in Locks
    BY <1>t, ContextAssumption
  <2>2. l_pri_unlocked[QueueLock[q]] \in Int
    BY <2>1, Basics
  <2>3. AfterEquals(sleep_queue[q], c_priority, l_pri_unlocked[QueueLock[q]]) \in 1 .. Len(sleep_queue[q]) + 1
    BY <1>t, <2>1, <2>2, ReadiedPosition
  <2> QED
    BY <1>8, <1>10, <2>3 DEF WaitPriQueue
<1>11. CASE WaitReturn
  <2> DEFINE l == wait_lock[current]
  <2>1. /\ resume[current] = "wait" /\ c_state' = c_state /\ base' = base
        /\ held' = [held EXCEPT ![current] = Append(@, l)]
        /\ resume' = [resume EXCEPT ![current] = "none"]
        /\ wait_lock' = [wait_lock EXCEPT ![current] = NoLock]
        /\ sleep_queue' = sleep_queue /\ bcast_q' = bcast_q
    BY <1>11 DEF WaitReturn
  <2>2. bcast_q' = NoQueue
    BY <2>1, NoBroadcast
  <2>3. \A c \in Contexts \ {current} : wait_lock'[c] = wait_lock[c] /\ held'[c] = held[c] /\ resume'[c] = resume[c]
    BY <1>t, <2>1 DEF IInv, TypeOK
  <2>4. SleepersQueued'
    BY <1>t, <2>1, <2>3, KeepQueues
  <2>5. resume'[current] = "none"
    BY <1>t, <2>1
  <2>6. ASSUME NEW c \in Contexts
        PROVE  Resumable(c_state'[c], held'[c], resume'[c], wait_lock'[c], base'[c])
    <3>1. CASE c = current
      BY <1>t, <2>1, <2>5, <3>1 DEF Resumable, Runnable, Asleep
    <3>2. CASE c # current
      BY <2>1, <2>3, <3>2, ResumableNow
    <3> QED
      BY <3>1, <3>2
  <2>7. c_state'[Idle] \in Runnable
    BY <2>1 DEF IInv, SleepInv, SleepersCanResume
  <2>8. SleepersCanResume'
    BY <2>2, <2>6, <2>7, ResumableNext
  <2> QED
    BY <1>t, <2>1, <2>4, <2>8 DEF SleepInv
<1>12. ASSUME NEW c \in Contexts, Signal(c) \/ Interrupt(c) PROVE Good
  <2>1. PICK s \in {"READY", "INTERRUPTED"} : Wake(c, s)
    BY <1>12 DEF Signal, Interrupt
  <2>2. InUser /\ c_state[c] = "SLEEP" /\ sleep_queue' = sleep_queue /\ bcast_q' = bcast_q
    BY <1>12 DEF Signal, Interrupt
  <2>3. /\ c_state' = [c_state EXCEPT ![c] = s] /\ wait_lock' = wait_lock
        /\ held' = held /\ base' = base /\ resume' = resume
    BY <2>1 DEF Wake, lockVars
  <2>4. AsleepAs([c_state EXCEPT ![c] = "READY"])
    BY <1>t, <2>3 DEF AsleepAs, Runnable
  <2> QED
    BY <2>2, <2>3, <2>4, WakeStep DEF sleepVars, InUser
<1>13. ASSUME NEW q \in Queues, SignalQueue(q) PROVE Good
  <2>1. /\ InUser /\ sleep_queue[q] # <<>> /\ Wake(Head(sleep_queue[q]), "READY") /\ bcast_q' = bcast_q
        /\ sleep_queue' = [sleep_queue EXCEPT ![q] = Tail(@)]
    BY <1>13 DEF SignalQueue
  <2>2. bcast_q' = NoQueue
    BY <2>1, NoBroadcast
  <2> QED
    BY <2>1, <2>2, WakeHeadStep, ResumableNext DEF SleepInv
<1>14. ASSUME NEW q \in Queues, NEW i \in DOMAIN sleep_queue[q], InterruptQueue(q, i) PROVE Good
  <2> DEFINE z == sleep_queue[q]
             r == UnlinkAt(z, i)
  <2>1. /\ InUser /\ Wake(z[i], "INTERRUPTED") /\ bcast_q' = bcast_q
        /\ sleep_queue' = [sleep_queue EXCEPT ![q] = r]
    BY <1>14 DEF InterruptQueue
  <2>2. z \in Seq(Contexts) /\ i \in 1 .. Len(z)
    BY <1>t, LenProperties
  <2>3. /\ r \in Seq(Contexts) /\ Len(r) = Len(z) - 1
        /\ \A j \in 1 .. i - 1 : r[j] = z[j]
        /\ \A j \in i .. Len(z) - 1 : r[j] = z[j + 1]
    <3> HIDE DEF z
    <3> QED
      BY <2>2, UnlinkAtProperties
  <2>4. bcast_q' = NoQueue
    BY <2>1, NoBroadcast
  <2> HIDE DEF r
  <2> QED
    BY <2>1, <2>2, <2>3, <2>4, WakeQueuedStep, ResumableNext DEF SleepInv
<1>15. ASSUME NEW q \in Queues, Broadcast(q) PROVE Good
  <2>1. /\ InUser /\ Holds(current, QueueLock[q]) /\ sleep_queue[q] # <<>> /\ bcast_q' = q
        /\ UNCHANGED <<current, c_state, base, held, sleep_queue, wait_lock, resume>>
    BY <1>15 DEF Broadcast, lockVars
  <2>2. SleepersQueued'
    BY <2>1, KeepQueues
  <2>3. SleepersCanResume'
    BY <2>1 DEF IInv, SleepInv, SleepersCanResume, InUser, Holds
  <2> QED
    BY <1>t, <2>1, <2>2, <2>3 DEF SleepInv
<1>16. CASE BroadcastStep
  <2> DEFINE q == bcast_q
  <2>1. /\ q # NoQueue /\ Wake(Head(sleep_queue[q]), "READY")
        /\ sleep_queue' = [sleep_queue EXCEPT ![q] = Tail(@)]
        /\ bcast_q' = IF Len(sleep_queue[q]) = 1 THEN NoQueue ELSE q
    BY <1>16 DEF BroadcastStep
  <2>2. /\ q \in Queues /\ resume[current] = "none" /\ Holds(current, QueueLock[q])
        /\ sleep_queue[q] # <<>>
    BY <2>1 DEF IInv, TypeOK, SleepInv, SleepersCanResume
  <2>3. current' = current /\ resume' = resume /\ held' = held
    BY <2>1 DEF Wake, lockVars
  <2>4. /\ SleepersQueued' /\ sleep_queue' \in [Queues -> Seq(Contexts)]
        /\ c_state'[Idle] \in Runnable
        /\ \A c \in Contexts : Resumable(c_state'[c], held'[c], resume'[c], wait_lock'[c], base'[c])
        /\ Len(sleep_queue'[q]) = Len(sleep_queue[q]) - 1
    BY <2>1, <2>2, WakeHeadStep
  <2>5. CASE Len(sleep_queue[q]) = 1
    BY <2>1, <2>4, <2>5, ResumableNext DEF SleepInv
  <2>6. CASE Len(sleep_queue[q]) # 1
    <3>1. bcast_q' = q /\ Len(sleep_queue'[q]) # 0
      BY <2>1, <2>2, <2>4, <2>6, QueueHead
    <3>2. sleep_queue'[q] # <<>>
      BY <3>1, EmptySeq
    <3>3. SleepersCanResume'
      BY <2>2, <2>3, <2>4, <3>1, <3>2 DEF SleepersCanResume, Resumable, Holds
    <3> QED
      BY <2>4, <3>3 DEF SleepInv
  <2> QED
    BY <2>5, <2>6
<1>17. ASSUME NEW l \in IsrLocks, NEW c \in Contexts, NEW rest \in {"none", "sched"}, TrapSignal(l, c, rest)
       PROVE  Good
  <2>1. /\ InUser /\ UNCHANGED sleepVars /\ held' = held /\ base' = base
        /\ resume' = [resume EXCEPT ![current] = rest]
    BY <1>17 DEF TrapSignal, IntEnabled
  <2>2. resume'[current] # "wait" /\ \A d \in Contexts \ {current} : resume'[d] = resume[d]
    BY <1>t, <2>1
  <2>3. AsleepAs(IF c_state[c] = "SLEEP" THEN [c_state EXCEPT ![c] = "READY"] ELSE c_state)
    BY <1>17, TrapRQ
  <2>4. CASE c_state[c] = "SLEEP"
    BY <2>1, <2>2, <2>3, <2>4, WakeStep
  <2>5. CASE c_state[c] # "SLEEP"
    BY <2>1, <2>2, <2>3, <2>5, AwakeStep
  <2> QED
    BY <2>4, <2>5
<1>18. CASE TrapSchedule
  <2>1. /\ resume[current] = "sched" /\ UNCHANGED sleepVars /\ held' = held /\ base' = base
        /\ resume' = [resume EXCEPT ![current] = "none"]
    BY <1>18 DEF TrapSchedule, lockVars
  <2>2. AsleepAs(c_state)
    <3>1. CASE c_priority[current] >= RoundRobinPri /\ ticks_left[current] = 1
      <4>1. held[current] # <<>> => c_priority[current] < RoundRobinPri
        BY <1>t, CeilingBounds DEF IInv, LockInv
      <4>2. held[current] = <<>>
        BY <1>t, <3>1, <4>1 DEF RoundRobinPri
      <4> QED
        BY <1>18, <1>y, <3>1, <4>2 DEF TrapSchedule
    <3>2. CASE ~(c_priority[current] >= RoundRobinPri /\ ticks_left[current] = 1)
      BY <1>18, <1>a, <3>2 DEF TrapSchedule
    <3> QED
      BY <3>1, <3>2
  <2> QED
    BY <1>t, <2>1, <2>2, AwakeStep
<1>19. ASSUME NEW l \in IsrLocks, NEW c \in Contexts, TrapDevice(l, c) \/ TrapTimer(l, c) PROVE Good
  BY <1>17, <1>19 DEF TrapDevice, TrapTimer
<1> QED
  BY <1>1, <1>2, <1>3, <1>4, <1>5, <1>6, <1>7, <1>9, <1>10, <1>11, <1>12, <1>13, <1>14,
     <1>15, <1>16, <1>18, <1>19 DEF Next

-----------------------------------------------------------------------------
(* Types *)

LEMMA ByteArithmetic ==
  ASSUME NEW n \in Byte
  PROVE  (n + 1) % 256 \in Byte /\ (n - 1) % 256 \in Byte
BY DEF Byte

\* What isr_context_switch() and its callers do to the states.
LEMMA StateTypes ==
  ASSUME TypeOK
  PROVE  /\ \A q : \A st \in [Contexts -> States] : SwitchTo(q, st) => c_state' \in [Contexts -> States]
         /\ \A pri : YieldAt(pri) => c_state' \in [Contexts -> States]
         /\ \A q, pri, p : \A st \in [Contexts -> States] :
              ReschedAt(q, st, pri, p) => c_state' \in [Contexts -> States]
<1>1. "RUNNING" \in States /\ "READY" \in States /\ c_state \in [Contexts -> States]
  BY DEF States, TypeOK
<1>2. ASSUME NEW q, NEW st \in [Contexts -> States], SwitchTo(q, st) PROVE c_state' \in [Contexts -> States]
  BY <1>1, <1>2 DEF SwitchTo
<1>3. ASSUME NEW pri, YieldAt(pri) PROVE c_state' \in [Contexts -> States]
  <2>1. [c_state EXCEPT ![current] = "READY"] \in [Contexts -> States]
    BY <1>1
  <2> QED
    BY <1>1, <1>2, <1>3, <2>1 DEF YieldAt
<1>4. ASSUME NEW q, NEW pri, NEW p, NEW st \in [Contexts -> States], ReschedAt(q, st, pri, p)
      PROVE  c_state' \in [Contexts -> States]
  <2>1. [st EXCEPT ![current] = "READY"] \in [Contexts -> States]
    BY <1>1
  <2> QED
    BY <1>2, <1>4, <2>1 DEF ReschedAt
<1> QED
  BY <1>2, <1>3, <1>4

\* The parts of TypeOK that RunQueueNext and SleepNext do not give.
OtherTypes ==
  /\ run_queue_len \in Byte
  /\ c_priority \in [Contexts -> Priorities]
  /\ c_state \in [Contexts -> States]
  /\ base \in [Contexts -> Priorities]
  /\ held \in [Contexts -> Seq(Locks)]
  /\ l_lock \in [Locks -> {0, 1}]
  /\ l_pri_unlocked \in [Locks -> Priorities]
  /\ wait_lock \in [Contexts -> Locks \cup {NoLock}]
  /\ resume \in [Contexts -> {"none", "wait", "sched"}]
  /\ bcast_q \in Queues \cup {NoQueue}
  /\ ticks_left \in [Contexts -> 1 .. Ticks]

LEMMA OtherTypesNext ==
  ASSUME IInv, Next
  PROVE  OtherTypes'
<1>t. TypeOK /\ OtherTypes /\ current \in Contexts
  BY DEF IInv, TypeOK, OtherTypes
<1>c. /\ Idle \in Contexts /\ Pri \in [Contexts -> Priorities] /\ IdlePri \in Priorities
      /\ \A l \in Locks : l_pri_locked[l] \in Priorities
      /\ Ticks \in 1 .. Ticks /\ IsrLocks \subseteq Locks
      /\ QueueLock \in [Queues -> Locks]
  BY ContextAssumption DEF IdlePri, Priorities, Byte
<1>n. (run_queue_len + 1) % 256 \in Byte /\ (run_queue_len - 1) % 256 \in Byte
  BY <1>t, ByteArithmetic DEF OtherTypes
<1>w. ASSUME NEW c \in Contexts, NEW s \in {"READY", "INTERRUPTED"}, Wake(c, s),
             bcast_q' \in Queues \cup {NoQueue}
      PROVE  OtherTypes'
  <2>1. s \in States
    BY DEF States
  <2> QED
    BY <1>n, <1>t, <1>w, <2>1 DEF Wake, OtherTypes, lockVars
<1>1. CASE ContextYield
  BY <1>1, <1>t, StateTypes DEF ContextYield, OtherTypes, lockVars, sleepVars
<1>2. CASE ThreadYield
  BY <1>2, <1>c, <1>t, StateTypes DEF ThreadYield, OtherTypes, lockVars, sleepVars
<1>3. CASE IdleDemote
  BY <1>3, <1>c, <1>t, StateTypes DEF IdleDemote, OtherTypes, lockVars, sleepVars
<1>4. ASSUME NEW c \in Contexts, Create(c) PROVE OtherTypes'
  <2> DEFINE st == [c_state EXCEPT ![c] = "READY"]
  <2>1. st \in [Contexts -> States] /\ [st EXCEPT ![current] = "READY"] \in [Contexts -> States]
    BY <1>t DEF OtherTypes, States
  <2>2. c_state' \in [Contexts -> States]
    BY <1>4, <1>t, <2>1, StateTypes DEF Create
  <2>3. Pri[c] \in Priorities
    BY <1>c
  <2> QED
    BY <1>4, <1>c, <1>n, <1>t, <2>2, <2>3 DEF Create, OtherTypes, lockVars, sleepVars
<1>5. CASE Exit
  <2>1. [c_state EXCEPT ![current] = "NULL"] \in [Contexts -> States]
    BY <1>t DEF OtherTypes, States
  <2> QED
    BY <1>5, <1>n, <1>t, <2>1, StateTypes DEF Exit, OtherTypes, lockVars, sleepVars
<1>6. ASSUME NEW l \in Locks, SpinlockLock(l) PROVE OtherTypes'
  <2>1. Append(held[current], l) \in Seq(Locks) /\ c_priority[current] \in Priorities
    BY <1>t, AppendProperties DEF OtherTypes
  <2> QED
    BY <1>6, <1>c, <1>t, <2>1 DEF SpinlockLock, OtherTypes, sleepVars
<1>7. CASE SpinlockUnlock
  <2> DEFINE h == held[current]
             l == h[Len(h)]
             p == l_pri_unlocked[l]
             pri == [c_priority EXCEPT ![current] = p]
  <2>1. h # <<>> /\ h \in Seq(Locks) /\ LockStack
    BY <1>7, <1>t DEF SpinlockUnlock, OtherTypes, IInv, LockInv
  <2>2. l \in Locks
    BY <1>t, <2>1, Innermost
  <2>3. SubSeq(h, 1, Len(h) - 1) \in Seq(Locks)
    <3>1. StackOK(h, base[current], c_priority[current], l_pri_unlocked)
      BY <1>t, <2>1, LockStackValue
    <3> QED
      BY <2>1, <3>1, PopStack
  <2>4. p \in Priorities
    BY <1>t, <2>2 DEF OtherTypes
  <2>5. c_state' \in [Contexts -> States]
    <3>1. ReschedAt(run_queue, c_state, pri, p)
      BY <1>7 DEF SpinlockUnlock
    <3> HIDE DEF pri, p
    <3> QED
      BY <1>t, <3>1, StateTypes DEF OtherTypes
  <2>6. /\ l_lock' = [l_lock EXCEPT ![l] = 0] /\ c_priority' = [c_priority EXCEPT ![current] = p]
        /\ held' = [held EXCEPT ![current] = SubSeq(h, 1, Len(h) - 1)]
        /\ UNCHANGED <<run_queue_len, base, l_pri_unlocked, sleepVars, resume, ticks_left>>
    BY <1>7 DEF SpinlockUnlock
  <2> HIDE DEF h, l, p
  <2> QED
    BY <1>t, <2>2, <2>3, <2>4, <2>5, <2>6 DEF OtherTypes, sleepVars
<1>8. ASSUME NEW l \in Locks, NEW s \in States, WaitIn(l, s) PROVE OtherTypes'
  <2>1. [c_state EXCEPT ![current] = s] \in [Contexts -> States] /\ l_pri_unlocked[l] \in Priorities
    BY <1>t DEF OtherTypes
  <2>2. <<>> \in Seq(Locks)
    BY EmptySeq
  <2> QED
    BY <1>8, <1>n, <1>t, <2>1, <2>2, StateTypes DEF WaitIn, OtherTypes
<1>9. CASE WaitReturn
  <2> DEFINE l == wait_lock[current]
  <2>1. l \in Locks
    BY <1>9, <1>t DEF WaitReturn, IInv, SleepInv, SleepersCanResume
  <2>2. Append(held[current], l) \in Seq(Locks) /\ c_priority[current] \in Priorities
    BY <1>t, <2>1, AppendProperties DEF OtherTypes
  <2> QED
    BY <1>9, <1>c, <1>t, <2>1, <2>2 DEF WaitReturn, OtherTypes
<1>10. ASSUME NEW c \in Contexts, Signal(c) \/ Interrupt(c) PROVE OtherTypes'
  BY <1>10, <1>t, <1>w DEF Signal, Interrupt, OtherTypes
<1>11. ASSUME NEW q \in Queues, SignalQueue(q) PROVE OtherTypes'
  <2>1. Head(sleep_queue[q]) \in Contexts
    BY <1>11, QueueHead, QueuedSleeper DEF SignalQueue
  <2> QED
    BY <1>11, <1>t, <1>w, <2>1 DEF SignalQueue, OtherTypes
<1>12. ASSUME NEW q \in Queues, NEW i \in DOMAIN sleep_queue[q], InterruptQueue(q, i) PROVE OtherTypes'
  <2>1. sleep_queue[q][i] \in Contexts
    BY <1>t, LenProperties, QueuedSleeper DEF TypeOK
  <2> QED
    BY <1>12, <1>t, <1>w, <2>1 DEF InterruptQueue, OtherTypes
<1>13. ASSUME NEW q \in Queues, Broadcast(q) PROVE OtherTypes'
  BY <1>13, <1>t DEF Broadcast, OtherTypes, lockVars
<1>14. CASE BroadcastStep
  <2>1. bcast_q \in Queues /\ sleep_queue[bcast_q] # <<>>
    BY <1>14 DEF BroadcastStep, IInv, TypeOK, SleepInv, SleepersCanResume
  <2>2. Head(sleep_queue[bcast_q]) \in Contexts
    BY <2>1, QueueHead, QueuedSleeper
  <2> QED
    BY <1>14, <1>w, <2>1, <2>2 DEF BroadcastStep
<1>15. ASSUME NEW l \in IsrLocks, NEW c \in Contexts, NEW rest \in {"none", "sched"}, TrapSignal(l, c, rest)
       PROVE  OtherTypes'
  <2> DEFINE at0 == [c_priority EXCEPT ![current] = 0]
             q == IF c_state[c] = "SLEEP" THEN Readied(run_queue, at0, c) ELSE run_queue
             st == IF c_state[c] = "SLEEP" THEN [c_state EXCEPT ![c] = "READY"] ELSE c_state
  <2>1. st \in [Contexts -> States]
    BY <1>t DEF OtherTypes, States
  <2>2. ReschedAt(q, st, c_priority, c_priority[current])
    BY <1>15 DEF TrapSignal
  <2> HIDE DEF q, st
  <2>3. c_state' \in [Contexts -> States]
    BY <1>t, <2>1, <2>2, StateTypes
  <2>4. c_priority[current] \in Priorities /\ l \in Locks
    BY <1>c, <1>t DEF OtherTypes
  <2>5. run_queue_len' \in Byte
    BY <1>15, <1>n, <1>t DEF TrapSignal, OtherTypes
  <2>6. /\ l_pri_unlocked' = [l_pri_unlocked EXCEPT ![l] = c_priority[current]]
        /\ resume' = [resume EXCEPT ![current] = rest]
        /\ UNCHANGED <<c_priority, base, held, l_lock, sleepVars, ticks_left>>
    BY <1>15 DEF TrapSignal
  <2> QED
    BY <1>t, <2>3, <2>4, <2>5, <2>6 DEF OtherTypes, sleepVars
<1>16. CASE TrapSchedule
  <2> DEFINE left == IF ~(c_priority[current] >= RoundRobinPri) THEN ticks_left[current]
                     ELSE IF ticks_left[current] = 1 THEN Ticks ELSE ticks_left[current] - 1
  <2>1. left \in 1 .. Ticks
    <3>1. ticks_left[current] \in 1 .. Ticks /\ Ticks \in Nat
      BY <1>t, ContextAssumption DEF OtherTypes
    <3> QED
      BY <1>c, <3>1
  <2>2. ticks_left' = [ticks_left EXCEPT ![current] = left]
    BY <1>16 DEF TrapSchedule
  <2> HIDE DEF left
  <2>3. ticks_left' \in [Contexts -> 1 .. Ticks]
    BY <1>t, <2>1, <2>2 DEF OtherTypes
  <2>4. c_state' \in [Contexts -> States]
    BY <1>16, <1>t, StateTypes DEF TrapSchedule, OtherTypes
  <2>5. resume' = [resume EXCEPT ![current] = "none"] /\ UNCHANGED <<run_queue_len, c_priority, base, lockVars, sleepVars>>
    BY <1>16 DEF TrapSchedule
  <2> QED
    BY <1>t, <2>3, <2>4, <2>5 DEF OtherTypes, lockVars, sleepVars
<1>17. ASSUME NEW l \in Locks, Wait(l) PROVE OtherTypes'
  BY <1>8, <1>17 DEF Wait, States
<1>18. ASSUME NEW q \in Queues, WaitQueue(q) \/ WaitPriQueue(q) PROVE OtherTypes'
  BY <1>8, <1>18, <1>c DEF WaitQueue, WaitPriQueue, States
<1>19. ASSUME NEW l \in IsrLocks, NEW c \in Contexts, TrapDevice(l, c) \/ TrapTimer(l, c) PROVE OtherTypes'
  BY <1>15, <1>19 DEF TrapDevice, TrapTimer
<1> QED
  BY <1>1, <1>2, <1>3, <1>4, <1>5, <1>6, <1>7, <1>9, <1>10, <1>11, <1>12, <1>13, <1>14,
     <1>16, <1>17, <1>18, <1>19 DEF Next

LEMMA TypeNext ==
  ASSUME IInv, Next
  PROVE  TypeOK'
<1>1. run_queue' \in Seq(Contexts) /\ RunQueueInv'
  BY RunQueueNext
<1>2. current' \in Contexts
  <2>1. run_queue' # <<>> /\ current' = Head(run_queue')
    BY <1>1 DEF RunQueueInv, CurrentIsHead
  <2> QED
    BY <1>1, <2>1, HeadTailProperties
<1> QED
  BY <1>1, <1>2, OtherTypesNext, SleepNext DEF TypeOK, OtherTypes

-----------------------------------------------------------------------------
(* The theorems *)

LEMMA InitIInv == Init => IInv
<1> SUFFICES ASSUME Init PROVE IInv
  OBVIOUS
<1>i. /\ current = Idle /\ run_queue = <<Idle>> /\ run_queue_len = 1
      /\ c_priority = Pri /\ base = Pri /\ bcast_q = NoQueue
      /\ c_state = [c \in Contexts |-> IF c = Idle THEN "RUNNING" ELSE "NULL"]
      /\ held = [c \in Contexts |-> <<>>]
      /\ l_lock = [l \in Locks |-> 0] /\ l_pri_unlocked = [l \in Locks |-> 0]
      /\ sleep_queue = [q \in Queues |-> <<>>]
      /\ wait_lock = [c \in Contexts |-> NoLock] /\ resume = [c \in Contexts |-> "none"]
      /\ ticks_left = [c \in Contexts |-> Ticks]
  BY DEF Init
<1>c. Idle \in Contexts /\ Pri \in [Contexts -> Priorities] /\ Ticks \in 1 .. Ticks
  BY ContextAssumption
<1>q. /\ run_queue \in Seq(Contexts) /\ Len(run_queue) = 1 /\ run_queue[1] = Idle /\ run_queue # <<>>
      /\ Head(run_queue) = Idle
  BY <1>c, <1>i
<1>h. \A c \in Contexts : held[c] = <<>> /\ DOMAIN held[c] = {}
  BY <1>i
<1>1. TypeOK
  <2>1. <<>> \in Seq(Locks) /\ <<>> \in Seq(Contexts)
    BY EmptySeq
  <2>2. 0 \in Priorities /\ 1 \in Byte
    BY DEF Priorities, Byte
  <2>3. c_state \in [Contexts -> States]
    BY <1>i DEF States
  <2> QED
    BY <1>c, <1>i, <1>q, <2>1, <2>2, <2>3 DEF TypeOK
<1>2. RunQueueInv
  <2>1. \A i \in 1 .. Len(run_queue) : i = 1
    BY <1>q
  <2>2. CurrentIsHead
    BY <1>i, <1>q DEF CurrentIsHead
  <2>3. RunQueueSorted /\ HoldersFirst
    <3>1. \A i, j \in 1 .. Len(run_queue) : ~(i < j)
      BY <2>1
    <3>2. RunQueueSorted
      BY <3>1, Zenon DEF RunQueueSorted
    <3>3. HoldersFirst
      BY <3>1, Zenon DEF HoldersFirst
    <3> QED
      BY <3>2, <3>3
  <2>4. NoneLost
    BY <1>i, <1>q, <2>1 DEF NoneLost, Runnable
  <2> QED
    BY <2>2, <2>3, <2>4 DEF RunQueueInv
<1>3. LockInv
  <2>1. LockStack
    BY <1>h, <1>i DEF LockStack
  <2>2. \A c \in Contexts, l \in Locks : ~Holds(c, l)
    BY <1>h DEF Holds
  <2>3. LockFlag /\ MutualExclusion
    BY <1>i, <2>2 DEF LockFlag, MutualExclusion
  <2> QED
    BY <2>1, <2>3 DEF LockInv
<1>4. SleepInv
  <2>1. \A q \in Queues : Len(sleep_queue[q]) = 0
    BY <1>i
  <2>2. \A c \in Contexts : c_state[c] \in {"RUNNING", "NULL"} /\ resume[c] = "none"
    BY <1>i
  <2>3. SleepersQueued
    BY <2>1, <2>2 DEF SleepersQueued
  <2>4. c_state[Idle] \in Runnable
    BY <1>c, <1>i DEF Runnable
  <2>5. SleepersCanResume
    BY <1>h, <1>i, <2>2, <2>4 DEF SleepersCanResume, Asleep
  <2> QED
    BY <2>3, <2>5 DEF SleepInv
<1> QED
  BY <1>1, <1>2, <1>3, <1>4 DEF IInv

LEMMA StepIInv == IInv /\ [Next]_vars => IInv'
<1> SUFFICES ASSUME IInv, [Next]_vars PROVE IInv'
  OBVIOUS
<1>1. CASE Next
  BY <1>1, TypeNext, RunQueueNext, LockNext, SleepNext DEF IInv
<1>2. CASE UNCHANGED vars
  <2>0. UNCHANGED <<current, run_queue, run_queue_len, c_priority, c_state, base, held, l_lock,
                    l_pri_unlocked, sleep_queue, wait_lock, bcast_q, resume, ticks_left>>
    BY <1>2 DEF vars, lockVars, sleepVars
  <2>1. TypeOK'
    BY <2>0 DEF IInv, TypeOK
  <2>2. CurrentIsHead' /\ RunQueueSorted' /\ NoneLost' /\ HoldersFirst'
    <3>1. CurrentIsHead' /\ RunQueueSorted'
      BY <2>0 DEF IInv, RunQueueInv, CurrentIsHead, RunQueueSorted
    <3>2. NoneLost'
      BY <2>0 DEF IInv, RunQueueInv, NoneLost
    <3>3. HoldersFirst'
      BY <2>0 DEF IInv, RunQueueInv, HoldersFirst
    <3> QED
      BY <3>1, <3>2, <3>3
  <2>3. LockStack' /\ LockFlag' /\ MutualExclusion'
    <3>1. LockStack'
      <4>1. LockStack
        BY DEF IInv, LockInv
      <4>2. held' = held /\ base' = base /\ c_priority' = c_priority /\ l_pri_unlocked' = l_pri_unlocked
        BY <2>0
      <4> QED
        BY ONLY <4>1, <4>2 DEF LockStack
    <3>2. LockFlag'
      BY <2>0 DEF IInv, LockInv, LockFlag, Holds
    <3>3. MutualExclusion'
      BY <2>0 DEF IInv, LockInv, MutualExclusion, Holds
    <3> QED
      BY <3>1, <3>2, <3>3
  <2>4. SleepersQueued'
    <3>1. SleepersQueued
      BY DEF IInv, SleepInv
    <3>2. sleep_queue' = sleep_queue /\ c_state' = c_state /\ wait_lock' = wait_lock
      BY <2>0
    <3> QED
      BY ONLY <3>1, <3>2 DEF SleepersQueued
  <2>5. SleepersCanResume'
    BY <2>0 DEF IInv, SleepInv, SleepersCanResume, Holds
  <2> QED
    BY <2>1, <2>2, <2>3, <2>4, <2>5 DEF IInv, RunQueueInv, LockInv, SleepInv
<1> QED
  BY <1>1, <1>2

\* The inductive invariant: the run queue, the locks and the sleepers stay
\* consistent through every call of the library and every trap.
THEOREM ContextInvariant == Spec => []IInv
BY InitIInv, StepIInv, PTL DEF Spec

\* Every variable of the scheduler keeps its type; no access leaves a list.
THEOREM TypeCorrect == Spec => []TypeOK
<1>1. IInv => TypeOK
  BY DEF IInv
<1> QED
  BY <1>1, ContextInvariant, PTL

\* spinlock_lock() tests no flag, yet no two contexts are ever inside the same
\* spinlock: the priority ceilings exclude them.
THEOREM SpinlocksExclude == Spec => []MutualExclusion
<1>1. IInv => MutualExclusion
  BY DEF IInv, LockInv
<1> QED
  BY <1>1, ContextInvariant, PTL

\* The running context is the head of a run queue in order of priority: the
\* most urgent runnable context always runs.
THEOREM MostUrgentRuns == Spec => [](CurrentIsHead /\ RunQueueSorted)
<1>1. IInv => CurrentIsHead /\ RunQueueSorted
  BY DEF IInv, RunQueueInv
<1> QED
  BY <1>1, ContextInvariant, PTL

\* Insertion, pre-emption, sleep and wake-up neither lose a runnable context
\* from the run queue nor link one twice.
THEOREM RunQueueComplete == Spec => []NoneLost
<1>1. IInv => NoneLost
  BY DEF IInv, RunQueueInv
<1> QED
  BY <1>1, ContextInvariant, PTL

\* Sleep queues hold exactly the contexts that sleep on them.
THEOREM SleepQueuesComplete == Spec => []SleepersQueued
<1>1. IInv => SleepersQueued
  BY DEF IInv, SleepInv
<1> QED
  BY <1>1, ContextInvariant, PTL

\* A context without locks is back at its own priority.
THEOREM PrioritiesRestored == Spec => []PriorityRestored
<1>1. IInv => PriorityRestored
  BY Basics DEF PriorityRestored
<1> QED
  BY <1>1, ContextInvariant, PTL

\* Locks make a context more urgent, never less.
NeverLessUrgent == \A c \in Contexts : c_priority[c] <= base[c]

\* A context that is still runnable loses the CPU only to a more urgent one,
\* or, when it holds no lock, to an equal.
THEOREM PreemptionByUrgency == Spec => PreemptedByMoreUrgent
<1> DEFINE A == current' # current /\ c_state'[current] \in Runnable =>
                  \/ c_priority'[current'] < c_priority'[current]
                  \/ held'[current] = <<>> /\ c_priority'[current'] = c_priority'[current]
<1>a. IInv => NeverLessUrgent
  BY Basics DEF NeverLessUrgent
<1>b. IInv' => NeverLessUrgent'
  BY <1>a, PTL
<1>1. IInv /\ IInv' => A
  <2> SUFFICES ASSUME IInv, IInv', current' # current, c_state'[current] \in Runnable
               PROVE  \/ c_priority'[current'] < c_priority'[current]
                      \/ held'[current] = <<>> /\ c_priority'[current'] = c_priority'[current]
    OBVIOUS
  <2>1. /\ current \in Contexts /\ current' \in Contexts
        /\ c_priority'[current'] \in Int /\ c_priority'[current] \in Int /\ base'[current'] \in Int
    BY DEF IInv, TypeOK, Priorities, Byte
  <2>2. PICK j \in 1 .. Len(run_queue') : run_queue'[j] = current
    BY <2>1 DEF IInv, RunQueueInv, NoneLost
  <2>3. run_queue' \in Seq(Contexts) /\ run_queue' # <<>> /\ current' = Head(run_queue')
    BY DEF IInv, TypeOK, RunQueueInv, CurrentIsHead
  <2>4. run_queue'[1] = current' /\ 1 \in 1 .. Len(run_queue') /\ Len(run_queue') \in Nat
    BY <2>3, EmptySeq
  <2>5. 1 < j
    BY <2>2, <2>4
  <2>6. c_priority'[current'] <= c_priority'[current]
    BY <2>2, <2>4, <2>5 DEF IInv, RunQueueInv, RunQueueSorted
  <2>7. held'[current] # <<>> => base'[current'] < c_priority'[current]
    BY <2>2, <2>4, <2>5 DEF IInv, RunQueueInv, HoldersFirst
  <2>8. c_priority'[current'] <= base'[current']
    BY <1>b, <2>1 DEF NeverLessUrgent
  <2> QED
    BY <2>1, <2>6, <2>7, <2>8
<1>2. IInv /\ IInv' => [A]_vars
  BY <1>1
<1> QED
  BY <1>2, ContextInvariant, PTL DEF PreemptedByMoreUrgent

=============================================================================
