------------------------------ MODULE Context ------------------------------
(***************************************************************************)
(* The context library: the priority run queue, spinlocks with a priority  *)
(* ceiling, wait / signal / interrupt with and without sleep queues, and   *)
(* the two kinds of trap handler that wake contexts.                       *)
(*                                                                         *)
(* Liquorice runs on one CPU.  Every function of the library disables      *)
(* interrupts from its first to its last access to shared state, so each   *)
(* one is a single action, up to the point where isr_context_switch()      *)
(* leaves the calling context.  What that call still has to do when its    *)
(* context is switched in again is recorded in "resume": while the current *)
(* context has such work left, interrupts are off and no other action is   *)
(* enabled.  context_broadcast_queue() is one step per iteration of its    *)
(* loop for the same reason (bcast_q).                                     *)
(*                                                                         *)
(* The callers obey the library's contract, which the DEBUG checks of the  *)
(* source spell out: a lock is taken only from a priority no more urgent   *)
(* than its ceiling, locks nest, a context sleeps holding only the lock it *)
(* hands over, it yields and exits holding none, and a sleeper is signalled*)
(* by a context that holds the sleeper's lock, or from a trap.             *)
(***************************************************************************)
EXTENDS Integers, Sequences, Lists

CONSTANTS
  Contexts,      \* every struct context the system may create
  Idle,          \* the idle thread's context, the first one started
  Locks,         \* every struct lock
  IsrLocks,      \* the locks shared with trap handlers
  l_pri_locked,  \* the ceiling of each lock
  Pri,           \* the priority each context is created with
  Queues,        \* the sleep queues
  PriQueues,     \* those filled by context_wait_pri_queue()
  QueueLock,     \* the lock that protects each sleep queue
  Ticks,         \* t_ticks_scheduled: timer ticks in a time slice
  NoLock,        \* no lock is being waited on
  NoQueue        \* no broadcast is in progress

\* priority_t and the other u8_t values.
Byte == {n \in Nat : n < 256}

Priorities == Byte

\* Priorities at or above this value are time-sliced (isr_thread_schedule).
RoundRobinPri == 128

\* The idle thread's priority once init() has returned.
IdlePri == 255

\* Every lock of the library and of the drivers has a ceiling below 0x80, so
\* a context that holds one is never time-sliced.
ASSUME ContextAssumption ==
  /\ Idle \in Contexts
  /\ IsrLocks \subseteq Locks
  /\ l_pri_locked \in [Locks -> {p \in Priorities : p < RoundRobinPri}]
  /\ \A l \in IsrLocks : l_pri_locked[l] = 0
  /\ Pri \in [Contexts -> Priorities]
  /\ PriQueues \subseteq Queues
  /\ QueueLock \in [Queues -> Locks]
  /\ Ticks \in Nat \ {0}
  /\ NoLock \notin Locks
  /\ NoQueue \notin Queues

VARIABLES
  current,        \* current_context
  run_queue,      \* the list from run_queue along c_run_queue
  run_queue_len,  \* the u8_t counter of runnable contexts
  c_priority,     \* operating priority of each context
  c_state,        \* CONTEXT_NULL, CONTEXT_RUNNING, ...
  base,           \* the priority the context has when it holds no lock
  held,           \* the locks of each context, innermost last; its length
                  \* is c_spinlocks_held
  l_lock,         \* the flag of each lock
  l_pri_unlocked, \* the priority each lock gives back when released
  sleep_queue,    \* each sleep queue, along c_sleep_queue
  wait_lock,      \* the lock a suspended __isr_context_wait() will retake
  resume,         \* what a context's kernel call does when switched in
  bcast_q,        \* the queue a broadcast is working through
  ticks_left      \* t_ticks_left

lockVars == <<held, l_lock, l_pri_unlocked>>
sleepVars == <<sleep_queue, wait_lock, bcast_q>>
vars == <<current, run_queue, run_queue_len, c_priority, c_state, base,
          lockVars, sleepVars, resume, ticks_left>>

States == {"NULL", "RUNNING", "READY", "INTERRUPTED", "SLEEP", "SLEEP_QUEUE"}
Runnable == {"RUNNING", "READY", "INTERRUPTED"}
Asleep == {"SLEEP", "SLEEP_QUEUE"}

-----------------------------------------------------------------------------
(* Run queues *)

\* A slip: the new context goes in front of its equals.
MutReadied(q, pri, c) == LinkAt(q, BeforeEquals(q, pri, pri[c]), c)

\* isr_context_ready(c): the run queue q with c linked in.
Readied(q, pri, c) == LinkAt(q, AfterEquals(q, pri, pri[c]), c)

\* A slip: the pre-empted context goes behind its equals.
MutPreempted(q, pri, p) ==
  LinkAt(Tail(q), AfterEquals(Tail(q), pri, p), Head(q))

\* The run queue after the current context was pre-empted at priority p.
Preempted(q, pri, p) ==
  LinkAt(Tail(q), BeforeEquals(Tail(q), pri, p), Head(q))

-----------------------------------------------------------------------------
(* Guards *)

\* The current context is executing its own code, not the rest of a call.
InUser == resume[current] = "none" /\ bcast_q = NoQueue

\* Interrupts are enabled: no isr lock is held by the current context.
IntEnabled == InUser /\ \A i \in DOMAIN held[current] : held[current][i] \notin IsrLocks

Holds(c, l) == \E i \in DOMAIN held[c] : held[c][i] = l

-----------------------------------------------------------------------------
(* Scheduling *)

\* isr_context_switch() to the head of the run queue q, when the contexts have
\* the states st.
SwitchTo(q, st) ==
  /\ current' = Head(q)
  /\ c_state' = [st EXCEPT ![Head(q)] = "RUNNING"]

\* A slip: the yielding context goes back in front of its equals.
MutYieldAt(pri) ==
  LET q == LinkAt(Tail(run_queue), BeforeEquals(Tail(run_queue), pri, pri[current]), current)
  IN  /\ run_queue' = q
      /\ IF Head(q) # current
           THEN SwitchTo(q, [c_state EXCEPT ![current] = "READY"])
           ELSE UNCHANGED <<current, c_state>>

\* isr_context_yield() at the priorities pri: move the current context behind
\* its equals and switch if it is no longer the head.
YieldAt(pri) ==
  LET q == Readied(Tail(run_queue), pri, current)
  IN  /\ run_queue' = q
      /\ IF Head(q) # current
           THEN SwitchTo(q, [c_state EXCEPT ![current] = "READY"])
           ELSE UNCHANGED <<current, c_state>>

\* A slip: no test for a more urgent successor.
MutReschedAt(q, st, pri, p) ==
  /\ run_queue' = q
  /\ c_state' = st
  /\ UNCHANGED current

\* The end of (isr_)spinlock_unlock(): the current context is back at priority
\* p in the run queue q; if its successor is more urgent it is put back behind
\* every more urgent context and the head is switched to.
ReschedAt(q, st, pri, p) ==
  IF Len(q) > 1 /\ pri[q[2]] < p
    THEN /\ run_queue' = Preempted(q, pri, p)
         /\ SwitchTo(run_queue', [st EXCEPT ![current] = "READY"])
    ELSE /\ run_queue' = q
         /\ c_state' = st
         /\ UNCHANGED current

\* context_yield().
ContextYield ==
  /\ IntEnabled
  /\ held[current] = <<>>
  /\ YieldAt(c_priority)
  /\ UNCHANGED <<run_queue_len, c_priority, base, lockVars, sleepVars, resume, ticks_left>>

\* thread_yield() gives up the rest of the time slice as well.
ThreadYield ==
  /\ IntEnabled
  /\ held[current] = <<>>
  /\ YieldAt(c_priority)
  /\ ticks_left' = [ticks_left EXCEPT ![current] = Ticks]
  /\ UNCHANGED <<run_queue_len, c_priority, base, lockVars, sleepVars, resume>>

\* idle_thread(), once init() has returned: drop to priority 255 and yield.
IdleDemote ==
  LET pri == [c_priority EXCEPT ![Idle] = IdlePri]
  IN  /\ IntEnabled
      /\ current = Idle
      /\ held[Idle] = <<>>
      /\ base[Idle] # IdlePri
      /\ c_priority' = pri
      /\ base' = [base EXCEPT ![Idle] = IdlePri]
      /\ YieldAt(pri)
      /\ UNCHANGED <<run_queue_len, lockVars, sleepVars, resume, ticks_left>>

\* A slip: the switch is made whether or not the new context is more urgent.
MutCreate(c) ==
  LET pri == [c_priority EXCEPT ![c] = Pri[c]]
      q == LinkAt(run_queue, BeforeEquals(run_queue, pri, pri[c]), c)
  IN  /\ IntEnabled
      /\ c_state[c] = "NULL"
      /\ c_priority' = pri
      /\ base' = [base EXCEPT ![c] = Pri[c]]
      /\ ticks_left' = [ticks_left EXCEPT ![c] = Ticks]
      /\ run_queue_len' = (run_queue_len + 1) % 256
      /\ run_queue' = q
      /\ SwitchTo(q, [c_state EXCEPT ![c] = "READY", ![current] = "READY"])
      /\ UNCHANGED <<lockVars, sleepVars, resume>>

\* thread_create(): context_init() of an unused context and a switch if it is
\* more urgent than the current one.
Create(c) ==
  LET pri == [c_priority EXCEPT ![c] = Pri[c]]
      st == [c_state EXCEPT ![c] = "READY"]
      q == Readied(run_queue, pri, c)
  IN  /\ IntEnabled
      /\ c_state[c] = "NULL"
      /\ c_priority' = pri
      /\ base' = [base EXCEPT ![c] = Pri[c]]
      /\ ticks_left' = [ticks_left EXCEPT ![c] = Ticks]
      /\ run_queue_len' = (run_queue_len + 1) % 256
      /\ run_queue' = q
      /\ IF Head(q) # current
           THEN SwitchTo(q, [st EXCEPT ![current] = "READY"])
           ELSE c_state' = st /\ UNCHANGED current
      /\ UNCHANGED <<lockVars, sleepVars, resume>>

\* context_exit(): leave the run queue for good.
Exit ==
  /\ IntEnabled
  /\ current # Idle
  /\ held[current] = <<>>
  /\ run_queue' = Tail(run_queue)
  /\ run_queue_len' = (run_queue_len - 1) % 256
  /\ SwitchTo(Tail(run_queue), [c_state EXCEPT ![current] = "NULL"])
  /\ UNCHANGED <<c_priority, base, lockVars, sleepVars, resume, ticks_left>>

-----------------------------------------------------------------------------
(* Spinlocks *)

\* spinlock_lock(l), or isr_disable() and isr_spinlock_lock(l).  Nothing tests
\* l_lock: the ceiling is what keeps other contexts out.
SpinlockLock(l) ==
  /\ IntEnabled
  /\ l_pri_locked[l] <= c_priority[current]
  /\ ~Holds(current, l)
  /\ l_pri_unlocked' = [l_pri_unlocked EXCEPT ![l] = c_priority[current]]
  /\ c_priority' = [c_priority EXCEPT ![current] = l_pri_locked[l]]
  /\ held' = [held EXCEPT ![current] = Append(@, l)]
  /\ l_lock' = [l_lock EXCEPT ![l] = 1]
  /\ UNCHANGED <<current, run_queue, run_queue_len, c_state, base, sleepVars,
                 resume, ticks_left>>

\* spinlock_unlock() or isr_spinlock_unlock() of the innermost lock.
SpinlockUnlock ==
  LET l == held[current][Len(held[current])]
      p == l_pri_unlocked[l]
      pri == [c_priority EXCEPT ![current] = p]
  IN  /\ InUser
      /\ held[current] # <<>>
      /\ l_lock' = [l_lock EXCEPT ![l] = 0]
      /\ c_priority' = pri
      /\ held' = [held EXCEPT ![current] = SubSeq(@, 1, Len(@) - 1)]
      /\ ReschedAt(run_queue, c_state, pri, p)
      /\ UNCHANGED <<run_queue_len, base, l_pri_unlocked, sleepVars, resume, ticks_left>>

-----------------------------------------------------------------------------
(* Sleeping *)

\* __isr_context_wait() up to its switch: give the lock l and its priority
\* back, leave the run queue in state st and switch.
WaitIn(l, st) ==
  /\ InUser
  /\ current # Idle
  /\ held[current] = <<l>>
  /\ l_lock' = [l_lock EXCEPT ![l] = 0]
  /\ c_priority' = [c_priority EXCEPT ![current] = l_pri_unlocked[l]]
  /\ held' = [held EXCEPT ![current] = <<>>]
  /\ run_queue' = Tail(run_queue)
  /\ run_queue_len' = (run_queue_len - 1) % 256
  /\ wait_lock' = [wait_lock EXCEPT ![current] = l]
  /\ resume' = [resume EXCEPT ![current] = "wait"]
  /\ SwitchTo(Tail(run_queue), [c_state EXCEPT ![current] = st])
  /\ UNCHANGED <<base, l_pri_unlocked, bcast_q, ticks_left>>

\* context_wait(l), isr_context_wait(l).
Wait(l) == WaitIn(l, "SLEEP") /\ UNCHANGED sleep_queue

\* context_wait_queue() pushes the caller on the front of the queue.
WaitQueue(q) ==
  /\ q \in Queues \ PriQueues
  /\ WaitIn(QueueLock[q], "SLEEP_QUEUE")
  /\ sleep_queue' = [sleep_queue EXCEPT ![q] = LinkAt(@, 1, current)]

\* A slip: the caller is queued by its ceiling, not by its own priority.
MutWaitPriQueue(q) ==
  LET at == AfterEquals(sleep_queue[q], c_priority, c_priority[current])
  IN  /\ q \in PriQueues
      /\ WaitIn(QueueLock[q], "SLEEP_QUEUE")
      /\ sleep_queue' = [sleep_queue EXCEPT ![q] = LinkAt(@, at, current)]

\* context_wait_pri_queue() keeps the queue in order of priority.
WaitPriQueue(q) ==
  LET at == AfterEquals(sleep_queue[q], c_priority, l_pri_unlocked[QueueLock[q]])
  IN  /\ q \in PriQueues
      /\ WaitIn(QueueLock[q], "SLEEP_QUEUE")
      /\ sleep_queue' = [sleep_queue EXCEPT ![q] = LinkAt(@, at, current)]

\* A slip: the lock keeps the priority it saved for its previous holder.
MutWaitReturn ==
  LET l == wait_lock[current]
  IN  /\ resume[current] = "wait"
      /\ c_priority' = [c_priority EXCEPT ![current] = l_pri_locked[l]]
      /\ held' = [held EXCEPT ![current] = Append(@, l)]
      /\ l_lock' = [l_lock EXCEPT ![l] = 1]
      /\ resume' = [resume EXCEPT ![current] = "none"]
      /\ wait_lock' = [wait_lock EXCEPT ![current] = NoLock]
      /\ UNCHANGED <<current, run_queue, run_queue_len, c_state, base, l_pri_unlocked,
                     sleep_queue, bcast_q, ticks_left>>

\* __isr_context_wait() after its switch: the woken context retakes its lock.
WaitReturn ==
  LET l == wait_lock[current]
  IN  /\ resume[current] = "wait"
      /\ l_pri_unlocked' = [l_pri_unlocked EXCEPT ![l] = c_priority[current]]
      /\ c_priority' = [c_priority EXCEPT ![current] = l_pri_locked[l]]
      /\ held' = [held EXCEPT ![current] = Append(@, l)]
      /\ l_lock' = [l_lock EXCEPT ![l] = 1]
      /\ resume' = [resume EXCEPT ![current] = "none"]
      /\ wait_lock' = [wait_lock EXCEPT ![current] = NoLock]
      /\ UNCHANGED <<current, run_queue, run_queue_len, c_state, base, sleep_queue,
                     bcast_q, ticks_left>>

\* Make the sleeper c runnable; no switch happens before the caller unlocks.
Wake(c, st) ==
  /\ c_state' = [c_state EXCEPT ![c] = st]
  /\ run_queue_len' = (run_queue_len + 1) % 256
  /\ run_queue' = Readied(run_queue, c_priority, c)
  /\ UNCHANGED <<current, c_priority, base, lockVars, wait_lock, resume, ticks_left>>

\* A slip: the state of the signalled context is not tested.
MutSignal(c) ==
  /\ InUser
  /\ Holds(current, wait_lock[c])
  /\ Wake(c, "READY")
  /\ UNCHANGED <<sleep_queue, bcast_q>>

\* context_signal(c): no effect unless c sleeps outside any queue.
Signal(c) ==
  /\ InUser
  /\ c_state[c] = "SLEEP"
  /\ Holds(current, wait_lock[c])
  /\ Wake(c, "READY")
  /\ UNCHANGED <<sleep_queue, bcast_q>>

\* context_interrupt(c), thread_interrupt().
Interrupt(c) ==
  /\ InUser
  /\ c_state[c] = "SLEEP"
  /\ Holds(current, wait_lock[c])
  /\ Wake(c, "INTERRUPTED")
  /\ UNCHANGED <<sleep_queue, bcast_q>>

\* context_signal_queue(q): wake the first sleeper, if there is one.
SignalQueue(q) ==
  /\ InUser
  /\ Holds(current, QueueLock[q])
  /\ sleep_queue[q] # <<>>
  /\ sleep_queue' = [sleep_queue EXCEPT ![q] = Tail(@)]
  /\ Wake(Head(sleep_queue[q]), "READY")
  /\ UNCHANGED bcast_q

\* A slip: the interrupted context stays linked on the sleep queue.
MutInterruptQueue(q, i) ==
  /\ InUser
  /\ Holds(current, QueueLock[q])
  /\ i \in DOMAIN sleep_queue[q]
  /\ Wake(sleep_queue[q][i], "INTERRUPTED")
  /\ UNCHANGED <<sleep_queue, bcast_q>>

\* context_interrupt_queue(): unlink one sleeper from anywhere in the queue.
InterruptQueue(q, i) ==
  /\ InUser
  /\ Holds(current, QueueLock[q])
  /\ i \in DOMAIN sleep_queue[q]
  /\ sleep_queue' = [sleep_queue EXCEPT ![q] = UnlinkAt(@, i)]
  /\ Wake(sleep_queue[q][i], "INTERRUPTED")
  /\ UNCHANGED bcast_q

\* context_broadcast_queue(q) is entered ...
Broadcast(q) ==
  /\ InUser
  /\ Holds(current, QueueLock[q])
  /\ sleep_queue[q] # <<>>
  /\ bcast_q' = q
  /\ UNCHANGED <<current, run_queue, run_queue_len, c_priority, c_state, base,
                 lockVars, sleep_queue, wait_lock, resume, ticks_left>>

\* ... and wakes every sleeper in turn before interrupts are enabled again.
BroadcastStep ==
  LET q == sleep_queue[bcast_q]
  IN  /\ bcast_q # NoQueue
      /\ sleep_queue' = [sleep_queue EXCEPT ![bcast_q] = Tail(@)]
      /\ Wake(Head(q), "READY")
      /\ bcast_q' = IF Len(q) = 1 THEN NoQueue ELSE bcast_q

-----------------------------------------------------------------------------
(* Traps *)

\* A trap handler that interrupts the current context: isr_spinlock_lock(l)
\* (priority 0), isr_context_signal(c), isr_spinlock_unlock(l).  The handler
\* may signal a context that is not asleep, or asleep for another reason.
\* rest is what the handler does after the unlock.
TrapSignal(l, c, rest) ==
  LET wakes == c_state[c] = "SLEEP"
      at0 == [c_priority EXCEPT ![current] = 0]
      q == IF wakes THEN Readied(run_queue, at0, c) ELSE run_queue
      st == IF wakes THEN [c_state EXCEPT ![c] = "READY"] ELSE c_state
  IN  /\ IntEnabled
      /\ l_pri_unlocked' = [l_pri_unlocked EXCEPT ![l] = c_priority[current]]
      /\ run_queue_len' = IF wakes THEN (run_queue_len + 1) % 256 ELSE run_queue_len
      /\ resume' = [resume EXCEPT ![current] = rest]
      /\ ReschedAt(q, st, c_priority, c_priority[current])
      /\ UNCHANGED <<c_priority, base, held, l_lock, sleepVars, ticks_left>>

\* A device interrupt, such as the UART's.
TrapDevice(l, c) == TrapSignal(l, c, "none")

\* The timer interrupt.
TrapTimer(l, c) == TrapSignal(l, c, "sched")

\* A slip: the slice runs one tick too long.
MutTicksLeft ==
  LET out == ticks_left[current] = 0
      sliced == c_priority[current] >= RoundRobinPri
  IN  /\ resume[current] = "sched"
      /\ resume' = [resume EXCEPT ![current] = "none"]
      /\ ticks_left' = [ticks_left EXCEPT ![current] =
                          IF ~sliced THEN @ ELSE IF out THEN Ticks ELSE @ - 1]
      /\ IF sliced /\ out
           THEN YieldAt(c_priority)
           ELSE UNCHANGED <<current, run_queue, c_state>>
      /\ UNCHANGED <<run_queue_len, c_priority, base, lockVars, sleepVars>>

\* A slip: contexts are time-sliced whatever their priority.
MutSliceAll ==
  LET out == ticks_left[current] = 1
  IN  /\ resume[current] = "sched"
      /\ resume' = [resume EXCEPT ![current] = "none"]
      /\ ticks_left' = [ticks_left EXCEPT ![current] = IF out THEN Ticks ELSE @ - 1]
      /\ IF out THEN YieldAt(c_priority) ELSE UNCHANGED <<current, run_queue, c_state>>
      /\ UNCHANGED <<run_queue_len, c_priority, base, lockVars, sleepVars>>

\* The end of the timer trap, isr_thread_schedule(), in the context that was
\* interrupted, whenever it runs again.
TrapSchedule ==
  LET out == ticks_left[current] = 1
      sliced == c_priority[current] >= RoundRobinPri
  IN  /\ resume[current] = "sched"
      /\ resume' = [resume EXCEPT ![current] = "none"]
      /\ ticks_left' = [ticks_left EXCEPT ![current] =
                          IF ~sliced THEN @ ELSE IF out THEN Ticks ELSE @ - 1]
      /\ IF sliced /\ out
           THEN YieldAt(c_priority)
           ELSE UNCHANGED <<current, run_queue, c_state>>
      /\ UNCHANGED <<run_queue_len, c_priority, base, lockVars, sleepVars>>

-----------------------------------------------------------------------------
\* The first context_init() starts the idle thread.  spinlock_init() leaves
\* l_pri_unlocked unset; every path writes it before it reads it.
Init ==
  /\ current = Idle
  /\ run_queue = <<Idle>>
  /\ run_queue_len = 1
  /\ c_priority = Pri
  /\ c_state = [c \in Contexts |-> IF c = Idle THEN "RUNNING" ELSE "NULL"]
  /\ base = Pri
  /\ held = [c \in Contexts |-> <<>>]
  /\ l_lock = [l \in Locks |-> 0]
  /\ l_pri_unlocked = [l \in Locks |-> 0]
  /\ sleep_queue = [q \in Queues |-> <<>>]
  /\ wait_lock = [c \in Contexts |-> NoLock]
  /\ resume = [c \in Contexts |-> "none"]
  /\ bcast_q = NoQueue
  /\ ticks_left = [c \in Contexts |-> Ticks]

Next ==
  \/ ContextYield
  \/ ThreadYield
  \/ IdleDemote
  \/ \E c \in Contexts : Create(c)
  \/ Exit
  \/ \E l \in Locks : SpinlockLock(l)
  \/ SpinlockUnlock
  \/ \E l \in Locks : Wait(l)
  \/ \E q \in Queues : WaitQueue(q)
  \/ \E q \in Queues : WaitPriQueue(q)
  \/ WaitReturn
  \/ \E c \in Contexts : Signal(c)
  \/ \E c \in Contexts : Interrupt(c)
  \/ \E q \in Queues : SignalQueue(q)
  \/ \E q \in Queues : \E i \in DOMAIN sleep_queue[q] : InterruptQueue(q, i)
  \/ \E q \in Queues : Broadcast(q)
  \/ BroadcastStep
  \/ \E l \in IsrLocks, c \in Contexts : TrapDevice(l, c)
  \/ \E l \in IsrLocks, c \in Contexts : TrapTimer(l, c)
  \/ TrapSchedule

Spec == Init /\ [][Next]_vars

\* A thread runs on after every interrupt, leaves its outermost critical
\* section and init() returns.  The timer keeps interrupting, and not only
\* while a lock is held (a tick that falls into a critical section is not
\* charged to the slice).
Fairness ==
  /\ WF_vars(WaitReturn)
  /\ WF_vars(BroadcastStep)
  /\ WF_vars(TrapSchedule)
  /\ SF_vars(SpinlockUnlock)
  /\ SF_vars(Len(held[current]) = 1 /\ SpinlockUnlock)
  /\ SF_vars(IdleDemote)
  /\ SF_vars(held[current] = <<>> /\ \E l \in IsrLocks, c \in Contexts : TrapTimer(l, c))

FairSpec == Spec /\ Fairness

-----------------------------------------------------------------------------
(* Properties *)

\* Type invariant of the scheduler's data.
TypeOK ==
  /\ current \in Contexts
  /\ run_queue \in Seq(Contexts)
  /\ run_queue_len \in Byte
  /\ c_priority \in [Contexts -> Priorities]
  /\ c_state \in [Contexts -> States]
  /\ base \in [Contexts -> Priorities]
  /\ held \in [Contexts -> Seq(Locks)]
  /\ l_lock \in [Locks -> {0, 1}]
  /\ l_pri_unlocked \in [Locks -> Priorities]
  /\ sleep_queue \in [Queues -> Seq(Contexts)]
  /\ wait_lock \in [Contexts -> Locks \cup {NoLock}]
  /\ resume \in [Contexts -> {"none", "wait", "sched"}]
  /\ bcast_q \in Queues \cup {NoQueue}
  /\ ticks_left \in [Contexts -> 1 .. Ticks]

\* No two contexts are ever inside the same spinlock, although spinlock_lock()
\* tests nothing: the "already held" stops of spinlock.c and context.c are
\* never reached.
MutualExclusion ==
  \A c, d \in Contexts, l \in Locks : Holds(c, l) /\ Holds(d, l) => c = d

\* l_lock tells whether the lock is held, so the "not held" stops of unlock
\* and wait are never reached either.
LockFlag ==
  \A l \in Locks : l_lock[l] = 1 <=> \E c \in Contexts : Holds(c, l)

\* The running context is the head of the run queue, which is what lets
\* wait, exit, yield and unlock unlink it with run_queue = c_run_queue.
CurrentIsHead ==
  /\ run_queue # <<>>
  /\ current = Head(run_queue)
  /\ \A c \in Contexts : c_state[c] = "RUNNING" <=> c = current

\* "The most urgent context always runs": no runnable context is more urgent
\* than the running one, and the rest follow in order of priority.
RunQueueSorted ==
  \A i, j \in 1 .. Len(run_queue) :
    i < j => c_priority[run_queue[i]] <= c_priority[run_queue[j]]

\* A context is on the run queue, once, exactly while it is runnable: none is
\* dropped or linked twice by the list surgery.
NoneLost ==
  /\ \A i, j \in 1 .. Len(run_queue) : run_queue[i] = run_queue[j] => i = j
  /\ \A c \in Contexts :
       c_state[c] \in Runnable <=> \E i \in 1 .. Len(run_queue) : run_queue[i] = c

\* A context on a sleep queue is asleep, on one queue and once, and waits for
\* the lock of that queue; every queued sleeper is on some queue.
SleepersQueued ==
  /\ \A q \in Queues : \A i \in 1 .. Len(sleep_queue[q]) :
       /\ c_state[sleep_queue[q][i]] = "SLEEP_QUEUE"
       /\ wait_lock[sleep_queue[q][i]] = QueueLock[q]
  /\ \A q, r \in Queues : \A i \in 1 .. Len(sleep_queue[q]), j \in 1 .. Len(sleep_queue[r]) :
       sleep_queue[q][i] = sleep_queue[r][j] => q = r /\ i = j
  /\ \A c \in Contexts : c_state[c] = "SLEEP_QUEUE" =>
       \E q \in Queues : \E i \in 1 .. Len(sleep_queue[q]) : sleep_queue[q][i] = c

\* A context that holds a lock is passed on the run queue only by contexts
\* whose own priority is strictly more urgent.  spinlock_unlock() puts a
\* pre-empted context back in front of its equals for this.
HoldersFirst ==
  \A i, j \in 1 .. Len(run_queue) :
    i < j /\ held[run_queue[j]] # <<>> => base[run_queue[i]] < c_priority[run_queue[j]]

\* The locks of a context nest: each gives back the priority of the one taken
\* before it, none raises it, and the innermost sets the context's priority.
LockStack ==
  \A c \in Contexts :
    LET h == held[c]
    IN  /\ \A i \in 1 .. Len(h) :
             /\ l_pri_unlocked[h[i]] = IF i = 1 THEN base[c] ELSE l_pri_locked[h[i - 1]]
             /\ l_pri_locked[h[i]] <= base[c]
             /\ \A j \in i .. Len(h) :
                  /\ l_pri_locked[h[j]] <= l_pri_locked[h[i]]
                  /\ h[i] = h[j] => i = j
        /\ c_priority[c] = IF h = <<>> THEN base[c] ELSE l_pri_locked[h[Len(h)]]

\* A context that is asleep, or woken and not yet run, holds nothing and can
\* take its lock back: the lock's ceiling is no less urgent than its priority.
\* Only the current context runs the kernel, and the idle thread never sleeps.
SleepersCanResume ==
  /\ c_state[Idle] \in Runnable
  /\ bcast_q # NoQueue =>
       /\ resume[current] = "none"
       /\ Holds(current, QueueLock[bcast_q])
       /\ sleep_queue[bcast_q] # <<>>
  /\ \A c \in Contexts :
       /\ c_state[c] \notin Runnable => held[c] = <<>>
       /\ c_state[c] \in Asleep => resume[c] = "wait"
       /\ c_state[c] = "NULL" => resume[c] = "none"
       /\ resume[c] = "wait" =>
            /\ held[c] = <<>>
            /\ wait_lock[c] \in Locks
            /\ l_pri_locked[wait_lock[c]] <= base[c]

\* Whatever locks, waits and pre-emptions it went through, a context that
\* holds no lock has the priority it was created with.
PriorityRestored ==
  \A c \in Contexts : held[c] = <<>> => c_priority[c] = base[c]

\* Sleepers on a priority queue are in order of priority.
PriQueueSorted ==
  \A q \in PriQueues : \A i, j \in 1 .. Len(sleep_queue[q]) :
    i < j => c_priority[sleep_queue[q][i]] <= c_priority[sleep_queue[q][j]]

\* run_queue_len, which feeds the load average, counts the run queue.
RunQueueLen == run_queue_len = Len(run_queue) % 256

\* Time slicing: a runnable context gets the CPU unless more urgent contexts
\* keep it; one of priority 0x80 or above never starves behind its equals.
RoundRobin ==
  \A c \in Contexts :
    (c_state[c] \in {"READY", "INTERRUPTED"} /\ base[c] >= RoundRobinPri)
      ~> (c_state[c] = "RUNNING" \/ base[current] < base[c])

\* A running context loses the CPU while still runnable only to a more urgent
\* one, unless it holds no lock and gives way to an equal.
PreemptedByMoreUrgent ==
  [][current' # current /\ c_state'[current] \in Runnable =>
       \/ c_priority'[current'] < c_priority'[current]
       \/ held'[current] = <<>> /\ c_priority'[current'] = c_priority'[current]]_vars

=============================================================================
