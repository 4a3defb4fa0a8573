----------------------------- MODULE MCServices -----------------------------
(***************************************************************************)
(* The services of the kernel on small instances: reader/writer locks,     *)
(* semaphores, threads, one-shot timers, the heap and time slices.  None   *)
(* touches the state of another, so a behaviour runs one of them, the part *)
(* that its first state chooses, and leaves the others where they start.   *)
(***************************************************************************)
EXTENDS Integers, Sequences, TLC

CONSTANTS
  a, b, c1, c2, d,                               \* contexts that share a lock or a resource
  Blocks, Idle, Null, Junk,                      \* Thread
  Timers, NoTimer,                               \* Oneshot
  idle, t1, t2, isr, high, q1, NoLock, NoQueue   \* Context

VARIABLES
  part,
  rwl_readers, rwl_writers, rwl_read_sleep_queue, rwl_write_sleep_queue, access,
  s_count, s_sleep_queue, users, timeouts,
  memory, t_next, thread_list, idle_free, idle_pc, t, tfree,
  oneshot_list, os_ticks_left, mb_refs, calling, owned, due,
  holes, blocks, free_ram, added,
  current, run_queue, run_queue_len, c_priority, c_state, base, held, l_lock,
  l_pri_unlocked, sleep_queue, wait_lock, resume, bcast_q, ticks_left

\* Five contexts of four priorities.
McPri == (a :> 16) @@ (b :> 64) @@ (c1 :> 80) @@ (c2 :> 80) @@ (d :> 112)

\* Two small regions of an AVR's memory, with room for five blocks at most.
McRegions == {[addr |-> 8, size |-> 29], [addr |-> 40, size |-> 13]}

\* Four contexts on one reader/writer lock in recycled memory.
Locking == INSTANCE RWLock WITH
  Contexts <- {a, b, c1, c2}, Pri <- [c \in {a, b, c1, c2} |-> McPri[c]], FirstWriters <- {0, 1, 255}

\* Five contexts that share two units of a resource.
Sharing == INSTANCE Sem WITH
  Contexts <- {a, b, c1, c2, d}, Pri <- McPri, Count <- 2, MaxTimeouts <- 3

\* One thread may be created and another exit while the idle thread frees a third.
Freeing == INSTANCE Thread

\* Timers counted down by one or two at a time: several expire in one tick.
Timing == INSTANCE Oneshot WITH Delays <- {2}, Ticks <- {1, 2}

Storing == INSTANCE Heap WITH
  Regions <- McRegions, Requests <- {1, 4, 9}, HoleSize <- 4, BlockSize <- 2, MagicSize <- 2

\* Two time-sliced threads.
Slicing == INSTANCE Context WITH
  Contexts <- {idle, t1, t2}, Idle <- idle, Locks <- {isr, high}, IsrLocks <- {isr},
  l_pri_locked <- (isr :> 0) @@ (high :> 16), Pri <- (idle :> 127) @@ (t1 :> 144) @@ (t2 :> 144),
  Queues <- {q1}, PriQueues <- {}, QueueLock <- (q1 :> high), Ticks <- 2

ASSUME InstancesAssumption ==
  /\ Locking!RWLockAssumption
  /\ Sharing!SemAssumption
  /\ Freeing!ThreadAssumption
  /\ Timing!OneshotAssumption
  /\ Storing!HeapAssumption

-----------------------------------------------------------------------------

locking == <<rwl_readers, rwl_writers, rwl_read_sleep_queue, rwl_write_sleep_queue, access>>
sharing == <<s_count, s_sleep_queue, users, timeouts>>
freeing == <<memory, t_next, thread_list, idle_free, idle_pc, t, tfree>>
timing == <<oneshot_list, os_ticks_left, mb_refs, calling, owned, due>>
storing == <<holes, blocks, free_ram, added>>
slicing == <<current, run_queue, run_queue_len, c_priority, c_state, base, held, l_lock,
             l_pri_unlocked, sleep_queue, wait_lock, resume, bcast_q, ticks_left>>

Init ==
  /\ part \in {"locking", "sharing", "freeing", "timing", "storing", "slicing"}
  /\ part # "locking" => rwl_writers = 0
  /\ Locking!Init
  /\ Sharing!Init
  /\ Freeing!Init
  /\ Timing!Init
  /\ Storing!Init
  /\ Slicing!Init

\* Interrupted waits may have taken every unit away, and everybody sleeps for ever.
Next ==
  \/ /\ part = "locking" /\ Locking!Next
     /\ UNCHANGED <<part, sharing, freeing, timing, storing, slicing>>
  \/ /\ part = "sharing" /\ Sharing!Next
     /\ UNCHANGED <<part, locking, freeing, timing, storing, slicing>>
  \/ /\ part = "sharing" /\ users = {} /\ Len(s_sleep_queue) = 5
     /\ UNCHANGED <<part, locking, sharing, freeing, timing, storing, slicing>>
  \/ /\ part = "freeing" /\ Freeing!Next
     /\ UNCHANGED <<part, locking, sharing, timing, storing, slicing>>
  \/ /\ part = "timing" /\ Timing!Next
     /\ UNCHANGED <<part, locking, sharing, freeing, storing, slicing>>
  \/ /\ part = "storing" /\ Storing!Next
     /\ UNCHANGED <<part, locking, sharing, freeing, timing, slicing>>
  \/ /\ part = "slicing" /\ Slicing!Next
     /\ UNCHANGED <<part, locking, sharing, freeing, timing, storing>>

\* The fairness of Sem, Thread and Context, asked of the behaviours that run them.
FairSpec ==
  /\ Init /\ [][Next]_<<part, locking, sharing, freeing, timing, storing, slicing>>
  /\ \A c \in {a, b, c1, c2, d} : WF_sharing(part = "sharing" /\ Sharing!SemPost(c))
  /\ WF_freeing(/\ part = "freeing"
                /\ \/ Freeing!IdleRead \/ Freeing!IdleTake
                   \/ Freeing!IdleFree \/ Freeing!IdleClear)
  /\ WF_slicing(part = "slicing" /\ Slicing!WaitReturn)
  /\ WF_slicing(part = "slicing" /\ Slicing!BroadcastStep)
  /\ WF_slicing(part = "slicing" /\ Slicing!TrapSchedule)
  /\ SF_slicing(part = "slicing" /\ Slicing!SpinlockUnlock)
  /\ SF_slicing(part = "slicing" /\ Len(held[current]) = 1 /\ Slicing!SpinlockUnlock)
  /\ SF_slicing(part = "slicing" /\ Slicing!IdleDemote)
  /\ SF_slicing(/\ part = "slicing" /\ held[current] = <<>>
                /\ \E c \in {idle, t1, t2} : Slicing!TrapTimer(isr, c))

-----------------------------------------------------------------------------
(* Properties *)

\* Type invariant of the services; heap_free() can always write a hole's header.
TypeOK ==
  Locking!TypeOK /\ Sharing!TypeOK /\ Freeing!TypeOK /\ Timing!TypeOK /\ Storing!TypeOK

\* A writer has the reader/writer lock to itself through every hand-over.
WritersAlone == Locking!WritersAlone

\* rwl_readers counts those who were told that they may read, and a context is
\* queued for one kind of access at a time ("our context can't be queued on both!").
AccessCounted == Locking!ReadersCounted /\ Locking!QueuedOnce

\* Readers that keep calling rwlock_lock_read() cannot starve a waiting writer.
WritersFirst == Locking!WritersFirst

\* rwlock_unlock_read(), rwlock_unlock_write() and sem_post() let a sleeper in only
\* before every less urgent one.
UrgentFirst == Locking!UrgentWritersFirst /\ Sharing!UrgentFirst

\* sem_wait() never lets in more contexts than sem_init() allows, and s_count is the
\* units free less the sleepers less one for every wait ever interrupted.
UnitsCounted == Sharing!AtMostCount /\ Sharing!CountExact

\* sem_post() hands each unit on to the head of the priority queue: the most urgent
\* context never waits for ever, as long as no wait was interrupted.
MostUrgentServed == Sharing!MostUrgentServed

\* thread_list holds the threads that live, and what the idle thread is about to free
\* has exited and was not freed, however many threads are created in recycled blocks.
ThreadsKept == Freeing!ThreadsListed /\ Freeing!FreesExited

\* What the idle thread has found on idle_free is given back to the heap.
FoundAreFreed == Freeing!FoundAreFreed

\* A timer's memory goes back to the heap exactly when it is neither owned nor attached.
RefsConserved == Timing!RefsConserved

\* oneshot_tick() never calls a timer before its ticks have passed.
NeverEarly == Timing!NeverEarly

\* oneshot_tick() starts a callback only for a timer that is owned and due.
CallsOwners == Timing!CallsOwners

\* No byte is lost and none is in two places through every split and merge, no two
\* holes touch, and heap_get_free() tells the truth.
HeapWhole == Storing!Partitioned /\ Storing!HolesApart /\ Storing!FreeRamExact

\* The heap keeps the promises of Allocator.
Allocates == Storing!Allocates

\* Equal time-sliced threads take turns.
RoundRobin == part = "slicing" => Slicing!RoundRobin

=============================================================================
