------------------------------- MODULE Thread -------------------------------
(***************************************************************************)
(* Where threads come from and go to: thread_create() builds a thread in a *)
(* heap block, thread_exit() leaves the block on idle_free and the idle    *)
(* thread gives it back to the heap.  Whatever runs with interrupts off is *)
(* one action; the idle thread can be pre-empted everywhere else.          *)
(***************************************************************************)
EXTENDS Integers, FiniteSets

CONSTANTS
  Blocks,  \* heap blocks large enough for a thread and its stack
  Idle,    \* the idle thread's static memory
  Null,
  Junk     \* what a t_next reads in memory nobody has written it in

\* What the constants have to satisfy.
ThreadAssumption ==
  /\ IsFiniteSet(Blocks)
  /\ Idle \notin Blocks
  /\ Null \notin Blocks \cup {Idle}
  /\ Junk \notin Blocks \cup {Idle, Null}

VARIABLES
  memory,       \* "free", "new" (allocated, not built), "live" or "exited"
  t_next,
  thread_list,
  idle_free,
  idle_pc,      \* where the idle thread is in its loop
  t, tfree      \* its locals

vars == <<memory, t_next, thread_list, idle_free, idle_pc, t, tfree>>

Threads == Blocks \cup {Idle}

\* What following t_next n times from p leads to.
Link(p) ==
  LET link[n \in 0 .. Cardinality(Threads)] ==
        IF n = 0 THEN p ELSE IF link[n - 1] \in Threads THEN t_next[link[n - 1]] ELSE link[n - 1]
  IN  link

\* The threads on the list that starts at p.
On(p) == {Link(p)[n] : n \in 0 .. Cardinality(Threads)} \cap Threads

\* The list that starts at p ends, and without passing through junk.
Ends(p) == Link(p)[Cardinality(Threads)] = Null

-----------------------------------------------------------------------------
\* thread_create(), first part: heap_alloc().
ThreadAlloc(b) ==
  /\ memory[b] = "free"
  /\ memory' = [memory EXCEPT ![b] = "new"]
  /\ t_next' = [t_next EXCEPT ![b] = Junk]
  /\ UNCHANGED <<thread_list, idle_free, idle_pc, t, tfree>>

\* thread_create(), second part: thread_build().
ThreadBuild(b) ==
  /\ memory[b] = "new"
  /\ memory' = [memory EXCEPT ![b] = "live"]
  /\ t_next' = [t_next EXCEPT ![b] = thread_list]
  /\ thread_list' = b
  /\ UNCHANGED <<idle_free, idle_pc, t, tfree>>

\* thread_exit(): unlink the thread, then leave it to the idle thread.
ThreadExit(b) ==
  /\ memory[b] = "live"
  /\ memory' = [memory EXCEPT ![b] = "exited"]
  /\ IF thread_list = b
       THEN /\ thread_list' = t_next[b]
            /\ t_next' = [t_next EXCEPT ![b] = idle_free]
       ELSE /\ \E p \in On(thread_list) :
                 /\ t_next[p] = b
                 /\ t_next' = [t_next EXCEPT ![p] = t_next[b], ![b] = idle_free]
            /\ UNCHANGED thread_list
  /\ idle_free' = b
  /\ UNCHANGED <<idle_pc, t, tfree>>

\* idle_thread(): t = idle_free.
IdleRead ==
  /\ idle_pc = "read"
  /\ t' = idle_free
  /\ idle_pc' = "walk"
  /\ UNCHANGED <<memory, t_next, thread_list, idle_free, tfree>>

\* idle_thread(): tfree = t, t = t->t_next.
IdleTake ==
  /\ idle_pc = "walk"
  /\ t # Null
  /\ tfree' = t
  /\ t' = t_next[t]
  /\ idle_pc' = "free"
  /\ UNCHANGED <<memory, t_next, thread_list, idle_free>>

\* A slip: only the first of the exited threads is freed.
MutIdleFree ==
  /\ idle_pc = "free"
  /\ memory' = [memory EXCEPT ![tfree] = "free"]
  /\ t_next' = [t_next EXCEPT ![tfree] = Junk]
  /\ tfree' = Null
  /\ t' = Null
  /\ idle_pc' = "walk"
  /\ UNCHANGED <<thread_list, idle_free>>

\* idle_thread(): heap_free().  The heap may overwrite the block.
IdleFree ==
  /\ idle_pc = "free"
  /\ memory' = [memory EXCEPT ![tfree] = "free"]
  /\ t_next' = [t_next EXCEPT ![tfree] = Junk]
  /\ tfree' = Null
  /\ idle_pc' = "walk"
  /\ UNCHANGED <<thread_list, idle_free, t>>

\* A slip: idle_free keeps pointing at the threads just freed.
MutIdleClear ==
  /\ idle_pc = "walk"
  /\ t = Null
  /\ idle_pc' = "read"
  /\ UNCHANGED <<memory, t_next, thread_list, idle_free, t, tfree>>

\* idle_thread(): idle_free = NULL, with interrupts on.
IdleClear ==
  /\ idle_pc = "walk"
  /\ t = Null
  /\ idle_free' = Null
  /\ idle_pc' = "read"
  /\ UNCHANGED <<memory, t_next, thread_list, t, tfree>>

\* thread_init() has built the idle thread and init() has returned.
Init ==
  /\ memory = [b \in Blocks |-> "free"]
  /\ t_next = [b \in Threads |-> IF b = Idle THEN Null ELSE Junk]
  /\ thread_list = Idle
  /\ idle_free = Null
  /\ idle_pc = "read"
  /\ t = Null
  /\ tfree = Null

Next ==
  \/ \E b \in Blocks : ThreadAlloc(b) \/ ThreadBuild(b) \/ ThreadExit(b)
  \/ IdleRead
  \/ IdleTake
  \/ IdleFree
  \/ IdleClear

Spec == Init /\ [][Next]_vars

\* The other threads sleep now and then, so the idle thread keeps running.
FairSpec == Spec /\ WF_vars(IdleRead \/ IdleTake \/ IdleFree \/ IdleClear)

-----------------------------------------------------------------------------
(* Properties *)

\* Type invariant: no list head is ever loaded from uninitialised memory.
TypeOK ==
  /\ memory \in [Blocks -> {"free", "new", "live", "exited"}]
  /\ t_next \in [Threads -> Threads \cup {Null, Junk}]
  /\ thread_list \in Threads
  /\ idle_free \in Blocks \cup {Null}
  /\ idle_pc \in {"read", "walk", "free"}
  /\ t \in Blocks \cup {Null}
  /\ tfree \in Blocks \cup {Null}

\* thread_list holds the threads that have been built and have not exited, the
\* idle thread among them, and ends: thread_exit()'s walk finds its thread.
ThreadsListed ==
  /\ Ends(thread_list)
  /\ On(thread_list) = {Idle} \cup {b \in Blocks : memory[b] = "live"}

\* Everything the idle thread is about to free has exited and has not been
\* freed, however many threads are created in recycled blocks and exit while
\* it is at it: heap_free() never gets a block twice, nor a live thread's.
FreesExited ==
  /\ Ends(t)
  /\ tfree \notin On(t)
  /\ \A b \in Blocks : b = tfree \/ b \in On(t) => memory[b] = "exited"

\* What the idle thread has found on idle_free is given back to the heap.
FoundAreFreed == \A b \in Blocks : b \in On(t) ~> memory[b] = "free"

\* The idle thread "looks to see if any threads have exited and if they have
\* then it tidies up after them": no exited thread is out of its sight.
NoneLeaked ==
  \A b \in Blocks : memory[b] = "exited" => b \in On(idle_free) \cup On(t) \cup {tfree}

=============================================================================
