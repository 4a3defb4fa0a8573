-------------------------------- MODULE Sem --------------------------------
(***************************************************************************)
(* Counting semaphores guarding a resource that Count contexts may use at  *)
(* once.  Every sem_*() function runs with the semaphore's spinlock held,  *)
(* so each one is a single action.  A sleeper has the resource from the    *)
(* moment sem_post() takes it off the sleep queue: all that is left for it *)
(* is to return.                                                           *)
(***************************************************************************)
EXTENDS Integers, Sequences, FiniteSets, Lists

CONSTANTS
  Contexts,      \* the contexts that use the resource
  Pri,           \* their priorities
  Count,         \* sem_init()'s count
  MaxTimeouts    \* bound: how many sleepers are interrupted

\* What the constants have to satisfy.
SemAssumption ==
  /\ IsFiniteSet(Contexts)
  /\ Pri \in [Contexts -> Nat]
  /\ Count \in {n \in Nat : 0 < n /\ n < 128}
  /\ MaxTimeouts \in Nat

VARIABLES
  s_count,        \* s8_t
  s_sleep_queue,
  users,          \* the contexts that have the resource
  timeouts        \* how many sleepers have been interrupted

vars == <<s_count, s_sleep_queue, users, timeouts>>

AsS8(n) == ((n + 128) % 256) - 128

Queued(c) == \E i \in 1 .. Len(s_sleep_queue) : s_sleep_queue[i] = c

-----------------------------------------------------------------------------
\* Whether sem_wait() returns at once.
MayPass(count) == count >= 0

\* A slip: sleepers queue in order of arrival.
MutPlace(c) == Len(s_sleep_queue) + 1

\* A slip: context_wait_queue() is used, which puts the latest first.
MutPlaceFirst(c) == 1

\* Where context_wait_pri_queue() puts c.
Place(c) == AfterEquals(s_sleep_queue, Pri, Pri[c])

\* A slip: the count goes down only for those that do not sleep.
MutTaken == IF MayPass(s_count - 1) THEN s_count - 1 ELSE s_count

\* The count that sem_wait() leaves.
Taken == AsS8(s_count - 1)

\* sem_wait().
SemWait(c) ==
  /\ c \notin users
  /\ ~Queued(c)
  /\ s_count' = Taken
  /\ IF MayPass(Taken)
       THEN users' = users \cup {c} /\ UNCHANGED s_sleep_queue
       ELSE s_sleep_queue' = LinkAt(s_sleep_queue, Place(c), c) /\ UNCHANGED users
  /\ UNCHANGED timeouts

\* Whether sem_post() wakes a sleeper.
Wakes(count) == count <= 0 /\ s_sleep_queue # <<>>

\* The count that sem_post() leaves.
Given == AsS8(s_count + 1)

\* sem_post() by a context that is done with the resource.
SemPost(c) ==
  /\ c \in users
  /\ s_count' = Given
  /\ users' = (users \ {c}) \cup (IF Wakes(Given) THEN {Head(s_sleep_queue)} ELSE {})
  /\ s_sleep_queue' = IF Wakes(Given) THEN Tail(s_sleep_queue) ELSE s_sleep_queue
  /\ UNCHANGED timeouts

\* sem_interrupt(): c's sem_wait() returns CONTEXT_INTERRUPTED.  The count
\* stays as sem_wait() left it.
SemInterrupt(c) ==
  /\ timeouts < MaxTimeouts
  /\ timeouts' = timeouts + 1
  /\ \E i \in 1 .. Len(s_sleep_queue) :
       /\ s_sleep_queue[i] = c
       /\ s_sleep_queue' = UnlinkAt(s_sleep_queue, i)
  /\ UNCHANGED <<s_count, users>>

\* sem_init().
Init ==
  /\ s_count = Count
  /\ s_sleep_queue = <<>>
  /\ users = {}
  /\ timeouts = 0

Next == \E c \in Contexts : SemWait(c) \/ SemPost(c) \/ SemInterrupt(c)

Spec == Init /\ [][Next]_vars

\* Whoever uses the resource relinquishes it in the end.
FairSpec == Spec /\ \A c \in Contexts : WF_vars(SemPost(c))

-----------------------------------------------------------------------------
(* Properties *)

\* Type invariant: the count never exceeds what sem_init() set it to.
TypeOK ==
  /\ s_count \in {n \in Int : -128 <= n /\ n <= Count}
  /\ s_sleep_queue \in Seq(Contexts)
  /\ users \subseteq Contexts
  /\ timeouts \in {n \in Nat : n <= MaxTimeouts}

\* "It allows a fixed number of contexts to access a resource": sem_wait() and
\* sem_post() never have more than Count contexts inside.
AtMostCount == Cardinality(users) <= Count

\* What the count means: the units free, less the sleepers, less one for every
\* sem_wait() that was ever interrupted.
CountExact == s_count = Count - Cardinality(users) - Len(s_sleep_queue) - timeouts

\* sem_post() lets in a sleeper only before every less urgent one.
UrgentFirst ==
  [][\A c, d \in Contexts :
       Queued(c) /\ c \in users' /\ Queued(d) => Pri[c] <= Pri[d]]_vars

\* The most urgent context never waits for ever: sem_post() hands each unit on
\* to the head of the priority queue.  Interrupted waits take units away, and
\* then nothing is promised.
MostUrgentServed ==
  \A c \in {x \in Contexts : \A d \in Contexts \ {x} : Pri[x] < Pri[d]} :
    Queued(c) ~> c \in users \/ timeouts > 0

=============================================================================
