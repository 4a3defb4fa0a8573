----------------------------- MODULE SemProofs -----------------------------
(***************************************************************************)
(* Counting semaphores for any contexts, priorities and count, as long as  *)
(* contexts and interrupted waits are few enough for the s8_t count.       *)
(***************************************************************************)
EXTENDS Sem, SleepQueues

\* The count cannot wrap: every context and every interrupted wait takes one unit.
NoWrap == Cardinality(Contexts) + MaxTimeouts <= 128

\* Nobody waits while a unit is free, if no wait was ever interrupted.
NoneIdle == timeouts = 0 /\ s_sleep_queue # <<>> => Cardinality(users) = Count

IInv ==
  /\ users \subseteq Contexts
  /\ timeouts \in {n \in Nat : n <= MaxTimeouts}
  /\ OnceIn(s_sleep_queue, Contexts)
  /\ ByUrgency(s_sleep_queue, Pri)
  /\ users \cap Sleepers(s_sleep_queue) = {}
  /\ CountExact
  /\ AtMostCount
  /\ NoneIdle

-----------------------------------------------------------------------------

\* Users and sleepers are different contexts, so there are at most so many of them.
LEMMA CountRange ==
  ASSUME SemAssumption, NoWrap, NEW U \in SUBSET Contexts, NEW q, OnceIn(q, Contexts),
         U \cap Sleepers(q) = {}
  PROVE  /\ IsFiniteSet(U) /\ Cardinality(U) \in Nat /\ Len(q) \in Nat
         /\ Cardinality(U) + Len(q) + MaxTimeouts <= 128
<1>1. IsFiniteSet(Contexts) /\ Cardinality(Contexts) \in Nat
  BY FS_CardinalityType DEF SemAssumption
<1>2. IsFiniteSet(Sleepers(q)) /\ Cardinality(Sleepers(q)) = Len(q) /\ Sleepers(q) \subseteq Contexts
  BY SleepersCount
<1>3. IsFiniteSet(U) /\ Cardinality(U) \in Nat
  BY <1>1, FS_Subset, FS_CardinalityType
<1>4. Len(q) \in Nat
  BY LenProperties DEF OnceIn
<1>5. Cardinality(U \cup Sleepers(q)) = Cardinality(U) + Cardinality(Sleepers(q))
  <2>1. Cardinality(U \cap Sleepers(q)) = 0
    BY FS_EmptySet
  <2>2. Cardinality(U \cup Sleepers(q))
          = Cardinality(U) + Cardinality(Sleepers(q)) - Cardinality(U \cap Sleepers(q))
    BY <1>2, <1>3, FS_Union
  <2> QED
    BY <1>2, <1>3, <1>4, <2>1, <2>2
<1>6. Cardinality(U \cup Sleepers(q)) <= Cardinality(Contexts)
  BY <1>1, <1>2, FS_Subset
<1> QED
  BY <1>1, <1>2, <1>3, <1>4, <1>5, <1>6 DEF NoWrap, SemAssumption

\* Within its range an s8_t holds the number itself.
LEMMA S8Exact ==
  \A n \in Int : -128 <= n /\ n <= 127 => AsS8(n) = n
BY DEF AsS8

\* A new semaphore has all its units.
LEMMA InitIInv ==
  ASSUME SemAssumption, Init
  PROVE  IInv
<1>1. /\ OnceIn(<<>>, Contexts) /\ Sleepers(<<>>) = {} /\ ByUrgency(<<>>, Pri)
      /\ Len(<<>>) = 0
  BY EmptySeq DEF OnceIn, Sleepers, ByUrgency
<1>2. Cardinality({}) = 0
  BY FS_EmptySet
<1> QED
  BY <1>1, <1>2 DEF Init, IInv, SemAssumption, CountExact, AtMostCount, NoneIdle

\* What s_count means for the next call: how one unit less or more comes about, and that
\* it still fits an s8_t.
LEMMA CountNow ==
  ASSUME SemAssumption, NoWrap, IInv
  PROVE  /\ s_count - 1 = Count - (Cardinality(users) + 1) - Len(s_sleep_queue) - timeouts
         /\ s_count - 1 = Count - Cardinality(users) - (Len(s_sleep_queue) + 1) - timeouts
         /\ s_count + 1 = Count - (Cardinality(users) - 1) - Len(s_sleep_queue) - timeouts
         /\ s_count + 1 = Count - Cardinality(users) - (Len(s_sleep_queue) - 1) - timeouts
         /\ s_count - 1 >= 0 => Cardinality(users) + 1 <= Count
         /\ Cardinality(users) + 1 + Len(s_sleep_queue) + MaxTimeouts <= 128
              => AsS8(s_count - 1) = s_count - 1 /\ s_count - 1 \in Int
         /\ Cardinality(users) > 0 => AsS8(s_count + 1) = s_count + 1
<1> DEFINE u == Cardinality(users)
           l == Len(s_sleep_queue)
<1>1. u \in Nat /\ l \in Nat /\ u + l + MaxTimeouts <= 128
  BY CountRange DEF IInv
<1>2. Count \in Nat /\ Count < 128 /\ MaxTimeouts \in Nat
  BY DEF SemAssumption
<1>3. timeouts \in Nat /\ timeouts <= MaxTimeouts /\ s_count = Count - u - l - timeouts
  BY DEF IInv, CountExact
<1> HIDE DEF u, l
<1>4. s_count \in Int
  BY ONLY <1>1, <1>2, <1>3
<1>5. /\ s_count - 1 = Count - (u + 1) - l - timeouts
      /\ s_count - 1 = Count - u - (l + 1) - timeouts
      /\ s_count + 1 = Count - (u - 1) - l - timeouts
      /\ s_count + 1 = Count - u - (l - 1) - timeouts
      /\ s_count - 1 >= 0 => u + 1 <= Count
  BY ONLY <1>1, <1>2, <1>3, <1>4
<1>6. u + 1 + l + MaxTimeouts <= 128 => AsS8(s_count - 1) = s_count - 1 /\ s_count - 1 \in Int
  <2>1. u + 1 + l + MaxTimeouts <= 128 => -128 <= s_count - 1 /\ s_count - 1 <= 127
    BY ONLY <1>1, <1>2, <1>3, <1>4
  <2>2. s_count - 1 \in Int
    BY ONLY <1>4
  <2> QED
    BY ONLY <2>1, <2>2, S8Exact, Zenon
<1>7. u > 0 => AsS8(s_count + 1) = s_count + 1
  <2>1. u > 0 => -128 <= s_count + 1 /\ s_count + 1 <= 127
    BY ONLY <1>1, <1>2, <1>3, <1>4
  <2>2. s_count + 1 \in Int
    BY ONLY <1>4
  <2> QED
    BY ONLY <2>1, <2>2, S8Exact, Zenon
<1> USE DEF u, l
<1> QED
  BY ONLY <1>5, <1>6, <1>7, Zenon

\* sem_wait() takes a unit or joins the sleepers; the count goes down either way.
LEMMA SemWaitIInv ==
  ASSUME SemAssumption, NoWrap, IInv, NEW c \in Contexts, SemWait(c)
  PROVE  IInv'
<1> USE DEF IInv
<1>1. c \notin users /\ c \notin Sleepers(s_sleep_queue) /\ UNCHANGED timeouts
  BY DEF SemWait, Queued, Sleepers
<1>2. /\ IsFiniteSet(users) /\ Cardinality(users) \in Nat /\ Len(s_sleep_queue) \in Nat
      /\ Cardinality(users) + Len(s_sleep_queue) + MaxTimeouts <= 128
  BY CountRange
<1>3. Count \in Nat /\ 0 < Count /\ Count < 128 /\ MaxTimeouts \in Nat
  BY DEF SemAssumption
<1>4. CASE MayPass(Taken) /\ users' = users \cup {c} /\ UNCHANGED s_sleep_queue
  <2>1. users' \subseteq Contexts /\ users' \cap Sleepers(s_sleep_queue') = {}
    BY <1>1, <1>4
  <2>2. Cardinality(users') = Cardinality(users) + 1
    BY <1>1, <1>2, <1>4, FS_AddElement
  <2>3. Cardinality(users') + Len(s_sleep_queue) + MaxTimeouts <= 128
    BY <1>4, <2>1, CountRange
  <2>4. s_count' = s_count - 1 /\ s_count - 1 >= 0
    <3>1. Cardinality(users) + 1 + Len(s_sleep_queue) + MaxTimeouts <= 128
      BY <2>2, <2>3
    <3>2. Taken = s_count - 1
      BY <3>1, CountNow, Zenon DEF Taken
    <3> QED
      BY <1>4, <3>2, Zenon DEF SemWait, MayPass
  <2>5. CountExact' /\ AtMostCount'
    BY <1>1, <1>4, <2>2, <2>4, CountNow, Zenon DEF CountExact, AtMostCount
  <2>6. NoneIdle'
    BY <1>1, <1>2, <1>3, <1>4, <2>4 DEF NoneIdle, CountExact
  <2> QED
    BY <1>1, <1>4, <2>1, <2>5, <2>6
<1>5. CASE /\ ~MayPass(Taken) /\ UNCHANGED users
           /\ s_sleep_queue' = LinkAt(s_sleep_queue, Place(c), c)
  <2>1. Pri \in [Contexts -> Int]
    BY DEF SemAssumption
  <2>2. Place(c) \in 1 .. Len(s_sleep_queue) + 1 /\ ByUrgency(s_sleep_queue', Pri)
    BY <1>5, <2>1, LinkByUrgency DEF Place
  <2>3. /\ OnceIn(s_sleep_queue', Contexts)
        /\ Sleepers(s_sleep_queue') = Sleepers(s_sleep_queue) \cup {c}
        /\ Len(s_sleep_queue') = Len(s_sleep_queue) + 1
    BY <1>1, <1>5, <2>2, LinkOnce
  <2>4. users \cap Sleepers(s_sleep_queue') = {}
    BY <1>1, <2>3
  <2>5. Cardinality(users) + Len(s_sleep_queue') + MaxTimeouts <= 128
    BY <2>3, <2>4, CountRange
  <2>6. s_count' = s_count - 1 /\ s_count - 1 < 0
    <3>1. Cardinality(users) + 1 + Len(s_sleep_queue) + MaxTimeouts <= 128
      BY <1>2, <1>3, <2>3, <2>5
    <3>2. Taken = s_count - 1 /\ s_count - 1 \in Int
      BY <3>1, CountNow, Zenon DEF Taken
    <3>3. s_count' = s_count - 1 /\ ~(s_count - 1 >= 0)
      BY <1>5, <3>2, Zenon DEF SemWait, MayPass
    <3> QED
      BY ONLY <3>2, <3>3
  <2>7. CountExact' /\ AtMostCount'
    BY <1>1, <1>5, <2>3, <2>6, CountNow, Zenon DEF CountExact, AtMostCount
  <2>8. NoneIdle'
    <3>1. CASE s_sleep_queue = <<>>
      BY <1>1, <1>2, <1>3, <1>5, <2>6, <3>1, EmptySeq DEF NoneIdle, CountExact, AtMostCount
    <3>2. CASE s_sleep_queue # <<>>
      BY <1>1, <1>5, <3>2 DEF NoneIdle
    <3> QED
      BY <3>1, <3>2
  <2> QED
    BY <1>1, <1>5, <2>2, <2>3, <2>4, <2>7, <2>8
<1> QED
  BY <1>4, <1>5 DEF SemWait

\* sem_post() hands the unit to the first sleeper, if there is one.
LEMMA SemPostIInv ==
  ASSUME SemAssumption, NoWrap, IInv, NEW c \in Contexts, SemPost(c)
  PROVE  IInv'
<1> USE DEF IInv
<1>1. c \in users /\ UNCHANGED timeouts
  BY DEF SemPost
<1>2. /\ IsFiniteSet(users) /\ Cardinality(users) \in Nat /\ Len(s_sleep_queue) \in Nat
      /\ Cardinality(users) + Len(s_sleep_queue) + MaxTimeouts <= 128
  BY CountRange
<1>3. Count \in Nat /\ 0 < Count /\ Count < 128 /\ MaxTimeouts \in Nat
  BY DEF SemAssumption
<1>4. /\ IsFiniteSet(users \ {c}) /\ Cardinality(users \ {c}) = Cardinality(users) - 1
      /\ Cardinality(users \ {c}) \in Nat
  BY <1>1, <1>2, FS_RemoveElement, FS_CardinalityType
<1>5. s_count' = s_count + 1 /\ Given = s_count + 1
  <2>1. Cardinality(users) > 0
    BY <1>2, <1>4
  <2> QED
    BY <2>1, CountNow, Zenon DEF SemPost, Given
<1>6. CASE Wakes(Given)
  <2> DEFINE h == Head(s_sleep_queue)
  <2>1. users' = (users \ {c}) \cup {h} /\ s_sleep_queue' = Tail(s_sleep_queue)
    BY <1>6 DEF SemPost
  <2>2. /\ h \in Contexts /\ h \in Sleepers(s_sleep_queue)
        /\ OnceIn(s_sleep_queue', Contexts)
        /\ Sleepers(s_sleep_queue') = Sleepers(s_sleep_queue) \ {h}
        /\ Len(s_sleep_queue') = Len(s_sleep_queue) - 1
        /\ ByUrgency(s_sleep_queue', Pri)
    BY <1>6, <2>1, TailOnce DEF Wakes
  <2> HIDE DEF h
  <2>3. users' \subseteq Contexts /\ users' \cap Sleepers(s_sleep_queue') = {}
    BY <2>1, <2>2
  <2>4. Cardinality(users') = Cardinality(users)
    <3>1. h \notin users \ {c}
      BY <2>2
    <3>2. Cardinality((users \ {c}) \cup {h}) = Cardinality(users \ {c}) + 1
      BY <1>4, <3>1, FS_AddElement
    <3> QED
      BY <1>2, <1>4, <2>1, <3>2
  <2>5. CountExact' /\ AtMostCount'
    BY <1>1, <1>5, <2>2, <2>4, CountNow, Zenon DEF CountExact, AtMostCount
  <2>6. NoneIdle'
    BY <1>1, <1>6, <2>4 DEF NoneIdle, Wakes
  <2> QED
    BY <1>1, <2>2, <2>3, <2>5, <2>6
<1>7. CASE ~Wakes(Given)
  <2>1. users' = users \ {c} /\ s_sleep_queue' = s_sleep_queue
    BY <1>7 DEF SemPost
  <2>2. CountExact' /\ AtMostCount'
    <3>1. CountExact'
      BY <1>1, <1>4, <1>5, <2>1, CountNow, Zenon DEF CountExact
    <3>2. Cardinality(users) - 1 <= Count
      BY <1>2, <1>3 DEF AtMostCount
    <3> QED
      BY <1>4, <2>1, <3>1, <3>2, Zenon DEF AtMostCount
  <2>3. NoneIdle'
    <3>1. CASE s_sleep_queue # <<>> /\ timeouts = 0
      <4>1. Len(s_sleep_queue) >= 1
        BY <1>2, <3>1, EmptySeq DEF OnceIn
      <4> QED
        BY <1>2, <1>3, <1>5, <1>7, <3>1, <4>1 DEF NoneIdle, CountExact, Wakes
    <3> QED
      BY <1>1, <2>1, <3>1 DEF NoneIdle
  <2> QED
    BY <1>1, <2>1, <2>2, <2>3
<1> QED
  BY <1>6, <1>7

\* sem_interrupt() leaves the count as it is: the unit that was waited for is gone.
LEMMA SemInterruptIInv ==
  ASSUME SemAssumption, NoWrap, IInv, NEW c \in Contexts, SemInterrupt(c)
  PROVE  IInv'
<1> USE DEF IInv
<1>1. /\ timeouts < MaxTimeouts /\ timeouts' = timeouts + 1
      /\ UNCHANGED <<s_count, users>>
  BY DEF SemInterrupt
<1>2. PICK i \in 1 .. Len(s_sleep_queue) : s_sleep_queue' = UnlinkAt(s_sleep_queue, i)
  BY DEF SemInterrupt
<1>3. /\ OnceIn(s_sleep_queue', Contexts)
      /\ Sleepers(s_sleep_queue') \subseteq Sleepers(s_sleep_queue)
      /\ Len(s_sleep_queue') = Len(s_sleep_queue) - 1
      /\ ByUrgency(s_sleep_queue', Pri)
  BY <1>2, UnlinkOnce
<1>4. Len(s_sleep_queue) \in Nat /\ Cardinality(users) \in Nat
  BY CountRange
<1>5. CountExact' /\ AtMostCount' /\ NoneIdle'
  BY <1>1, <1>3, <1>4 DEF CountExact, AtMostCount, NoneIdle, SemAssumption
<1> QED
  BY <1>1, <1>3, <1>5 DEF SemAssumption

\* Every call keeps the invariant.
LEMMA NextIInv ==
  ASSUME SemAssumption, NoWrap, IInv, [Next]_vars
  PROVE  IInv'
<1>1. CASE UNCHANGED vars
  BY <1>1 DEF vars, IInv, CountExact, AtMostCount, NoneIdle
<1>2. ASSUME NEW c \in Contexts, SemWait(c) \/ SemPost(c) \/ SemInterrupt(c)
      PROVE  IInv'
  BY <1>2, SemWaitIInv, SemPostIInv, SemInterruptIInv, Zenon
<1> QED
  BY <1>1, <1>2 DEF Next

\* The inductive invariant: what s_count means, whom it lets in, and who waits.
THEOREM SemInvariant ==
  ASSUME SemAssumption, NoWrap
  PROVE  Spec => []IInv
<1>1. Init => IInv
  BY InitIInv
<1>2. IInv /\ [Next]_vars => IInv'
  BY NextIInv
<1> QED
  BY <1>1, <1>2, PTL DEF Spec

\* sem_wait() lets in at most as many as sem_init() allows, and s_count is the units
\* free less the sleepers less one for every interrupted wait: interrupted waits shut
\* contexts out, and none opens the semaphore while the count does not wrap.
THEOREM UnitsExact ==
  ASSUME SemAssumption, NoWrap
  PROVE  Spec => [](AtMostCount /\ CountExact)
<1>1. IInv => AtMostCount /\ CountExact
  BY DEF IInv
<1> QED
  BY <1>1, SemInvariant, PTL

\* As long as no wait is interrupted, a context sleeps only while all units are taken.
THEOREM UnitsBusy ==
  ASSUME SemAssumption, NoWrap
  PROVE  Spec => []NoneIdle
<1>1. IInv => NoneIdle
  BY DEF IInv
<1> QED
  BY <1>1, SemInvariant, PTL

\* sem_post() wakes a sleeper only before every less urgent one.
THEOREM UrgentServed ==
  ASSUME SemAssumption, NoWrap
  PROVE  Spec => UrgentFirst
<1> DEFINE A == \A c, d \in Contexts : Queued(c) /\ c \in users' /\ Queued(d) => Pri[c] <= Pri[d]
<1>1. ASSUME IInv, Next
      PROVE  A
  <2> SUFFICES ASSUME NEW c \in Contexts, NEW d \in Contexts,
                      c \in Sleepers(s_sleep_queue), c \in users', d \in Sleepers(s_sleep_queue)
               PROVE  Pri[c] <= Pri[d]
    BY DEF Queued, Sleepers
  <2>1. c \notin users
    BY <1>1 DEF IInv
  <2>2. PICK e \in Contexts : SemWait(e) \/ SemPost(e) \/ SemInterrupt(e)
    BY <1>1 DEF Next
  <2>3. SemPost(e)
    BY <2>1, <2>2 DEF SemWait, SemInterrupt, Queued, Sleepers
  <2>4. c = Head(s_sleep_queue)
    BY <2>1, <2>3 DEF SemPost
  <2>5. Pri \in [Contexts -> Int]
    BY DEF SemAssumption
  <2> QED
    BY <1>1, <2>4, <2>5, HeadMostUrgent DEF IInv
<1>2. IInv /\ [Next]_vars => [A]_vars
  BY <1>1
<1> QED
  BY <1>2, SemInvariant, PTL DEF Spec, UrgentFirst

=============================================================================
