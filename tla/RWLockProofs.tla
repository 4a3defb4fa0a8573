---------------------------- MODULE RWLockProofs ----------------------------
(***************************************************************************)
(* Reader/writer locks exclude for any number of contexts below 256, with  *)
(* any priorities and whatever rwl_writers starts with.                    *)
(***************************************************************************)
EXTENDS RWLock, SleepQueues

\* The two sleep queues: nobody is in both, in one twice, or in one with access,
\* and the writers are in order of priority.
QueuesInv ==
  /\ OnceIn(rwl_read_sleep_queue, Contexts)
  /\ OnceIn(rwl_write_sleep_queue, Contexts)
  /\ \A c \in Sleepers(rwl_read_sleep_queue) :
       c \notin Sleepers(rwl_write_sleep_queue) /\ access[c] = "none"
  /\ \A c \in Sleepers(rwl_write_sleep_queue) : access[c] = "none"
  /\ ByUrgency(rwl_write_sleep_queue, Pri)

\* The counters: rwl_readers is exact, rwl_writers only never too low.
CountsInv ==
  /\ rwl_readers \in Nat
  /\ rwl_readers = Cardinality(Readers)
  /\ rwl_writers \in {n \in Nat : n < 256}
  /\ Writers # {} => rwl_writers # 0

IInv ==
  /\ access \in [Contexts -> {"none", "read", "write"}]
  /\ WritersAlone
  /\ CountsInv
  /\ QueuesInv

-----------------------------------------------------------------------------

\* The contexts are finitely many, so those with read access can be counted.
LEMMA ReadersFinite ==
  ASSUME RWLockAssumption, NEW R, R \subseteq Contexts
  PROVE  IsFiniteSet(R) /\ Cardinality(R) \in Nat /\ Cardinality(R) < 256
<1>1. IsFiniteSet(Contexts) /\ Cardinality(Contexts) < 256
  BY DEF RWLockAssumption
<1>2. IsFiniteSet(R) /\ Cardinality(R) <= Cardinality(Contexts)
  BY <1>1, FS_Subset
<1>3. Cardinality(R) \in Nat /\ Cardinality(Contexts) \in Nat
  BY <1>1, <1>2, FS_CardinalityType
<1> QED
  BY <1>1, <1>2, <1>3

\* The walk of the code along a queue finds exactly its sleepers.
LEMMA OnSleepers ==
  \A q, c : On(q, c) <=> c \in Sleepers(q)
BY DEF On, Sleepers

\* A new lock is empty, whatever rwl_writers holds.
LEMMA InitIInv ==
  ASSUME RWLockAssumption, Init
  PROVE  IInv
<1>1. OnceIn(<<>>, Contexts) /\ Sleepers(<<>>) = {} /\ ByUrgency(<<>>, Pri)
  BY EmptySeq DEF OnceIn, Sleepers, ByUrgency
<1>2. Readers = {} /\ Writers = {}
  BY DEF Init, Readers, Writers
<1>3. Cardinality({}) = 0
  BY FS_EmptySet
<1>4. CountsInv
  BY <1>2, <1>3 DEF Init, CountsInv, RWLockAssumption
<1>5. QueuesInv
  BY <1>1 DEF Init, QueuesInv
<1> QED
  BY <1>4, <1>5 DEF IInv, Init, WritersAlone

\* rwlock_lock_read() lets a reader in only when there is no writer.
LEMMA LockReadIInv ==
  ASSUME RWLockAssumption, IInv, NEW c \in Contexts, LockRead(c)
  PROVE  IInv'
<1> USE DEF IInv
<1>1. /\ c \notin Sleepers(rwl_read_sleep_queue)
      /\ c \notin Sleepers(rwl_write_sleep_queue)
      /\ access[c] = "none"
  BY OnSleepers DEF LockRead, Free
<1>2. CASE MayRead /\ access' = [access EXCEPT ![c] = "read"]
                   /\ rwl_readers' = (rwl_readers + 1) % 256
                   /\ UNCHANGED rwl_read_sleep_queue
  <2>1. Writers = {}
    BY <1>2 DEF MayRead, CountsInv
  <2>2. access' \in [Contexts -> {"none", "read", "write"}] /\ WritersAlone' /\ Writers' = {}
    BY <1>2, <2>1 DEF WritersAlone, Writers
  <2>3. Readers' = Readers \cup {c} /\ c \notin Readers
    BY <1>1, <1>2 DEF Readers
  <2>4. Cardinality(Readers') = Cardinality(Readers) + 1 /\ Cardinality(Readers') < 256
    <3>1. Readers \subseteq Contexts /\ Readers' \subseteq Contexts
      BY <2>3 DEF Readers
    <3>2. IsFiniteSet(Readers) /\ Cardinality(Readers') < 256
      BY <3>1, ReadersFinite
    <3> QED
      BY <2>3, <3>2, FS_AddElement
  <2>5. CountsInv'
    BY <1>2, <2>2, <2>4 DEF CountsInv, LockRead
  <2>6. QueuesInv'
    BY <1>1, <1>2 DEF QueuesInv, LockRead
  <2> QED
    BY <2>2, <2>5, <2>6
<1>3. CASE /\ rwl_read_sleep_queue' = LinkAt(rwl_read_sleep_queue, 1, c)
           /\ UNCHANGED <<rwl_readers, access>>
  <2>1. 1 \in 1 .. Len(rwl_read_sleep_queue) + 1
    BY LenProperties DEF QueuesInv, OnceIn
  <2>2. /\ OnceIn(rwl_read_sleep_queue', Contexts)
        /\ Sleepers(rwl_read_sleep_queue') = Sleepers(rwl_read_sleep_queue) \cup {c}
    BY <1>1, <1>3, <2>1, LinkOnce DEF QueuesInv
  <2>3. QueuesInv'
    BY <1>1, <1>3, <2>2 DEF QueuesInv, LockRead
  <2>4. CountsInv' /\ WritersAlone'
    BY <1>3 DEF CountsInv, WritersAlone, Readers, Writers, LockRead
  <2> QED
    BY <1>3, <2>3, <2>4
<1> QED
  BY <1>2, <1>3 DEF LockRead

\* rwlock_lock_write() lets a writer in only when nobody has access.
LEMMA LockWriteIInv ==
  ASSUME RWLockAssumption, IInv, NEW c \in Contexts, LockWrite(c)
  PROVE  IInv'
<1> USE DEF IInv
<1>1. /\ c \notin Sleepers(rwl_read_sleep_queue)
      /\ c \notin Sleepers(rwl_write_sleep_queue)
      /\ access[c] = "none"
  BY OnSleepers DEF LockWrite, Free
<1>2. CASE MayWrite /\ access' = [access EXCEPT ![c] = "write"]
                    /\ rwl_writers' = (rwl_writers + 1) % 256
                    /\ UNCHANGED rwl_write_sleep_queue
  <2>1. Writers = {} /\ Readers = {}
    <3>1. Readers \subseteq Contexts
      BY DEF Readers
    <3>2. IsFiniteSet(Readers) /\ Cardinality(Readers) = 0
      BY <1>2, <3>1, ReadersFinite DEF MayWrite, CountsInv
    <3> QED
      BY <1>2, <3>2, FS_EmptySet DEF MayWrite, CountsInv
  <2>2. \A d \in Contexts : access'[d] = IF d = c THEN "write" ELSE "none"
    BY <1>2, <2>1 DEF Readers, Writers
  <2>3. access' \in [Contexts -> {"none", "read", "write"}] /\ WritersAlone'
    BY <1>2, <2>2 DEF WritersAlone
  <2>4. Readers' = Readers
    BY <2>1, <2>2 DEF Readers
  <2>5. CountsInv'
    <3>1. rwl_writers' = 1 /\ rwl_readers' = rwl_readers
      BY <1>2 DEF LockWrite, MayWrite
    <3> QED
      BY <2>4, <3>1 DEF CountsInv
  <2>6. QueuesInv'
    BY <1>1, <1>2 DEF QueuesInv, LockWrite
  <2> QED
    BY <2>3, <2>5, <2>6
<1>3. CASE /\ rwl_write_sleep_queue' = LinkAt(rwl_write_sleep_queue, Place(c), c)
           /\ UNCHANGED <<rwl_writers, access>>
  <2>1. Pri \in [Contexts -> Int]
    BY DEF RWLockAssumption
  <2>2. /\ Place(c) \in 1 .. Len(rwl_write_sleep_queue) + 1
        /\ ByUrgency(rwl_write_sleep_queue', Pri)
    BY <1>3, <2>1, LinkByUrgency DEF QueuesInv, Place
  <2>3. /\ OnceIn(rwl_write_sleep_queue', Contexts)
        /\ Sleepers(rwl_write_sleep_queue') = Sleepers(rwl_write_sleep_queue) \cup {c}
    BY <1>1, <1>3, <2>2, LinkOnce DEF QueuesInv
  <2>4. QueuesInv'
    BY <1>1, <1>3, <2>2, <2>3 DEF QueuesInv, LockWrite
  <2>5. CountsInv' /\ WritersAlone'
    BY <1>3 DEF CountsInv, WritersAlone, Readers, Writers, LockWrite
  <2> QED
    BY <1>3, <2>4, <2>5
<1> QED
  BY <1>2, <1>3 DEF LockWrite

\* Taking the first writer off its queue.
LEMMA HandOverQueues ==
  ASSUME RWLockAssumption, IInv, NEW c \in Contexts, access[c] # "none", HandOver(c),
         UNCHANGED rwl_read_sleep_queue
  PROVE  /\ QueuesInv'
         /\ Head(rwl_write_sleep_queue) \in Contexts \ {c}
         /\ access[Head(rwl_write_sleep_queue)] = "none"
         /\ access' = [access EXCEPT ![c] = "none", ![Head(rwl_write_sleep_queue)] = "write"]
<1> DEFINE h == Head(rwl_write_sleep_queue)
<1>1. /\ h \in Contexts /\ h \in Sleepers(rwl_write_sleep_queue)
      /\ OnceIn(rwl_write_sleep_queue', Contexts)
      /\ Sleepers(rwl_write_sleep_queue') = Sleepers(rwl_write_sleep_queue) \ {h}
      /\ ByUrgency(rwl_write_sleep_queue', Pri)
  BY TailOnce DEF HandOver, IInv, QueuesInv
<1>2. access[h] = "none" /\ h # c
  BY <1>1 DEF IInv, QueuesInv
<1>3. access' = [access EXCEPT ![c] = "none", ![h] = "write"]
  BY DEF HandOver
<1> HIDE DEF h
<1>4. \A d \in Contexts : access'[d] = IF d = h THEN "write" ELSE IF d = c THEN "none" ELSE access[d]
  BY <1>1, <1>3 DEF IInv
<1>5. QueuesInv'
  <2>1. \A d \in Sleepers(rwl_read_sleep_queue) : d \in Contexts /\ d # h
    BY <1>1, SleepersCount DEF IInv, QueuesInv
  <2>2. \A d \in Sleepers(rwl_write_sleep_queue) : d \in Contexts
    BY SleepersCount DEF IInv, QueuesInv
  <2> QED
    BY <1>1, <1>4, <2>1, <2>2 DEF IInv, QueuesInv
<1> QED
  BY <1>1, <1>2, <1>3, <1>5 DEF h

\* The last reader out hands over to the first writer.
LEMMA UnlockReadIInv ==
  ASSUME RWLockAssumption, IInv, NEW c \in Contexts, UnlockRead(c)
  PROVE  IInv'
<1> USE DEF IInv
<1>1. access[c] = "read" /\ c \in Readers /\ Writers = {}
  BY DEF UnlockRead, Readers, Writers, WritersAlone
<1>2. IsFiniteSet(Readers) /\ Readers \subseteq Contexts
  BY ReadersFinite DEF Readers
<1>3. CASE rwl_readers = 1 /\ HandOver(c) /\ rwl_writers' = 1
  <2> DEFINE h == Head(rwl_write_sleep_queue)
  <2>1. QueuesInv' /\ h \in Contexts \ {c} /\ access' = [access EXCEPT ![c] = "none", ![h] = "write"]
    BY <1>1, <1>3, HandOverQueues DEF UnlockRead
  <2> HIDE DEF h
  <2>2. Readers = {c}
    <3>1. Cardinality(Readers) = 1
      BY <1>3 DEF CountsInv
    <3>2. PICK x : Readers = {x}
      BY <1>2, <3>1, FS_Singleton, Zenon
    <3> QED
      BY <1>1, <3>2
  <2>3. \A d \in Contexts : access'[d] = IF d = h THEN "write" ELSE "none"
    BY <1>1, <2>1, <2>2 DEF Readers, Writers
  <2>4. access' \in [Contexts -> {"none", "read", "write"}] /\ WritersAlone'
    BY <2>1, <2>3 DEF WritersAlone
  <2>5. Readers' = {} /\ rwl_readers' = 0
    BY <1>3, <2>3 DEF Readers, UnlockRead
  <2>6. CountsInv'
    BY <1>3, <2>5, FS_EmptySet DEF CountsInv
  <2> QED
    BY <2>1, <2>4, <2>6
<1>4. CASE /\ rwl_writers' = IF rwl_readers = 1 THEN 0 ELSE rwl_writers
           /\ access' = [access EXCEPT ![c] = "none"]
           /\ UNCHANGED rwl_write_sleep_queue
  <2>1. access' \in [Contexts -> {"none", "read", "write"}] /\ WritersAlone' /\ Writers' = {}
    BY <1>1, <1>4 DEF WritersAlone, Writers
  <2>2. Readers' = Readers \ {c}
    BY <1>4 DEF Readers
  <2>3. Cardinality(Readers') = Cardinality(Readers) - 1
    BY <1>1, <1>2, <2>2, FS_RemoveElement
  <2>4. rwl_readers' = rwl_readers - 1 /\ rwl_readers # 0
    BY DEF UnlockRead
  <2>5. CountsInv'
    BY <1>4, <2>1, <2>3, <2>4 DEF CountsInv
  <2>6. QueuesInv'
    <3>1. \A d \in Sleepers(rwl_read_sleep_queue) \cup Sleepers(rwl_write_sleep_queue) : d \in Contexts
      BY SleepersCount DEF QueuesInv
    <3> QED
      BY <1>4, <3>1 DEF QueuesInv, UnlockRead
  <2> QED
    BY <2>1, <2>5, <2>6
<1> QED
  BY <1>3, <1>4 DEF UnlockRead

\* The writer hands over to the next one, or to all the readers that wait.
LEMMA UnlockWriteIInv ==
  ASSUME RWLockAssumption, IInv, NEW c \in Contexts, UnlockWrite(c)
  PROVE  IInv'
<1> USE DEF IInv
<1>1. access[c] = "write" /\ rwl_writers' = rwl_writers /\ rwl_writers # 0
  BY DEF UnlockWrite, WritersLeft, CountsInv, Writers
<1>2. \A d \in Contexts : d # c => access[d] = "none"
  BY <1>1 DEF WritersAlone
<1>3. CASE HandOver(c) /\ UNCHANGED <<rwl_readers, rwl_read_sleep_queue>>
  <2> DEFINE h == Head(rwl_write_sleep_queue)
  <2>1. QueuesInv' /\ h \in Contexts \ {c} /\ access' = [access EXCEPT ![c] = "none", ![h] = "write"]
    BY <1>1, <1>3, HandOverQueues
  <2> HIDE DEF h
  <2>2. \A d \in Contexts : access'[d] = IF d = h THEN "write" ELSE "none"
    BY <1>2, <2>1
  <2>3. access' \in [Contexts -> {"none", "read", "write"}] /\ WritersAlone'
    BY <2>1, <2>2 DEF WritersAlone
  <2>4. Readers' = {} /\ Readers = {}
    BY <1>1, <1>2, <2>2 DEF Readers
  <2>5. CountsInv'
    BY <1>1, <1>3, <2>4 DEF CountsInv
  <2> QED
    BY <2>1, <2>3, <2>5
<1>4. CASE /\ access' = [d \in Contexts |-> IF On(rwl_read_sleep_queue, d) THEN "read"
                                            ELSE IF d = c THEN "none" ELSE access[d]]
           /\ rwl_read_sleep_queue' = <<>>
           /\ rwl_readers' = ReadersWoken
           /\ UNCHANGED rwl_write_sleep_queue
  <2>1. \A d \in Contexts :
          access'[d] = IF d \in Sleepers(rwl_read_sleep_queue) THEN "read" ELSE "none"
    BY <1>2, <1>4, OnSleepers
  <2>2. access' \in [Contexts -> {"none", "read", "write"}] /\ WritersAlone' /\ Writers' = {}
    BY <1>4, <2>1 DEF WritersAlone, Writers
  <2>3. /\ Sleepers(rwl_read_sleep_queue) \subseteq Contexts
        /\ Cardinality(Sleepers(rwl_read_sleep_queue)) = Len(rwl_read_sleep_queue)
    BY SleepersCount DEF QueuesInv
  <2>4. Readers' = Sleepers(rwl_read_sleep_queue)
    BY <2>1, <2>3 DEF Readers
  <2>5. Len(rwl_read_sleep_queue) \in Nat /\ Len(rwl_read_sleep_queue) < 256
    BY <2>3, ReadersFinite
  <2>6. rwl_readers' = Len(rwl_read_sleep_queue)
    BY <1>4, <2>5 DEF ReadersWoken
  <2>7. CountsInv'
    BY <1>1, <2>2, <2>3, <2>4, <2>5, <2>6 DEF CountsInv
  <2>8. QueuesInv'
    <3>1. OnceIn(<<>>, Contexts) /\ Sleepers(<<>>) = {}
      BY EmptySeq DEF OnceIn, Sleepers
    <3>2. \A d \in Sleepers(rwl_write_sleep_queue) :
            d \in Contexts /\ d \notin Sleepers(rwl_read_sleep_queue)
      BY SleepersCount DEF QueuesInv
    <3> QED
      BY <1>4, <2>1, <3>1, <3>2 DEF QueuesInv
  <2> QED
    BY <2>2, <2>7, <2>8
<1> QED
  BY <1>3, <1>4 DEF UnlockWrite

\* rwlock_interrupt() takes a sleeper out and gives it nothing.
LEMMA InterruptIInv ==
  ASSUME RWLockAssumption, IInv, NEW c \in Contexts, Interrupt(c)
  PROVE  IInv'
<1> USE DEF IInv
<1>1. UNCHANGED <<rwl_readers, rwl_writers, access>>
  BY DEF Interrupt
<1>2. CountsInv' /\ WritersAlone'
  BY <1>1 DEF CountsInv, WritersAlone, Readers, Writers
<1>3. CASE \E i \in 1 .. Len(rwl_write_sleep_queue) :
             /\ rwl_write_sleep_queue' = UnlinkAt(rwl_write_sleep_queue, i)
             /\ UNCHANGED rwl_read_sleep_queue
  <2>1. /\ OnceIn(rwl_write_sleep_queue', Contexts)
        /\ Sleepers(rwl_write_sleep_queue') \subseteq Sleepers(rwl_write_sleep_queue)
        /\ ByUrgency(rwl_write_sleep_queue', Pri)
    BY <1>3, UnlinkOnce DEF QueuesInv
  <2> QED
    BY <1>1, <1>2, <1>3, <2>1 DEF QueuesInv
<1>4. CASE \E i \in 1 .. Len(rwl_read_sleep_queue) :
             /\ rwl_read_sleep_queue' = UnlinkAt(rwl_read_sleep_queue, i)
             /\ UNCHANGED rwl_write_sleep_queue
  <2>1. /\ OnceIn(rwl_read_sleep_queue', Contexts)
        /\ Sleepers(rwl_read_sleep_queue') \subseteq Sleepers(rwl_read_sleep_queue)
    BY <1>4, UnlinkOnce DEF QueuesInv
  <2> QED
    BY <1>1, <1>2, <1>4, <2>1 DEF QueuesInv
<1> QED
  BY <1>3, <1>4 DEF Interrupt

\* Every call keeps the invariant.
LEMMA NextIInv ==
  ASSUME RWLockAssumption, IInv, [Next]_vars
  PROVE  IInv'
<1>1. CASE UNCHANGED vars
  BY <1>1 DEF vars, IInv, WritersAlone, CountsInv, QueuesInv, Readers, Writers
<1>2. ASSUME NEW c \in Contexts,
             LockRead(c) \/ LockWrite(c) \/ UnlockRead(c) \/ UnlockWrite(c) \/ Interrupt(c)
      PROVE  IInv'
  BY <1>2, LockReadIInv, LockWriteIInv, UnlockReadIInv, UnlockWriteIInv, InterruptIInv, Zenon
<1> QED
  BY <1>1, <1>2 DEF Next

\* The inductive invariant: exact readers, a writers' count that is never too low
\* and queues without duplicates, through every hand-over.
THEOREM RWLockInvariant ==
  ASSUME RWLockAssumption
  PROVE  Spec => []IInv
<1>1. Init => IInv
  BY InitIInv
<1>2. IInv /\ [Next]_vars => IInv'
  BY NextIInv
<1> QED
  BY <1>1, <1>2, PTL DEF Spec

\* A writer has the reader/writer lock to itself, for any contexts and priorities and
\* although rwlock_unlock_write() never resets rwl_writers.
THEOREM WritersExclude ==
  ASSUME RWLockAssumption
  PROVE  Spec => []WritersAlone
<1>1. IInv => WritersAlone
  BY DEF IInv
<1> QED
  BY <1>1, RWLockInvariant, PTL

\* rwl_readers counts those who were told that they may read, and a context sleeps
\* in one queue at a time, once: the comment in rwlock_interrupt() relies on it.
THEOREM ReadersExact ==
  ASSUME RWLockAssumption
  PROVE  Spec => [](ReadersCounted /\ QueuedOnce)
<1>1. IInv => ReadersCounted
  BY DEF IInv, CountsInv, ReadersCounted
<1>2. ASSUME IInv
      PROVE  QueuedOnce
  <2>1. \A c \in Contexts : ~(On(rwl_read_sleep_queue, c) /\ On(rwl_write_sleep_queue, c))
    BY <1>2, OnSleepers DEF IInv, QueuesInv
  <2>2. ASSUME NEW q \in {rwl_read_sleep_queue, rwl_write_sleep_queue}
        PROVE  /\ \A i \in 1 .. Len(q) : access[q[i]] = "none"
               /\ \A i, j \in 1 .. Len(q) : q[i] = q[j] => i = j
    BY <1>2, <2>2 DEF IInv, QueuesInv, OnceIn, Sleepers
  <2> QED
    BY <2>1, <2>2 DEF QueuedOnce
<1> QED
  BY <1>1, <1>2, RWLockInvariant, PTL

\* No call gives read access to anybody while a writer waits.
THEOREM ReadersWait ==
  ASSUME RWLockAssumption
  PROVE  Spec => WritersFirst
<1> DEFINE A == \A c \in Contexts :
                  access'[c] = "read" /\ access[c] # "read" => rwl_write_sleep_queue = <<>>
<1>1. ASSUME IInv, Next
      PROVE  A
  <2> SUFFICES ASSUME NEW d \in Contexts, access'[d] = "read", access[d] # "read"
               PROVE  rwl_write_sleep_queue = <<>>
    OBVIOUS
  <2>1. access \in [Contexts -> {"none", "read", "write"}]
    BY <1>1 DEF IInv
  <2>2. PICK c \in Contexts :
          LockRead(c) \/ LockWrite(c) \/ UnlockRead(c) \/ UnlockWrite(c) \/ Interrupt(c)
    BY <1>1 DEF Next
  <2>3. ~HandOver(c)
    BY <2>1, <1>1, HandOverQueues DEF HandOver
  <2> QED
    BY <2>1, <2>2, <2>3 DEF LockRead, LockWrite, UnlockRead, UnlockWrite, Interrupt, MayRead
<1>2. IInv /\ [Next]_vars => [A]_vars
  BY <1>1
<1> QED
  BY <1>2, RWLockInvariant, PTL DEF Spec, WritersFirst

\* A sleeping writer is woken with access only before every less urgent one.
THEOREM UrgentWriters ==
  ASSUME RWLockAssumption
  PROVE  Spec => UrgentWritersFirst
<1> DEFINE A == \A c, d \in Contexts :
                  /\ On(rwl_write_sleep_queue, c) /\ access'[c] = "write"
                  /\ On(rwl_write_sleep_queue, d)
                  => Pri[c] <= Pri[d]
<1>1. ASSUME IInv, Next
      PROVE  A
  <2> SUFFICES ASSUME NEW c \in Contexts, NEW d \in Contexts,
                      c \in Sleepers(rwl_write_sleep_queue), access'[c] = "write",
                      d \in Sleepers(rwl_write_sleep_queue)
               PROVE  Pri[c] <= Pri[d]
    BY OnSleepers
  <2>1. access \in [Contexts -> {"none", "read", "write"}] /\ access[c] = "none"
    BY <1>1 DEF IInv, QueuesInv
  <2>2. PICK e \in Contexts :
          LockRead(e) \/ LockWrite(e) \/ UnlockRead(e) \/ UnlockWrite(e) \/ Interrupt(e)
    BY <1>1 DEF Next
  <2>3. CASE HandOver(e)
    <3>1. Pri \in [Contexts -> Int]
      BY DEF RWLockAssumption
    <3>2. c = Head(rwl_write_sleep_queue)
      BY <2>1, <2>3 DEF HandOver
    <3> QED
      BY <1>1, <3>1, <3>2, HeadMostUrgent DEF IInv, QueuesInv
  <2>4. CASE ~HandOver(e)
    BY <2>1, <2>2, <2>4, OnSleepers
       DEF LockRead, LockWrite, UnlockRead, UnlockWrite, Interrupt, Free
  <2> QED
    BY <2>3, <2>4
<1>2. IInv /\ [Next]_vars => [A]_vars
  BY <1>1
<1> QED
  BY <1>2, RWLockInvariant, PTL DEF Spec, UrgentWritersFirst

=============================================================================
