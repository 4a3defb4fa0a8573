------------------------------- MODULE RWLock -------------------------------
(***************************************************************************)
(* Reader/writer locks.  Every rwlock_*() function runs with the rwlock's  *)
(* spinlock held, which Context shows to be exclusive, so each one is a    *)
(* single action.  A context that is signalled while it sleeps in          *)
(* context_wait_queue() only has to return: it has the access from the     *)
(* moment it is taken off the sleep queue.                                 *)
(***************************************************************************)
EXTENDS Integers, Sequences, FiniteSets, Lists

CONSTANTS
  Contexts,     \* the contexts that use the lock
  Pri,          \* their priorities
  FirstWriters  \* what rwl_writers may hold before rwlock_init(), which
                \* leaves it alone: 0 for a lock in zeroed memory

\* What the constants have to satisfy.
RWLockAssumption ==
  /\ IsFiniteSet(Contexts)
  /\ Cardinality(Contexts) < 256
  /\ Pri \in [Contexts -> Nat]
  /\ FirstWriters \subseteq {n \in Nat : n < 256}

VARIABLES
  rwl_readers,           \* u8_t: contexts holding read access
  rwl_writers,           \* u8_t: contexts holding write access
  rwl_read_sleep_queue,
  rwl_write_sleep_queue,
  access                 \* "none", "read" or "write": what each context has
                         \* been told it holds

vars == <<rwl_readers, rwl_writers, rwl_read_sleep_queue, rwl_write_sleep_queue, access>>

On(q, c) == \E i \in 1 .. Len(q) : q[i] = c

\* c is running and neither holds nor waits for access.
Free(c) ==
  /\ access[c] = "none"
  /\ ~On(rwl_read_sleep_queue, c)
  /\ ~On(rwl_write_sleep_queue, c)

Readers == {c \in Contexts : access[c] = "read"}
Writers == {c \in Contexts : access[c] = "write"}

-----------------------------------------------------------------------------
\* A slip: a reader passes the writers that wait.
MutMayRead == rwl_writers = 0

\* Whether rwlock_lock_read() goes straight through.
MayRead == rwl_writers = 0 /\ rwl_write_sleep_queue = <<>>

\* rwlock_lock_read().
LockRead(c) ==
  /\ Free(c)
  /\ \/ /\ MayRead
        /\ rwl_readers' = (rwl_readers + 1) % 256
        /\ access' = [access EXCEPT ![c] = "read"]
        /\ UNCHANGED rwl_read_sleep_queue
     \/ /\ ~MayRead
        /\ rwl_read_sleep_queue' = LinkAt(rwl_read_sleep_queue, 1, c)
        /\ UNCHANGED <<rwl_readers, access>>
  /\ UNCHANGED <<rwl_writers, rwl_write_sleep_queue>>

\* A slip: readers do not keep a writer out.
MutMayWrite == rwl_writers = 0

\* Whether rwlock_lock_write() goes straight through.
MayWrite == rwl_writers = 0 /\ rwl_readers = 0

\* Where context_wait_pri_queue() puts the writer c.
Place(c) == AfterEquals(rwl_write_sleep_queue, Pri, Pri[c])

\* rwlock_lock_write().
LockWrite(c) ==
  /\ Free(c)
  /\ \/ /\ MayWrite
        /\ rwl_writers' = (rwl_writers + 1) % 256
        /\ access' = [access EXCEPT ![c] = "write"]
        /\ UNCHANGED rwl_write_sleep_queue
     \/ /\ ~MayWrite
        /\ rwl_write_sleep_queue' = LinkAt(rwl_write_sleep_queue, Place(c), c)
        /\ UNCHANGED <<rwl_writers, access>>
  /\ UNCHANGED <<rwl_readers, rwl_read_sleep_queue>>

\* context_signal_queue() on the writers' queue: c gives way to the first one.
HandOver(c) ==
  /\ rwl_write_sleep_queue # <<>>
  /\ access' = [access EXCEPT ![c] = "none", ![Head(rwl_write_sleep_queue)] = "write"]
  /\ rwl_write_sleep_queue' = Tail(rwl_write_sleep_queue)

\* rwlock_unlock_read(): the last reader out hands over to the first writer.
UnlockRead(c) ==
  LET last == rwl_readers = 1
  IN  /\ access[c] = "read"
      /\ rwl_readers # 0
      /\ rwl_readers' = rwl_readers - 1
      /\ \/ /\ last
            /\ HandOver(c)
            /\ rwl_writers' = 1
         \/ /\ ~last \/ rwl_write_sleep_queue = <<>>
            /\ rwl_writers' = IF last THEN 0 ELSE rwl_writers
            /\ access' = [access EXCEPT ![c] = "none"]
            /\ UNCHANGED rwl_write_sleep_queue
      /\ UNCHANGED rwl_read_sleep_queue

\* A slip: one writer fewer, even if another one has taken over.
MutWritersLeft == rwl_writers - 1

\* rwlock_unlock_write() never assigns rwl_writers.
WritersLeft == rwl_writers

\* A slip: the reader that was first in the queue is not counted.
MutReadersWoken == (Len(rwl_read_sleep_queue) - 1) % 256

\* What context_broadcast_queue() returns.
ReadersWoken == Len(rwl_read_sleep_queue) % 256

\* rwlock_unlock_write(): hand over to the next writer or else to all the
\* waiting readers.
UnlockWrite(c) ==
  /\ access[c] = "write"
  /\ rwl_writers' = WritersLeft
  /\ \/ /\ HandOver(c)
        /\ UNCHANGED <<rwl_readers, rwl_read_sleep_queue>>
     \/ /\ rwl_write_sleep_queue = <<>>
        /\ access' = [d \in Contexts |-> IF On(rwl_read_sleep_queue, d) THEN "read"
                                         ELSE IF d = c THEN "none" ELSE access[d]]
        /\ rwl_read_sleep_queue' = <<>>
        /\ rwl_readers' = ReadersWoken
        /\ UNCHANGED rwl_write_sleep_queue

\* rwlock_interrupt(): take a sleeper off the writers' queue, or else off the
\* readers'; its call returns CONTEXT_INTERRUPTED without access.
Interrupt(c) ==
  /\ \/ \E i \in 1 .. Len(rwl_write_sleep_queue) :
          /\ rwl_write_sleep_queue[i] = c
          /\ rwl_write_sleep_queue' = UnlinkAt(rwl_write_sleep_queue, i)
          /\ UNCHANGED rwl_read_sleep_queue
     \/ /\ ~On(rwl_write_sleep_queue, c)
        /\ \E i \in 1 .. Len(rwl_read_sleep_queue) :
             /\ rwl_read_sleep_queue[i] = c
             /\ rwl_read_sleep_queue' = UnlinkAt(rwl_read_sleep_queue, i)
        /\ UNCHANGED rwl_write_sleep_queue
  /\ UNCHANGED <<rwl_readers, rwl_writers, access>>

\* rwlock_init().
Init ==
  /\ rwl_read_sleep_queue = <<>>
  /\ rwl_write_sleep_queue = <<>>
  /\ rwl_readers = 0
  /\ rwl_writers \in FirstWriters
  /\ access = [c \in Contexts |-> "none"]

Next ==
  \E c \in Contexts :
    \/ LockRead(c)
    \/ LockWrite(c)
    \/ UnlockRead(c)
    \/ UnlockWrite(c)
    \/ Interrupt(c)

Spec == Init /\ [][Next]_vars

-----------------------------------------------------------------------------
(* Properties *)

\* Type invariant.
TypeOK ==
  /\ rwl_readers \in {n \in Nat : n < 256}
  /\ rwl_writers \in {n \in Nat : n < 256}
  /\ rwl_read_sleep_queue \in Seq(Contexts)
  /\ rwl_write_sleep_queue \in Seq(Contexts)
  /\ access \in [Contexts -> {"none", "read", "write"}]

\* A writer has the lock to itself, through every hand-over from reader to
\* writer, writer to writer and writer to readers.
WritersAlone ==
  \A c, d \in Contexts : access[c] = "write" /\ access[d] # "none" => c = d

\* rwl_readers counts the readers, those woken by rwlock_unlock_write()
\* included, so the last reader out is noticed.
ReadersCounted == rwl_readers = Cardinality(Readers)

\* A context is queued for one kind of access and only while it has none
\* ("our context can't be queued on both!").
QueuedOnce ==
  /\ \A c \in Contexts : ~(On(rwl_read_sleep_queue, c) /\ On(rwl_write_sleep_queue, c))
  /\ \A q \in {rwl_read_sleep_queue, rwl_write_sleep_queue} :
       /\ \A i \in 1 .. Len(q) : access[q[i]] = "none"
       /\ \A i, j \in 1 .. Len(q) : q[i] = q[j] => i = j

\* No context gets read access while a writer waits, so readers that keep
\* coming cannot starve a writer.
WritersFirst ==
  [][\A c \in Contexts : access'[c] = "read" /\ access[c] # "read" => rwl_write_sleep_queue = <<>>]_vars

\* A waiting writer is let in only before every less urgent one.
UrgentWritersFirst ==
  [][\A c, d \in Contexts :
       /\ On(rwl_write_sleep_queue, c) /\ access'[c] = "write"
       /\ On(rwl_write_sleep_queue, d)
       => Pri[c] <= Pri[d]]_vars

\* "For as long as no contexts try to gain write access ... any readers will
\* be granted immediate access": no reader sleeps unless a writer has or
\* wants the lock.
ReadersImmediate ==
  rwl_read_sleep_queue # <<>> => Writers # {} \/ rwl_write_sleep_queue # <<>>

=============================================================================
