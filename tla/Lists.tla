------------------------------- MODULE Lists -------------------------------
(***************************************************************************)
(* The linked lists of the C code as sequences: where an entry goes in     *)
(* order of priority, linking it in and unlinking it.                      *)
(***************************************************************************)
EXTENDS Integers, Sequences

\* Link e in so that it becomes entry i.
LinkAt(q, i, e) == SubSeq(q, 1, i - 1) \o <<e>> \o SubSeq(q, i, Len(q))

\* Unlink entry i.
UnlinkAt(q, i) == SubSeq(q, 1, i - 1) \o SubSeq(q, i + 1, Len(q))

\* Where isr_context_ready() and context_wait_pri_queue() insert: before the
\* first entry that is less urgent than priority p.
AfterEquals(q, pri, p) ==
  CHOOSE i \in 1 .. Len(q) + 1 :
    /\ \A j \in 1 .. i - 1 : pri[q[j]] <= p
    /\ i <= Len(q) => pri[q[i]] > p

\* Where spinlock_unlock() puts a pre-empted context back: before the first
\* entry that is as urgent as p or less.
BeforeEquals(q, pri, p) ==
  CHOOSE i \in 1 .. Len(q) + 1 :
    /\ \A j \in 1 .. i - 1 : pri[q[j]] < p
    /\ i <= Len(q) => pri[q[i]] >= p

=============================================================================
