----------------------------- MODULE Allocator -----------------------------
(***************************************************************************)
(* What the heap promises: the memory handed out is memory it was given,   *)
(* in one piece, at least as long as asked for, and nobody else's.         *)
(***************************************************************************)
EXTENDS Integers, FiniteSets

CONSTANTS
  Regions,   \* the regions of memory, as records of addr and size
  Requests,  \* the sizes asked for
  Overhead   \* what the heap adds to each of them for itself

VARIABLES
  memory,    \* the addresses given to the heap
  inuse      \* what is handed out: the bytes and the size asked for

Span(r) == r.addr .. r.addr + r.size - 1

Available == memory \ UNION {b.bytes : b \in inuse}

Init == memory = {} /\ inuse = {}

Add(r) ==
  /\ Span(r) \cap memory = {}
  /\ memory' = memory \cup Span(r)
  /\ UNCHANGED inuse

\* Which piece is used, and how much more of it than was asked for, is open.
Alloc(n) ==
  /\ \E a \in Available, z \in Available :
       /\ a .. z \subseteq Available
       /\ z - a + 1 >= n + Overhead
       /\ inuse' = inuse \cup {[bytes |-> a .. z, asked |-> n]}
  /\ UNCHANGED memory

Free(b) ==
  /\ inuse' = inuse \ {b}
  /\ UNCHANGED memory

Next ==
  \/ \E r \in Regions : Add(r)
  \/ \E n \in Requests : Alloc(n)
  \/ \E b \in inuse : Free(b)

Spec == Init /\ [][Next]_<<memory, inuse>>

=============================================================================
