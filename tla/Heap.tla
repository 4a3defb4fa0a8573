-------------------------------- MODULE Heap --------------------------------
(***************************************************************************)
(* The heap: a list of holes in order of address, from which heap_alloc()  *)
(* takes the best fit and to which heap_free() returns blocks, merging     *)
(* them with their neighbours.  heap_lock makes each call one action.      *)
(***************************************************************************)
EXTENDS Integers, Sequences, FiniteSets, FiniteSetsExt, Lists

CONSTANTS
  Regions,    \* memory heap_add() is called with, as records of addr and size
  Requests,   \* the sizes asked for
  HoleSize,   \* sizeof(struct memory_hole), and of union memory_union
  BlockSize,  \* sizeof(struct memory_block)
  MagicSize   \* sizeof(fast_u16_t) as HEAP_DEBUG is on

\* What the constants have to satisfy.
HeapAssumption ==
  /\ HoleSize \in Nat /\ BlockSize \in Nat /\ MagicSize \in Nat
  /\ 0 < BlockSize /\ BlockSize < HoleSize
  /\ Requests \subseteq Nat
  /\ \A r \in Regions : r.addr \in Nat \ {0} /\ r.size \in Nat /\ r.size >= HoleSize + MagicSize
  /\ \A r, s \in Regions : r # s => r.addr + r.size <= s.addr \/ s.addr + s.size <= r.addr

VARIABLES
  holes,     \* the list from first_hole, as records of addr and size
  blocks,    \* the memory blocks handed out, with the size asked for
  free_ram,
  added      \* the regions added so far

vars == <<holes, blocks, free_ram, added>>

End(h) == h.addr + h.size

\* The first of the indices in s, n if there are none.
FirstOf(s, n) == IF s = {} THEN n ELSE Min(s)

-----------------------------------------------------------------------------
\* A slip: the magic number is forgotten.
MutRequired(size) == Max({size + BlockSize, HoleSize + MagicSize})

\* What a request takes: it must be able to become a hole again.
Required(size) == Max({size + BlockSize + MagicSize, HoleSize + MagicSize})

\* heap_alloc()'s scan: the smallest hole that is large enough, the first if
\* there are several.
BestFit(required) ==
  LET fits == {i \in 1 .. Len(holes) : holes[i].size >= required}
      best == {i \in fits : \A j \in fits : holes[i].size <= holes[j].size}
  IN  FirstOf(best, 0)

\* Whether what is left of a hole is worth a hole of its own.
Splits(left) == left > HoleSize + 1 + MagicSize

\* How much of a hole heap_alloc() uses.
Taken(use, required) == IF Splits(use.size - required) THEN required ELSE use.size

\* heap_alloc().  A request that no hole can satisfy gets NULL.
HeapAlloc(size) ==
  LET required == Required(size)
      i == BestFit(required)
      use == holes[i]
      left == use.size - required
      taken == Taken(use, required)
  IN  /\ i # 0
      /\ holes' = IF Splits(left)
                    THEN [holes EXCEPT ![i] = [addr |-> use.addr + required, size |-> left]]
                    ELSE UnlinkAt(holes, i)
      /\ blocks' = blocks \cup {[addr |-> use.addr, size |-> taken, asked |-> size]}
      /\ free_ram' = free_ram - taken
      /\ UNCHANGED added

\* A slip: only the hole below is looked at for merging.
MutFreed(mb) ==
  LET i == FirstOf({j \in 1 .. Len(holes) : End(holes[j]) = mb.addr \/ holes[j].addr > mb.addr},
                   Len(holes) + 1)
  IN  CASE i > Len(holes) -> Append(holes, mb)
        [] i <= Len(holes) /\ End(holes[i]) = mb.addr -> [holes EXCEPT ![i].size = @ + mb.size]
        [] OTHER -> LinkAt(holes, i, mb)

\* heap_free()'s walk: it stops at the hole that ends where the block starts or
\* else at the first hole above the block, and merges.
Freed(mb) ==
  LET i == FirstOf({j \in 1 .. Len(holes) : End(holes[j]) = mb.addr \/ holes[j].addr > mb.addr},
                   Len(holes) + 1)
      mh == holes[i]
      grown == [mh EXCEPT !.size = @ + mb.size]
      joins == i < Len(holes) /\ End(grown) = holes[i + 1].addr
  IN  CASE i > Len(holes) -> Append(holes, mb)
        [] i <= Len(holes) /\ End(mh) = mb.addr ->
             IF joins
               THEN UnlinkAt([holes EXCEPT ![i].size = @ + mb.size + holes[i + 1].size], i + 1)
               ELSE [holes EXCEPT ![i] = grown]
        [] OTHER ->
             IF End(mb) = mh.addr
               THEN [holes EXCEPT ![i] = [addr |-> mb.addr, size |-> mb.size + mh.size]]
               ELSE LinkAt(holes, i, mb)

\* heap_free().
HeapFree(mb) ==
  /\ mb \in blocks
  /\ free_ram' = free_ram + mb.size
  /\ holes' = Freed([addr |-> mb.addr, size |-> mb.size])
  /\ blocks' = blocks \ {mb}
  /\ UNCHANGED added

\* heap_add() frees a block it has forged.
HeapAdd(r) ==
  /\ r \notin added
  /\ added' = added \cup {r}
  /\ free_ram' = free_ram + r.size
  /\ holes' = Freed(r)
  /\ UNCHANGED blocks

Init ==
  /\ holes = <<>>
  /\ blocks = {}
  /\ free_ram = 0
  /\ added = {}

Next ==
  \/ \E r \in Regions : HeapAdd(r)
  \/ \E size \in Requests : HeapAlloc(size)
  \/ \E mb \in blocks : HeapFree(mb)

Spec == Init /\ [][Next]_vars

-----------------------------------------------------------------------------
(* Properties *)

Least == HoleSize + MagicSize

Holes == {holes[i] : i \in 1 .. Len(holes)}

Bytes(c) == c.addr .. End(c) - 1

\* Type invariant: every hole and every block is large enough for a hole's
\* header and magic number, so heap_free() can always write them.
TypeOK ==
  /\ \A h \in Holes : h \in [addr : Nat, size : Nat] /\ h.size >= Least
  /\ \A b \in blocks : b \in [addr : Nat, size : Nat, asked : Requests] /\ b.size >= Least
  /\ free_ram \in Nat
  /\ added \subseteq Regions

\* "We still ensure that the list is ordered lowest-addressed-hole first", and
\* there is always a block between two holes: heap_free() leaves nothing
\* unmerged.
HolesApart == \A i \in 1 .. Len(holes) - 1 : End(holes[i]) < holes[i + 1].addr

\* No byte is lost and none is in two places, through every split and merge.
Partitioned ==
  /\ UNION {Bytes(c) : c \in Holes \cup blocks} = UNION {Bytes(r) : r \in added}
  /\ \A c, d \in Holes \cup blocks : c # d => Bytes(c) \cap Bytes(d) = {}

\* heap_get_free() tells the truth.
FreeRamExact == free_ram = MapThenSumSet(LAMBDA i : holes[i].size, 1 .. Len(holes))

\* The allocator that the heap implements: its memory is what heap_add() gave it, and
\* a block in use is the bytes from its header to its end.
Promise ==
  INSTANCE Allocator WITH
    Overhead <- BlockSize + MagicSize,
    memory <- UNION {Bytes(r) : r \in added},
    inuse <- {[bytes |-> Bytes(b), asked |-> b.asked] : b \in blocks}

\* heap_alloc(), heap_free() and heap_add() keep the promises of Allocator: what is
\* handed out is unused, in one piece and long enough for the request and its header.
Allocates == Promise!Spec

=============================================================================
