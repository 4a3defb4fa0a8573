------------------------------- MODULE Netbuf -------------------------------
(***************************************************************************)
(* netbuf.c and membuf.c: reference counted buffers that the layers of     *)
(* several threads share.  A netbuf is a membuf whose free callback gives  *)
(* back one membuf per layer, one call after another with no lock held.    *)
(* Threads allocate a netbuf, give a layer its membuf, clone it, hand a    *)
(* reference to another thread (the send queues of the drivers do that)    *)
(* and drop references, in any interleaving.  heap_alloc() hands out freed *)
(* memory again, here the free identifier that comes first.                *)
(***************************************************************************)
EXTENDS Integers, FiniteSets, FiniteSetsExt

CONSTANTS
  Threads,       \* the threads that use buffers
  Layers,        \* the layers of a netbuf that have a membuf
  MaxBuf,        \* bound: membufs at a time, netbufs and layers together
  MaxRefs        \* bound: references that a thread holds to one netbuf

VARIABLES
  mb_refs,       \* mb_refs of each membuf, 0 when it is free
  layer,         \* the netbufs, each with the membuf (0: NULL) of each layer
  held,          \* how many references each thread holds to each netbuf
  freeing        \* the netbuf a thread frees and the layers it has still to drop

vars == <<mb_refs, layer, held, freeing>>

Bufs == 1..MaxBuf

Nothing == [nb |-> 0, todo |-> {}]

Netbufs == DOMAIN layer

\* The memory that heap_alloc() may hand out: freed, and the thread that freed it
\* has left membuf_deref().
Free == {b \in Bufs : mb_refs[b] = 0 /\ b \notin Netbufs}

Idle(t) == freeing[t] = Nothing

\* Thread t takes n references to nb.
Hold(t, nb, n) == [held EXCEPT ![t][nb] = @ + n]

-----------------------------------------------------------------------------

membuf_alloc(refs, b) == [refs EXCEPT ![b] = 1]

netbuf_alloc(t) ==
  /\ Idle(t) /\ Free # {}
  /\ LET nb == Min(Free)
     IN  /\ mb_refs' = membuf_alloc(mb_refs, nb)
         /\ layer' = [n \in Netbufs \cup {nb} |->
                        IF n = nb THEN [l \in Layers |-> 0] ELSE layer[n]]
         /\ held' = Hold(t, nb, 1)
  /\ UNCHANGED freeing

\* A layer builds its part of a netbuf.  It does not look whether there is one
\* already, whose membuf would be lost; its callers have none: what TCP keeps for
\* a retransmission is cloned before IP adds its layer.
AddLayer(t, nb, l) ==
  /\ Idle(t) /\ Free # {}
  /\ held[t][nb] > 0 /\ layer[nb][l] = 0
  /\ mb_refs' = membuf_alloc(mb_refs, Min(Free))
  /\ layer' = [layer EXCEPT ![nb][l] = Min(Free)]
  /\ UNCHANGED <<held, freeing>>

membuf_ref(refs, bs) == [b \in Bufs |-> IF b \in bs THEN refs[b] + 1 ELSE refs[b]]

\* netbuf_lock keeps other clones out, and the caller's reference the last deref.
netbuf_clone(t, nb) ==
  /\ Idle(t) /\ Free # {}
  /\ held[t][nb] > 0
  /\ LET new == Min(Free)
         shared == {layer[nb][l] : l \in Layers} \ {0}
     IN  /\ mb_refs' = membuf_ref(membuf_alloc(mb_refs, new), shared)
         /\ layer' = [n \in Netbufs \cup {new} |-> IF n = new THEN layer[nb] ELSE layer[n]]
         /\ held' = Hold(t, new, 1)
  /\ UNCHANGED freeing

\* Thread t takes a reference for thread u, as the drivers' send queues do.
netbuf_ref(t, u, nb) ==
  /\ Idle(t) /\ held[t][nb] > 0 /\ held[u][nb] < MaxRefs
  /\ mb_refs' = membuf_ref(mb_refs, {nb})
  /\ held' = Hold(u, nb, 1)
  /\ UNCHANGED <<layer, freeing>>

\* A slip: the count is read again after the lock was given up, so that every
\* thread that dropped a reference meanwhile frees the netbuf.
MutNetbufDeref(t, nb) ==
  /\ Idle(t) /\ held[t][nb] > 0
  /\ mb_refs' = [mb_refs EXCEPT ![nb] = @ - 1]
  /\ held' = Hold(t, nb, -1)
  /\ freeing' = IF mb_refs[nb] <= 2 THEN [freeing EXCEPT ![t] = [nb |-> nb, todo |-> Layers]]
                ELSE freeing
  /\ UNCHANGED layer

\* netbuf_deref(): membuf_deref() up to the point where it gives up membuf_lock.
netbuf_deref(t, nb) ==
  /\ Idle(t) /\ held[t][nb] > 0
  /\ mb_refs' = [mb_refs EXCEPT ![nb] = @ - 1]
  /\ held' = Hold(t, nb, -1)
  /\ freeing' = IF mb_refs[nb] = 1 THEN [freeing EXCEPT ![t] = [nb |-> nb, todo |-> Layers]]
                ELSE freeing
  /\ UNCHANGED layer

\* A step of the free callback: the reference to the membuf of one layer, which
\* has no callback of its own, so its memory is free with the last of them.
__netbuf_free(t, l) ==
  /\ l \in freeing[t].todo
  /\ LET b == layer[freeing[t].nb][l]
     IN  mb_refs' = IF b = 0 THEN mb_refs ELSE [mb_refs EXCEPT ![b] = @ - 1]
  /\ freeing' = [freeing EXCEPT ![t].todo = @ \ {l}]
  /\ UNCHANGED <<layer, held>>

\* The end of membuf_deref(): heap_free() after the callback.
HeapFree(t) ==
  /\ ~ Idle(t) /\ freeing[t].todo = {}
  /\ layer' = [n \in Netbufs \ {freeing[t].nb} |-> layer[n]]
  /\ freeing' = [freeing EXCEPT ![t] = Nothing]
  /\ UNCHANGED <<mb_refs, held>>

Init ==
  /\ mb_refs = [b \in Bufs |-> 0]
  /\ layer = [n \in {} |-> 0]
  /\ held = [t \in Threads |-> [b \in Bufs |-> 0]]
  /\ freeing = [t \in Threads |-> Nothing]

Next ==
  \E t \in Threads :
    \/ netbuf_alloc(t)
    \/ \E nb \in Netbufs :
         \/ \E l \in Layers : AddLayer(t, nb, l)
         \/ netbuf_clone(t, nb)
         \/ \E u \in Threads : netbuf_ref(t, u, nb)
         \/ netbuf_deref(t, nb)
    \/ \E l \in Layers : __netbuf_free(t, l)
    \/ HeapFree(t)

Spec == Init /\ [][Next]_vars

-----------------------------------------------------------------------------
(***************************************************************************)
(* Properties                                                              *)
(***************************************************************************)

\* The netbufs whose layer l is membuf b and has not been given back.
Sharers(b) ==
  {<<n, l>> \in Netbufs \X Layers :
     /\ layer[n][l] = b
     /\ \A t \in Threads : freeing[t].nb = n => l \in freeing[t].todo}

\* mb_refs counts exactly the references there are: a netbuf has those that
\* threads hold, a layer's membuf one for each netbuf that shares it.  So
\* membuf_deref() frees a buffer with the last reference, by one thread only, and
\* nobody holds freed memory or leaks it, not between the last deref and
\* heap_free() either.
RefsExact ==
  /\ \A b \in Bufs \ Netbufs : mb_refs[b] = Cardinality(Sharers(b))
  /\ \A n \in Netbufs :
       /\ mb_refs[n] = MapThenSumSet(LAMBDA t : held[t][n], Threads)
       /\ mb_refs[n] = 0 => Cardinality({t \in Threads : freeing[t].nb = n}) = 1

=============================================================================
