--------------------------- MODULE OneshotProofs ---------------------------
(***************************************************************************)
(* One-shot timers, for any number of timers, delays and missed ticks:     *)
(* their references are conserved, none is early, and a callback is made   *)
(* only for a timer that has an owner and is due.                          *)
(***************************************************************************)
EXTENDS Oneshot, SleepQueues

Attached == Sleepers(oneshot_list)

\* One reference for the owner and one for the list.
References(t) ==
  CASE t \in owned /\ t \in Attached -> 2
    [] t \in owned /\ t \notin Attached -> 1
    [] t \notin owned /\ t \in Attached -> 1
    [] OTHER -> 0

\* The list, and the ticks of the timers on it.
ListInv ==
  /\ OnceIn(oneshot_list, Timers)
  /\ os_ticks_left \in [Timers -> Nat]
  /\ due \in [Timers -> Nat]
  /\ \A t \in Attached : os_ticks_left[t] >= due[t]

RefsInv ==
  /\ mb_refs \in [Timers -> Nat]
  /\ owned \subseteq Timers
  /\ \A t \in Timers : mb_refs[t] = References(t)

IInv == ListInv /\ RefsInv

-----------------------------------------------------------------------------

\* A timer has one place in the list at most.
LEMMA OnePlace ==
  ASSUME NEW q, OnceIn(q, Timers), NEW t
  PROVE  Cardinality({i \in 1 .. Len(q) : q[i] = t}) = IF t \in Sleepers(q) THEN 1 ELSE 0
<1>1. CASE t \in Sleepers(q)
  <2>1. PICK i \in 1 .. Len(q) : q[i] = t
    BY <1>1 DEF Sleepers
  <2>2. {j \in 1 .. Len(q) : q[j] = t} = {i}
    BY <2>1 DEF OnceIn
  <2> QED
    BY <1>1, <2>2, FS_Singleton
<1>2. CASE t \notin Sleepers(q)
  <2>1. {j \in 1 .. Len(q) : q[j] = t} = {}
    BY <1>2 DEF Sleepers
  <2> QED
    BY <1>2, <2>1, FS_EmptySet
<1> QED
  BY <1>1, <1>2

\* The entry at which the walk of oneshot_tick() ends is the first expired one.
LEMMA WalkedFirst ==
  ASSUME NEW ticks \in Nat, OnceIn(oneshot_list, Timers), Expired(ticks) # {}
  PROVE  /\ Walked(ticks) \in Nat /\ Walked(ticks) + 1 \in 1 .. Len(oneshot_list)
         /\ Walked(ticks) + 1 \in Expired(ticks)
         /\ \A i \in 1 .. Walked(ticks) : i \notin Expired(ticks)
<1>1. Len(oneshot_list) \in Nat /\ Expired(ticks) \subseteq 1 .. Len(oneshot_list)
  BY LenProperties DEF OnceIn, Expired
<1>2. Expired(ticks) \in SUBSET Nat
  BY <1>1
<1>3. \E i \in Expired(ticks) : \A j \in Expired(ticks) : i <= j
  BY <1>2, LeastNat
<1> DEFINE m == CHOOSE i \in Expired(ticks) : \A j \in Expired(ticks) : i <= j
<1>4. m \in Expired(ticks) /\ \A j \in Expired(ticks) : m <= j
  BY <1>3, Zenon
<1>5. Walked(ticks) = m - 1
  BY Zenon DEF Walked
<1> HIDE DEF m
<1> QED
  BY <1>1, <1>4, <1>5

\* The list starts empty.
LEMMA InitIInv ==
  ASSUME Init
  PROVE  IInv
<1>1. OnceIn(<<>>, Timers) /\ Sleepers(<<>>) = {}
  BY EmptySeq DEF OnceIn, Sleepers
<1>2. ListInv
  BY <1>1 DEF Init, ListInv, Attached
<1>3. RefsInv
  BY <1>1 DEF Init, RefsInv, References, Attached
<1> QED
  BY <1>2, <1>3 DEF IInv

\* oneshot_alloc() makes one reference, the owner's.
LEMMA AllocIInv ==
  ASSUME IInv, NEW t \in Timers, OneshotAlloc(t)
  PROVE  IInv'
<1> USE DEF IInv, OneshotAlloc
<1>1. t \notin owned /\ t \notin Attached
  BY DEF RefsInv, References
<1>2. Attached' = Attached
  BY DEF Attached
<1>3. ListInv'
  BY <1>1, <1>2 DEF ListInv
<1>4. RefsInv'
  BY <1>1, <1>2 DEF RefsInv, References
<1> QED
  BY <1>3, <1>4

\* oneshot_attach() links a timer that is not in the list and adds its reference.
LEMMA AttachIInv ==
  ASSUME OneshotAssumption, IInv, NEW t \in Timers, NEW delay \in Delays, OneshotAttach(t, delay)
  PROVE  IInv'
<1> USE DEF IInv, OneshotAttach
<1>1. t \in owned /\ t \notin Attached /\ delay \in Nat
  BY DEF Listed, Attached, Sleepers, OneshotAssumption
<1>2. 1 \in 1 .. Len(oneshot_list) + 1
  BY LenProperties DEF ListInv, OnceIn
<1>3. OnceIn(oneshot_list', Timers) /\ Attached' = Attached \cup {t}
  BY <1>1, <1>2, LinkOnce DEF ListInv, Attached
<1>4. \A x \in Attached : x \in Timers
  BY SleepersCount DEF ListInv, Attached
<1>5. ListInv'
  BY <1>1, <1>3, <1>4 DEF ListInv
<1>6. RefsInv'
  BY <1>1, <1>3 DEF RefsInv, References
<1> QED
  BY <1>5, <1>6

\* oneshot_detach() takes the list's reference with the timer.
LEMMA DetachIInv ==
  ASSUME IInv, NEW t \in Timers, OneshotDetach(t)
  PROVE  IInv'
<1> USE DEF IInv, OneshotDetach
<1>1. PICK i \in 1 .. Len(oneshot_list) :
        oneshot_list[i] = t /\ oneshot_list' = UnlinkAt(oneshot_list, i)
  OBVIOUS
<1>2. t \in owned /\ t \in Attached
  BY <1>1 DEF Attached, Sleepers
<1>3. OnceIn(oneshot_list', Timers) /\ Attached' = Attached \ {t}
  BY <1>1, UnlinkOnce DEF ListInv, Attached
<1>4. ListInv'
  BY <1>3 DEF ListInv
<1>5. RefsInv'
  BY <1>2, <1>3 DEF RefsInv, References
<1> QED
  BY <1>4, <1>5

\* The owner gives up its reference only.
LEMMA ReleaseIInv ==
  ASSUME IInv, NEW t \in Timers, OneshotRelease(t)
  PROVE  IInv'
<1> USE DEF IInv, OneshotRelease
<1>1. Attached' = Attached
  BY DEF Attached
<1>2. ListInv'
  BY <1>1 DEF ListInv
<1>3. RefsInv'
  BY <1>1 DEF RefsInv, References
<1> QED
  BY <1>2, <1>3

\* oneshot_tick(): what the walk leaves, and whom it is about to call.
LEMMA TickIInv ==
  ASSUME OneshotAssumption, IInv, NEW ticks \in Ticks, OneshotTick(ticks)
  PROVE  /\ IInv'
         /\ calling' # calling => calling' \in owned \cup {NoTimer}
         /\ calling' # calling /\ calling' # NoTimer => due'[calling'] = 0
<1> DEFINE n == Walked(ticks)
<1>1. ticks \in Nat /\ ticks # 0 /\ OnceIn(oneshot_list, Timers) /\ Len(oneshot_list) \in Nat
  BY LenProperties DEF OneshotAssumption, IInv, ListInv, OnceIn
<1>2. \A i \in 1 .. Len(oneshot_list) : oneshot_list[i] \in Timers /\ oneshot_list[i] \in Attached
  BY <1>1, ElementOfSeq DEF OnceIn, Attached, Sleepers
<1>3. n \in Nat /\ n <= Len(oneshot_list) /\ \A i \in 1 .. n : i \notin Expired(ticks)
  <2>1. CASE Expired(ticks) = {}
    BY <1>1, <2>1 DEF Walked
  <2>2. CASE Expired(ticks) # {}
    BY <1>1, <2>2, WalkedFirst
  <2> QED
    BY <2>1, <2>2
<1> HIDE DEF n
\* Those that were counted down had more than ticks left.
<1>4. \A t \in First(n) : t \in Timers /\ os_ticks_left[t] > ticks
  BY <1>1, <1>2, <1>3 DEF First, Expired, IInv, ListInv
<1>5. /\ os_ticks_left' = [t \in Timers |-> IF t \in First(n) THEN os_ticks_left[t] - ticks
                                                             ELSE os_ticks_left[t]]
      /\ due' = [t \in Timers |-> IF due[t] <= ticks THEN 0 ELSE due[t] - ticks]
      /\ UNCHANGED owned
  BY DEF OneshotTick, CountDown, Less, n
<1>6. os_ticks_left' \in [Timers -> Nat] /\ due' \in [Timers -> Nat]
  BY <1>1, <1>4, <1>5 DEF IInv, ListInv
<1>7. \A t \in Timers : os_ticks_left[t] >= due[t] => os_ticks_left'[t] >= due'[t]
  BY <1>1, <1>4, <1>5 DEF IInv, ListInv
<1>8. Attached \subseteq Timers
  BY <1>1, SleepersCount DEF Attached
<1>9. CASE Expired(ticks) = {}
  <2>1. UNCHANGED <<oneshot_list, mb_refs, calling>>
    BY <1>9 DEF OneshotTick
  <2>2. ListInv'
    BY <1>1, <1>6, <1>7, <1>8, <2>1 DEF IInv, ListInv, Attached
  <2>3. RefsInv'
    BY <1>5, <2>1 DEF IInv, RefsInv, References, Attached
  <2> QED
    BY <2>1, <2>2, <2>3 DEF IInv
<1>10. CASE Expired(ticks) # {}
  <2> DEFINE os == oneshot_list[n + 1]
  <2>1. n + 1 \in 1 .. Len(oneshot_list) /\ n + 1 \in Expired(ticks)
    BY <1>1, <1>10, WalkedFirst DEF n
  <2>2. /\ oneshot_list' = UnlinkAt(oneshot_list, n + 1)
        /\ mb_refs' = [mb_refs EXCEPT ![os] = @ - 1]
        /\ calling' = IF mb_refs[os] > 1 THEN os ELSE NoTimer
    BY <1>10 DEF OneshotTick, Callee, n
  <2>3. os \in Timers /\ os \in Attached /\ os_ticks_left[os] <= ticks
    BY <1>2, <2>1 DEF Expired
  <2>4. OnceIn(oneshot_list', Timers) /\ Attached' = Attached \ {os}
    BY <1>1, <2>1, <2>2, UnlinkOnce DEF Attached
  <2> HIDE DEF os
  <2>5. ListInv'
    BY <1>6, <1>7, <1>8, <2>4 DEF IInv, ListInv
  <2>6. RefsInv'
    BY <1>5, <2>2, <2>3, <2>4 DEF IInv, RefsInv, References
  <2>7. mb_refs[os] > 1 => os \in owned
    BY <2>3 DEF IInv, RefsInv, References
  <2>8. due'[os] = 0
    BY <1>1, <1>5, <2>3 DEF IInv, ListInv
  <2> QED
    BY <2>2, <2>5, <2>6, <2>7, <2>8 DEF IInv
<1> QED
  BY <1>9, <1>10

\* Every operation keeps the invariant and starts only callbacks that are wanted.
LEMMA NextIInv ==
  ASSUME OneshotAssumption, IInv, [Next]_vars
  PROVE  /\ IInv'
         /\ calling' # calling /\ calling' # NoTimer => calling' \in owned /\ due'[calling'] = 0
<1>1. CASE UNCHANGED vars
  BY <1>1 DEF vars, IInv, ListInv, RefsInv, References, Attached
<1>2. ASSUME NEW t \in Timers, OneshotAlloc(t) \/ OneshotDetach(t) \/ OneshotRelease(t)
      PROVE  IInv' /\ UNCHANGED calling
  <2>1. IInv'
    BY <1>2, AllocIInv, DetachIInv, ReleaseIInv
  <2> QED
    BY <1>2, <2>1 DEF OneshotAlloc, OneshotDetach, OneshotRelease
<1>3. ASSUME NEW t \in Timers, NEW delay \in Delays, OneshotAttach(t, delay)
      PROVE  IInv' /\ UNCHANGED calling
  BY <1>3, AttachIInv DEF OneshotAttach
<1>4. ASSUME NEW ticks \in Ticks, OneshotTick(ticks)
      PROVE  /\ IInv'
             /\ calling' # calling /\ calling' # NoTimer => calling' \in owned /\ due'[calling'] = 0
  BY <1>4, TickIInv
<1>5. CASE OneshotCallback
  BY <1>5 DEF OneshotCallback, IInv, ListInv, RefsInv, References, Attached
<1> QED
  BY <1>1, <1>2, <1>3, <1>4, <1>5 DEF Next

\* The inductive invariant: exact references, and ticks that never run ahead.
THEOREM OneshotInvariant ==
  ASSUME OneshotAssumption
  PROVE  Spec => []IInv
<1>1. Init => IInv
  BY InitIInv
<1>2. IInv /\ [Next]_vars => IInv'
  BY NextIInv
<1> QED
  BY <1>1, <1>2, PTL DEF Spec

\* A timer's memory goes back to the heap exactly when it is neither owned nor
\* attached, however attach, detach, release and oneshot_tick() interleave.
THEOREM ReferencesKept ==
  ASSUME OneshotAssumption
  PROVE  Spec => []RefsConserved
<1>1. ASSUME IInv
      PROVE  RefsConserved
  <2>1. \A t \in Timers :
          Cardinality({i \in 1 .. Len(oneshot_list) : oneshot_list[i] = t})
            = IF t \in Attached THEN 1 ELSE 0
    BY <1>1, OnePlace DEF IInv, ListInv, Attached
  <2> QED
    BY <1>1, <2>1 DEF IInv, RefsInv, References, RefsConserved
<1> QED
  BY <1>1, OneshotInvariant, PTL

\* No timer's count runs ahead of the ticks that have passed since oneshot_attach().
THEOREM TimersNotEarly ==
  ASSUME OneshotAssumption
  PROVE  Spec => []NeverEarly
<1>1. IInv => NeverEarly
  BY DEF IInv, ListInv, NeverEarly, Listed, Attached, Sleepers
<1> QED
  BY <1>1, OneshotInvariant, PTL

\* oneshot_tick() starts a callback only for a timer that has an owner and is due.
THEOREM CallbacksWanted ==
  ASSUME OneshotAssumption
  PROVE  Spec => CallsOwners
<1>1. IInv /\ [Next]_vars =>
        [calling' # calling /\ calling' # NoTimer => calling' \in owned /\ due'[calling'] = 0]_vars
  BY NextIInv
<1> QED
  BY <1>1, OneshotInvariant, PTL DEF Spec, CallsOwners

=============================================================================
