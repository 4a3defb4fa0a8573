------------------------------ MODULE Oneshot ------------------------------
(***************************************************************************)
(* One-shot timers.  The timer thread counts the attached timers down in   *)
(* oneshot_tick() and calls back with oneshot_lock dropped; the threads    *)
(* that own timers allocate, attach, detach and release them.  What runs   *)
(* under oneshot_lock is one action.  Timers are reference counted: one    *)
(* reference for the owner, one for the list.                              *)
(***************************************************************************)
EXTENDS Integers, Sequences, FiniteSets, Lists

CONSTANTS
  Timers,   \* memory for timers
  Delays,   \* the delays timers are set to
  Ticks,    \* how many ticks one oneshot_tick() may have to account for
  NoTimer

\* What the constants have to satisfy.
OneshotAssumption ==
  /\ Delays \subseteq Nat \ {0}
  /\ Ticks \subseteq Nat \ {0}
  /\ NoTimer \notin Timers

VARIABLES
  oneshot_list,
  os_ticks_left,
  mb_refs,       \* 0 once the timer's memory is back on the heap
  calling,       \* the timer whose callback oneshot_tick() is about to make
  owned,         \* the timers whose owner still holds its reference
  due            \* how many ticks each attached timer really has left

vars == <<oneshot_list, os_ticks_left, mb_refs, calling, owned, due>>

Listed(t) == \E i \in 1 .. Len(oneshot_list) : oneshot_list[i] = t

\* The timers among the first n of the list.
First(n) == {oneshot_list[i] : i \in 1 .. n}

Less(a, b) == IF a <= b THEN 0 ELSE a - b

-----------------------------------------------------------------------------
\* oneshot_alloc().
OneshotAlloc(t) ==
  /\ mb_refs[t] = 0
  /\ mb_refs' = [mb_refs EXCEPT ![t] = 1]
  /\ os_ticks_left' = [os_ticks_left EXCEPT ![t] = 0]
  /\ owned' = owned \cup {t}
  /\ UNCHANGED <<oneshot_list, calling, due>>

\* A slip: the list takes no reference.
MutAttach(t, delay) ==
  /\ t \in owned
  /\ ~Listed(t)
  /\ os_ticks_left' = [os_ticks_left EXCEPT ![t] = delay]
  /\ due' = [due EXCEPT ![t] = delay]
  /\ oneshot_list' = LinkAt(oneshot_list, 1, t)
  /\ UNCHANGED <<mb_refs, calling, owned>>

\* The owner, or a callback, sets the delay and calls oneshot_attach().
OneshotAttach(t, delay) ==
  /\ t \in owned
  /\ ~Listed(t)
  /\ os_ticks_left' = [os_ticks_left EXCEPT ![t] = delay]
  /\ due' = [due EXCEPT ![t] = delay]
  /\ oneshot_list' = LinkAt(oneshot_list, 1, t)
  /\ mb_refs' = [mb_refs EXCEPT ![t] = @ + 1]
  /\ UNCHANGED <<calling, owned>>

\* oneshot_detach(), which does nothing to a timer that has already expired.
OneshotDetach(t) ==
  /\ t \in owned
  /\ \E i \in 1 .. Len(oneshot_list) :
       /\ oneshot_list[i] = t
       /\ oneshot_list' = UnlinkAt(oneshot_list, i)
  /\ mb_refs' = [mb_refs EXCEPT ![t] = @ - 1]
  /\ UNCHANGED <<os_ticks_left, calling, owned, due>>

\* oneshot_deref() by the owner, whether or not the timer is attached.
OneshotRelease(t) ==
  /\ t \in owned
  /\ owned' = owned \ {t}
  /\ mb_refs' = [mb_refs EXCEPT ![t] = @ - 1]
  /\ UNCHANGED <<oneshot_list, os_ticks_left, calling, due>>

\* The attached timers that have no more than ticks left.
Expired(ticks) == {i \in 1 .. Len(oneshot_list) : os_ticks_left[oneshot_list[i]] <= ticks}

\* How many timers oneshot_tick() counts down: taking an expired timer off the
\* list clears its os_next, and with that the walk along the list is over.
Walked(ticks) ==
  IF Expired(ticks) = {}
    THEN Len(oneshot_list)
    ELSE (CHOOSE i \in Expired(ticks) : \A j \in Expired(ticks) : i <= j) - 1

\* A slip: a tick too many is counted.
MutCountDown(n, ticks) ==
  [t \in Timers |-> IF t \in First(n) THEN os_ticks_left[t] - ticks - 1 ELSE os_ticks_left[t]]

\* The first n timers counted down.
CountDown(n, ticks) ==
  [t \in Timers |-> IF t \in First(n) THEN os_ticks_left[t] - ticks ELSE os_ticks_left[t]]

\* A slip: the callback is made whoever held the last reference.
MutCallee(os) == os

\* Whose callback oneshot_tick() makes after its oneshot_deref(): if the list
\* held the last reference the timer is freed and nobody is called.
Callee(os) == IF mb_refs[os] > 1 THEN os ELSE NoTimer

\* oneshot_tick() up to the callback.
OneshotTick(ticks) ==
  LET n == Walked(ticks)
  IN  /\ calling = NoTimer
      /\ os_ticks_left' = CountDown(n, ticks)
      /\ due' = [t \in Timers |-> Less(due[t], ticks)]
      /\ \/ /\ Expired(ticks) = {}
            /\ UNCHANGED <<oneshot_list, mb_refs, calling>>
         \/ LET os == oneshot_list[n + 1]
            IN  /\ Expired(ticks) # {}
                /\ oneshot_list' = UnlinkAt(oneshot_list, n + 1)
                /\ mb_refs' = [mb_refs EXCEPT ![os] = @ - 1]
                /\ calling' = Callee(os)
      /\ UNCHANGED owned

\* oneshot_tick(): the callback, made without oneshot_lock.
OneshotCallback ==
  /\ calling # NoTimer
  /\ calling' = NoTimer
  /\ UNCHANGED <<oneshot_list, os_ticks_left, mb_refs, owned, due>>

Init ==
  /\ oneshot_list = <<>>
  /\ os_ticks_left = [t \in Timers |-> 0]
  /\ mb_refs = [t \in Timers |-> 0]
  /\ calling = NoTimer
  /\ owned = {}
  /\ due = [t \in Timers |-> 0]

Next ==
  \/ \E t \in Timers : OneshotAlloc(t) \/ OneshotDetach(t) \/ OneshotRelease(t)
  \/ \E t \in Timers, delay \in Delays : OneshotAttach(t, delay)
  \/ \E ticks \in Ticks : OneshotTick(ticks)
  \/ OneshotCallback

Spec == Init /\ [][Next]_vars

-----------------------------------------------------------------------------
(* Properties *)

\* Type invariant.
TypeOK ==
  /\ oneshot_list \in Seq(Timers)
  /\ os_ticks_left \in [Timers -> Nat]
  /\ mb_refs \in [Timers -> 0 .. 2]
  /\ calling \in Timers \cup {NoTimer}
  /\ owned \subseteq Timers
  /\ due \in [Timers -> Nat]

\* Every reference is the owner's or the list's, so that a timer's memory goes
\* back to the heap exactly when it is neither owned nor attached.
RefsConserved ==
  \A t \in Timers :
    mb_refs[t] = (IF t \in owned THEN 1 ELSE 0) + Cardinality({i \in 1 .. Len(oneshot_list) : oneshot_list[i] = t})

\* A timer is never called early: the ticks it counts never run ahead of the
\* ticks that have passed since oneshot_attach().
NeverEarly == \A t \in Timers : Listed(t) => os_ticks_left[t] >= due[t]

\* "If we find that we held the last reference then it means our callee is no
\* longer interested": a callback is started only for a timer that is owned.
CallsOwners ==
  [][calling' # calling /\ calling' # NoTimer => calling' \in owned /\ due'[calling'] = 0]_vars

=============================================================================
