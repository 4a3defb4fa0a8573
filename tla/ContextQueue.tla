---------------------------- MODULE ContextQueue ----------------------------
(***************************************************************************)
(* The inductive invariant of Context and what each scheduling step does   *)
(* to the run queue, for any number of contexts, locks and priorities.     *)
(* ContextProofs builds the theorems on these lemmas.                      *)
(***************************************************************************)
EXTENDS Context, SeqLemmas

-----------------------------------------------------------------------------
(* Run queues as values *)

Members(q) == {q[i] : i \in 1 .. Len(q)}

\* What holds of the run queue q when the contexts have the priorities pri,
\* the own priorities bs and the locks hd.
QueueOK(q, pri, bs, hd) ==
  /\ q \in Seq(Contexts)
  /\ \A i, j \in 1 .. Len(q) : q[i] = q[j] => i = j
  /\ \A i, j \in 1 .. Len(q) : i < j => pri[q[i]] <= pri[q[j]]
  /\ \A i, j \in 1 .. Len(q) : i < j /\ hd[q[j]] # <<>> => bs[q[i]] < pri[q[j]]

\* isr_context_ready() links a context in behind all it does not precede.
LEMMA ReadiedPosition ==
  ASSUME NEW q \in Seq(Contexts), NEW pri \in [Contexts -> Int], NEW p \in Int
  PROVE  /\ AfterEquals(q, pri, p) \in 1 .. Len(q) + 1
         /\ \A j \in 1 .. AfterEquals(q, pri, p) - 1 : pri[q[j]] <= p
         /\ AfterEquals(q, pri, p) <= Len(q) => pri[q[AfterEquals(q, pri, p)]] > p
<1>1. Len(q) \in Nat /\ \A j \in 1 .. Len(q) : q[j] \in Contexts /\ pri[q[j]] \in Int
  BY LenProperties, ElementOfSeq
<1> DEFINE stop == {j \in 1 .. Len(q) : pri[q[j]] > p}
<1> HIDE DEF stop
<1>2. PICK i \in 1 .. Len(q) + 1 : /\ \A j \in 1 .. i - 1 : j \notin stop
                                   /\ i <= Len(q) => i \in stop
  BY <1>1, WalkStops, Zenon
<1> USE DEF stop
<1>3. /\ \A j \in 1 .. i - 1 : pri[q[j]] <= p
      /\ i <= Len(q) => pri[q[i]] > p
  BY <1>1, <1>2
<1> QED
  BY <1>3, Zenon DEF AfterEquals

\* spinlock_unlock() puts a context back in front of all it may precede.
LEMMA PreemptedPosition ==
  ASSUME NEW q \in Seq(Contexts), NEW pri \in [Contexts -> Int], NEW p \in Int
  PROVE  /\ BeforeEquals(q, pri, p) \in 1 .. Len(q) + 1
         /\ \A j \in 1 .. BeforeEquals(q, pri, p) - 1 : pri[q[j]] < p
         /\ BeforeEquals(q, pri, p) <= Len(q) => pri[q[BeforeEquals(q, pri, p)]] >= p
<1>1. Len(q) \in Nat /\ \A j \in 1 .. Len(q) : q[j] \in Contexts /\ pri[q[j]] \in Int
  BY LenProperties, ElementOfSeq
<1> DEFINE stop == {j \in 1 .. Len(q) : pri[q[j]] >= p}
<1> HIDE DEF stop
<1>2. PICK i \in 1 .. Len(q) + 1 : /\ \A j \in 1 .. i - 1 : j \notin stop
                                   /\ i <= Len(q) => i \in stop
  BY <1>1, WalkStops, Zenon
<1> USE DEF stop
<1>3. /\ \A j \in 1 .. i - 1 : pri[q[j]] < p
      /\ i <= Len(q) => pri[q[i]] >= p
  BY <1>1, <1>2
<1> QED
  BY <1>3, Zenon DEF BeforeEquals

\* Linking c into q at position k respects the priorities and the holders.
FitsAt(q, k, c, pri, bs, hd) ==
  /\ k \in 1 .. Len(q) + 1
  /\ c \notin Members(q)
  /\ \A j \in 1 .. k - 1 : pri[q[j]] <= pri[c]
  /\ \A j \in k .. Len(q) : pri[c] <= pri[q[j]]
  /\ hd[c] # <<>> => \A j \in 1 .. k - 1 : bs[q[j]] < pri[c]
  /\ \A j \in k .. Len(q) : hd[q[j]] # <<>> => bs[c] < pri[q[j]]

\* A good queue stays good when a context is linked in where it fits.
LEMMA LinkQueueOK ==
  ASSUME NEW q, NEW pri, NEW bs, NEW hd, NEW c \in Contexts, NEW k,
         QueueOK(q, pri, bs, hd),
         FitsAt(q, k, c, pri, bs, hd)
  PROVE  /\ QueueOK(LinkAt(q, k, c), pri, bs, hd)
         /\ Len(LinkAt(q, k, c)) = Len(q) + 1
         /\ Members(LinkAt(q, k, c)) = Members(q) \cup {c}
         /\ Head(LinkAt(q, k, c)) = IF k = 1 THEN c ELSE Head(q)
<1> DEFINE r == LinkAt(q, k, c)
<1>1. q \in Seq(Contexts) /\ Len(q) \in Nat /\ k \in 1 .. Len(q) + 1
  BY LenProperties DEF QueueOK, FitsAt
<1>2. /\ r \in Seq(Contexts)
      /\ Len(r) = Len(q) + 1
      /\ \A i \in 1 .. k - 1 : r[i] = q[i]
      /\ r[k] = c
      /\ \A i \in k .. Len(q) : r[i + 1] = q[i]
      /\ \A i \in k + 1 .. Len(q) + 1 : r[i] = q[i - 1]
  <2>1. r \in Seq(Contexts) /\ Len(r) = Len(q) + 1
    BY <1>1, LinkAtProperties
  <2>2. (\A i \in 1 .. k - 1 : r[i] = q[i]) /\ r[k] = c
    BY <1>1, LinkAtProperties
  <2>3. \A i \in k .. Len(q) : r[i + 1] = q[i]
    BY <1>1, LinkAtProperties
  <2>4. \A i \in k + 1 .. Len(q) + 1 : r[i] = q[i - 1]
    BY <1>1, LinkAtProperties
  <2> QED
    BY <2>1, <2>2, <2>3, <2>4
<1>3. \A i \in 1 .. Len(q) : q[i] # c
  BY DEF Members, FitsAt
<1> HIDE DEF r
\* Every position of r but k comes from a position of q, in order.
<1>4. \A i \in 1 .. Len(r) : i # k => \E n \in 1 .. Len(q) :
        /\ r[i] = q[n]
        /\ n = IF i < k THEN i ELSE i - 1
  <2> SUFFICES ASSUME NEW i \in 1 .. Len(r), i # k
               PROVE  \E n \in 1 .. Len(q) : r[i] = q[n] /\ n = IF i < k THEN i ELSE i - 1
    OBVIOUS
  <2>1. CASE i < k
    BY <1>1, <1>2, <2>1
  <2>2. CASE i > k
    <3>1. i - 1 \in 1 .. Len(q) /\ i \in k + 1 .. Len(q) + 1
      BY <1>1, <1>2, <2>2
    <3>2. r[i] = q[i - 1] /\ i - 1 = IF i < k THEN i ELSE i - 1
      BY <1>1, <1>2, <2>2, <3>1
    <3> QED
      BY <3>1, <3>2
  <2> QED
    BY <1>1, <1>2, <2>1, <2>2
<1>5. ASSUME NEW i \in 1 .. Len(r), NEW j \in 1 .. Len(r), i < j
      PROVE  /\ r[i] # r[j]
             /\ pri[r[i]] <= pri[r[j]]
             /\ hd[r[j]] # <<>> => bs[r[i]] < pri[r[j]]
  <2>1. CASE i = k
    <3>1. r[i] = c /\ r[j] = q[j - 1] /\ j - 1 \in k .. Len(q) /\ j - 1 \in 1 .. Len(q)
      BY <1>1, <1>2, <1>5, <2>1
    <3> QED
      BY <1>3, <3>1 DEF FitsAt
  <2>2. CASE j = k
    <3>1. r[j] = c /\ r[i] = q[i] /\ i \in 1 .. k - 1 /\ i \in 1 .. Len(q)
      BY <1>1, <1>2, <1>5, <2>2
    <3> QED
      BY <1>3, <3>1 DEF FitsAt
  <2>3. CASE i # k /\ j # k
    <3>1. PICK n \in 1 .. Len(q) : r[i] = q[n] /\ n = IF i < k THEN i ELSE i - 1
      BY <1>4, <2>3
    <3>2. PICK m \in 1 .. Len(q) : r[j] = q[m] /\ m = IF j < k THEN j ELSE j - 1
      BY <1>4, <2>3
    <3>3. n < m
      BY <1>1, <1>2, <1>5, <2>3, <3>1, <3>2
    <3> QED
      BY <3>1, <3>2, <3>3 DEF QueueOK
  <2> QED
    BY <2>1, <2>2, <2>3
<1>6. \A i, j \in 1 .. Len(r) : r[i] = r[j] => i = j
  BY <1>1, <1>2, <1>5
<1>7. Members(r) = Members(q) \cup {c}
  <2>1. \A i \in 1 .. Len(r) : r[i] \in Members(q) \cup {c}
    BY <1>2, <1>4 DEF Members
  <2>2. \A i \in 1 .. Len(q) : \E n \in 1 .. Len(r) : r[n] = q[i]
    <3> SUFFICES ASSUME NEW i \in 1 .. Len(q)
                 PROVE  \E n \in 1 .. Len(r) : r[n] = q[i]
      OBVIOUS
    <3>1. i < k => i \in 1 .. Len(r) /\ r[i] = q[i]
      BY <1>1, <1>2
    <3>2. i >= k => i + 1 \in 1 .. Len(r) /\ r[i + 1] = q[i]
      BY <1>1, <1>2
    <3> QED
      BY <1>1, <3>1, <3>2
  <2>3. k \in 1 .. Len(r)
    BY <1>1, <1>2
  <2>4. \A d : d \in Members(q) \cup {c} => \E i \in 1 .. Len(r) : r[i] = d
    BY <1>2, <2>2, <2>3 DEF Members
  <2> QED
    BY <2>1, <2>4, Zenon DEF Members
<1>8. Head(r) = IF k = 1 THEN c ELSE Head(q)
  <2>1. Head(r) = r[1]
    BY <1>1, <1>2
  <2>2. k # 1 => Head(q) = q[1]
    BY <1>1
  <2> QED
    BY <1>1, <1>2, <2>1, <2>2
<1> QED
  BY <1>2, <1>5, <1>6, <1>7, <1>8 DEF QueueOK, r

\* Unlinking the head of a good queue leaves a good queue of the others.
LEMMA TailQueueOK ==
  ASSUME NEW q, NEW pri, NEW bs, NEW hd, QueueOK(q, pri, bs, hd), q # <<>>
  PROVE  /\ QueueOK(Tail(q), pri, bs, hd)
         /\ Len(Tail(q)) = Len(q) - 1
         /\ Members(Tail(q)) = Members(q) \ {Head(q)}
         /\ Head(q) = q[1] /\ 1 \in 1 .. Len(q)
         /\ \A i \in 1 .. Len(q) - 1 : Tail(q)[i] = q[i + 1]
<1> DEFINE t == Tail(q)
<1>1. q \in Seq(Contexts) /\ Len(q) \in Nat \ {0}
  BY LenProperties, EmptySeq DEF QueueOK
<1>2. t \in Seq(Contexts) /\ Len(t) = Len(q) - 1 /\ \A i \in 1 .. Len(q) - 1 : t[i] = q[i + 1]
  BY <1>1, HeadTailProperties
<1>3. Head(q) = q[1]
  BY <1>1
<1> HIDE DEF t
<1>4. QueueOK(t, pri, bs, hd)
  <2>1. \A i, j \in 1 .. Len(t) : t[i] = t[j] => i = j
    BY <1>1, <1>2 DEF QueueOK
  <2>2. \A i, j \in 1 .. Len(t) : i < j => pri[t[i]] <= pri[t[j]]
    BY <1>1, <1>2 DEF QueueOK
  <2>3. \A i, j \in 1 .. Len(t) : i < j /\ hd[t[j]] # <<>> => bs[t[i]] < pri[t[j]]
    BY <1>1, <1>2 DEF QueueOK
  <2> QED
    BY <1>2, <2>1, <2>2, <2>3 DEF QueueOK
<1>5. Members(t) = Members(q) \ {Head(q)}
  <2>1. \A i \in 1 .. Len(t) : t[i] \in Members(q) \ {Head(q)}
    BY <1>1, <1>2, <1>3 DEF Members, QueueOK
  <2>2. \A i \in 2 .. Len(q) : q[i] = t[i - 1] /\ i - 1 \in 1 .. Len(t)
    BY <1>1, <1>2
  <2>3. \A i \in 1 .. Len(q) : q[i] # Head(q) => q[i] \in Members(t)
    BY <1>1, <1>3, <2>2 DEF Members
  <2> QED
    BY <2>1, <2>3 DEF Members
<1> QED
  BY <1>1, <1>2, <1>3, <1>4, <1>5 DEF t

\* Only the attributes of the queued contexts matter.
LEMMA AgreeQueueOK ==
  ASSUME NEW q, NEW pri, NEW bs, NEW hd, NEW pri2, NEW bs2, NEW hd2,
         QueueOK(q, pri, bs, hd),
         \A e \in Members(q) : pri2[e] = pri[e] /\ bs2[e] = bs[e] /\ hd2[e] = hd[e]
  PROVE  QueueOK(q, pri2, bs2, hd2)
<1>1. \A i \in 1 .. Len(q) : pri2[q[i]] = pri[q[i]] /\ bs2[q[i]] = bs[q[i]] /\ hd2[q[i]] = hd[q[i]]
  BY DEF Members
<1> QED
  BY <1>1 DEF QueueOK

\* A queue is good when its tail is and its head may precede the tail.
LEMMA ConsQueueOK ==
  ASSUME NEW q \in Seq(Contexts), q # <<>>, NEW pri, NEW bs, NEW hd,
         QueueOK(Tail(q), pri, bs, hd),
         Head(q) \notin Members(Tail(q)),
         \A e \in Members(Tail(q)) : pri[Head(q)] <= pri[e] /\ (hd[e] # <<>> => bs[Head(q)] < pri[e])
  PROVE  /\ QueueOK(q, pri, bs, hd)
         /\ Members(q) = Members(Tail(q)) \cup {Head(q)}
<1> DEFINE t == Tail(q)
           h == Head(q)
<1>1. Len(q) \in Nat \ {0} /\ h = q[1]
  BY LenProperties, EmptySeq
<1>2. Len(t) = Len(q) - 1 /\ \A i \in 1 .. Len(q) - 1 : t[i] = q[i + 1]
  BY HeadTailProperties
<1> HIDE DEF t, h
<1>3. \A i \in 2 .. Len(q) : i - 1 \in 1 .. Len(t) /\ q[i] = t[i - 1]
  BY <1>1, <1>2
<1>4. \A e \in Members(t) : e # h /\ pri[h] <= pri[e] /\ (hd[e] # <<>> => bs[h] < pri[e])
  BY DEF t, h
<1>5. \A i \in 2 .. Len(q) : q[i] \in Members(t)
  BY <1>3 DEF Members
<1>6. QueueOK(t, pri, bs, hd)
  BY DEF t
<1>7. ASSUME NEW i \in 1 .. Len(q), NEW j \in 1 .. Len(q), i < j
      PROVE  /\ q[i] # q[j]
             /\ pri[q[i]] <= pri[q[j]]
             /\ hd[q[j]] # <<>> => bs[q[i]] < pri[q[j]]
  <2>1. j \in 2 .. Len(q)
    BY <1>1, <1>7
  <2>2. CASE i = 1
    BY <1>1, <1>4, <1>5, <2>1, <2>2
  <2>3. CASE i # 1
    <3>1. i \in 2 .. Len(q) /\ i - 1 < j - 1 /\ i - 1 # j - 1
      BY <1>1, <1>7, <2>3
    <3>2. /\ i - 1 \in 1 .. Len(t) /\ q[i] = t[i - 1]
          /\ j - 1 \in 1 .. Len(t) /\ q[j] = t[j - 1]
      BY <1>3, <2>1, <3>1
    <3> QED
      BY <1>6, <3>1, <3>2 DEF QueueOK
  <2> QED
    BY <2>2, <2>3
<1>8. \A i, j \in 1 .. Len(q) : q[i] = q[j] => i = j
  BY <1>1, <1>7
<1>9. Members(q) = Members(t) \cup {h}
  <2>1. \A i \in 1 .. Len(q) : q[i] \in Members(t) \cup {h}
    BY <1>1, <1>5
  <2>2. \A i \in 1 .. Len(t) : i + 1 \in 1 .. Len(q) /\ t[i] = q[i + 1]
    BY <1>1, <1>2
  <2>3. \A e \in Members(t) \cup {h} : \E i \in 1 .. Len(q) : q[i] = e
    BY <1>1, <2>2 DEF Members
  <2> QED
    BY <2>1, <2>3, Zenon DEF Members
<1> QED
  BY <1>7, <1>8, <1>9 DEF QueueOK, t, h

\* A context that holds no lock fits where isr_context_ready() links it in.
LEMMA FitsAfter ==
  ASSUME NEW q, NEW pri \in [Contexts -> Int], NEW bs, NEW hd, NEW c \in Contexts,
         QueueOK(q, pri, bs, hd), c \notin Members(q), hd[c] = <<>>, bs[c] = pri[c]
  PROVE  /\ FitsAt(q, AfterEquals(q, pri, pri[c]), c, pri, bs, hd)
         /\ q # <<>> /\ pri[Head(q)] <= pri[c] => AfterEquals(q, pri, pri[c]) # 1
<1> DEFINE k == AfterEquals(q, pri, pri[c])
<1>1. q \in Seq(Contexts) /\ Len(q) \in Nat /\ \A i \in 1 .. Len(q) : q[i] \in Contexts /\ pri[q[i]] \in Int
  BY LenProperties, ElementOfSeq DEF QueueOK
<1>2. pri[c] \in Int
  OBVIOUS
<1>3. /\ k \in 1 .. Len(q) + 1
      /\ \A j \in 1 .. k - 1 : pri[q[j]] <= pri[c]
      /\ k <= Len(q) => pri[q[k]] > pri[c]
  BY <1>1, <1>2, ReadiedPosition
<1> HIDE DEF k
<1>4. ASSUME NEW j \in k .. Len(q)
      PROVE  pri[c] < pri[q[j]]
  <2>1. j \in 1 .. Len(q) /\ k \in 1 .. Len(q)
    BY <1>1, <1>3
  <2>2. k < j => pri[q[k]] <= pri[q[j]]
    BY <2>1 DEF QueueOK
  <2> QED
    BY <1>1, <1>2, <1>3, <2>1, <2>2
<1>5. \A j \in k .. Len(q) : pri[c] <= pri[q[j]] /\ bs[c] < pri[q[j]]
  <2> TAKE j \in k .. Len(q)
  <2>1. j \in 1 .. Len(q)
    BY <1>1, <1>3
  <2> QED
    BY <1>1, <1>2, <1>4, <2>1
<1>6. ASSUME q # <<>>, pri[Head(q)] <= pri[c]
      PROVE  k # 1
  <2>1. Len(q) # 0 /\ Head(q) = q[1] /\ 1 \in 1 .. Len(q)
    BY <1>1, <1>6, EmptySeq
  <2> QED
    BY <1>1, <1>2, <1>3, <1>6, <2>1
<1> QED
  BY <1>3, <1>5, <1>6 DEF FitsAt, k

\* A pre-empted context fits where spinlock_unlock() puts it back, even if it
\* still holds locks.
LEMMA FitsBefore ==
  ASSUME NEW q, NEW pri \in [Contexts -> Int], NEW bs \in [Contexts -> Int], NEW hd,
         NEW c \in Contexts,
         QueueOK(q, pri, bs, hd), c \notin Members(q), pri[c] <= bs[c],
         \A e \in Members(q) : IF hd[e] = <<>> THEN bs[e] = pri[e] ELSE bs[c] < pri[e]
  PROVE  FitsAt(q, BeforeEquals(q, pri, pri[c]), c, pri, bs, hd)
<1> DEFINE k == BeforeEquals(q, pri, pri[c])
<1>1. q \in Seq(Contexts) /\ Len(q) \in Nat /\ \A i \in 1 .. Len(q) : q[i] \in Contexts /\ pri[q[i]] \in Int
  BY LenProperties, ElementOfSeq DEF QueueOK
<1>2. pri[c] \in Int /\ bs[c] \in Int
  OBVIOUS
<1>3. /\ k \in 1 .. Len(q) + 1
      /\ \A j \in 1 .. k - 1 : pri[q[j]] < pri[c]
      /\ k <= Len(q) => pri[q[k]] >= pri[c]
  BY <1>1, <1>2, PreemptedPosition
<1> HIDE DEF k
<1>4. \A i \in 1 .. Len(q) : IF hd[q[i]] = <<>> THEN bs[q[i]] = pri[q[i]] ELSE bs[c] < pri[q[i]]
  BY DEF Members
<1>5. ASSUME NEW j \in k .. Len(q)
      PROVE  pri[c] <= pri[q[j]] /\ (hd[q[j]] # <<>> => bs[c] < pri[q[j]])
  <2>1. j \in 1 .. Len(q) /\ k \in 1 .. Len(q)
    BY <1>1, <1>3
  <2>2. k < j => pri[q[k]] <= pri[q[j]]
    BY <2>1 DEF QueueOK
  <2>3. pri[q[j]] \in Int /\ pri[q[k]] \in Int /\ pri[q[k]] >= pri[c] /\ j \in Int /\ k \in Int /\ k <= j
    BY <1>1, <1>3, <2>1
  <2>4. pri[c] <= pri[q[j]]
    <3>1. CASE k = j
      BY <1>2, <2>3, <3>1
    <3>2. CASE k < j
      BY <1>2, <2>2, <2>3, <3>2
    <3> QED
      BY <2>3, <3>1, <3>2
  <2>5. hd[q[j]] # <<>> => bs[c] < pri[q[j]]
    BY <1>4, <2>1
  <2> QED
    BY <2>4, <2>5
<1>6. ASSUME NEW j \in 1 .. k - 1
      PROVE  pri[q[j]] <= pri[c] /\ bs[q[j]] < pri[c]
  <2>1. j \in 1 .. Len(q) /\ pri[q[j]] < pri[c] /\ pri[q[j]] \in Int
    BY <1>1, <1>3
  <2> QED
    BY <1>2, <1>4, <2>1
<1> QED
  BY <1>3, <1>5, <1>6 DEF FitsAt, k

-----------------------------------------------------------------------------
(* The inductive invariant *)

RunQueueInv == CurrentIsHead /\ RunQueueSorted /\ NoneLost /\ HoldersFirst

LockInv == LockStack /\ LockFlag /\ MutualExclusion

SleepInv == SleepersQueued /\ SleepersCanResume

IInv == TypeOK /\ RunQueueInv /\ LockInv /\ SleepInv

\* The run queue part of the invariant as a predicate of values.
RQ(q, cur, st, pri, bs, hd) ==
  /\ QueueOK(q, pri, bs, hd)
  /\ q # <<>>
  /\ cur = Head(q)
  /\ \A c \in Contexts : (st[c] \in Runnable <=> c \in Members(q)) /\ (st[c] = "RUNNING" <=> c = cur)

LEMMA RunQueueValue ==
  ASSUME run_queue \in Seq(Contexts)
  PROVE  RunQueueInv <=> RQ(run_queue, current, c_state, c_priority, base, held)
BY DEF RunQueueInv, RQ, CurrentIsHead, RunQueueSorted, NoneLost, HoldersFirst, QueueOK, Members

LEMMA RunQueueValueNext ==
  ASSUME (run_queue \in Seq(Contexts))'
  PROVE  RunQueueInv' <=> RQ(run_queue', current', c_state', c_priority', base', held')
BY DEF RunQueueInv, RQ, CurrentIsHead, RunQueueSorted, NoneLost, HoldersFirst, QueueOK, Members

\* Every context sleeps, or is unused, exactly as the states st say; the others
\* are runnable.
AsleepAs(st) ==
  \A c \in Contexts : c_state'[c] = st[c] \/ (c_state'[c] \in Runnable /\ st[c] \in Runnable)

\* isr_context_switch() makes the head of a good queue the running context.
LEMMA SwitchRQ ==
  ASSUME NEW q, NEW st \in [Contexts -> States], NEW pri, NEW bs, NEW hd,
         QueueOK(q, pri, bs, hd), q # <<>>,
         \A c \in Contexts : (st[c] \in Runnable <=> c \in Members(q)) /\ st[c] # "RUNNING",
         SwitchTo(q, st)
  PROVE  RQ(q, current', c_state', pri, bs, hd) /\ AsleepAs(st)
<1>1. Head(q) \in Contexts /\ Head(q) \in Members(q)
  <2>1. q \in Seq(Contexts) /\ Head(q) = q[1] /\ Len(q) \in Nat \ {0}
    BY LenProperties, EmptySeq DEF QueueOK
  <2> QED
    BY <2>1, ElementOfSeq DEF Members
<1>2. c_state' = [st EXCEPT ![Head(q)] = "RUNNING"] /\ current' = Head(q)
  BY DEF SwitchTo
<1> QED
  BY <1>1, <1>2 DEF RQ, AsleepAs, Runnable, States

\* A context that holds locks is at most as urgent as each of their ceilings,
\* and no context is less urgent than its own priority.
LEMMA CeilingBounds ==
  ASSUME TypeOK, LockStack, NEW c \in Contexts
  PROVE  /\ c_priority[c] <= base[c]
         /\ \A l \in Locks : Holds(c, l) => c_priority[c] <= l_pri_locked[l] /\ l_pri_locked[l] <= base[c]
         /\ held[c] = <<>> => c_priority[c] = base[c]
         /\ held[c] # <<>> => c_priority[c] < RoundRobinPri
<1> DEFINE h == held[c]
           n == Len(held[c])
<1>1. h \in Seq(Locks) /\ n \in Nat /\ DOMAIN h = 1 .. n
  BY LenProperties DEF TypeOK
<1>2. base[c] \in Int /\ \A i \in 1 .. n : h[i] \in Locks
  <2>1. base[c] \in Int
    BY DEF TypeOK, Priorities, Byte
  <2> QED
    BY <1>1, <2>1, ElementOfSeq
<1>3. \A i \in 1 .. n : /\ l_pri_locked[h[i]] <= base[c]
                        /\ \A j \in i .. n : l_pri_locked[h[j]] <= l_pri_locked[h[i]]
  BY DEF LockStack
<1>4. c_priority[c] = IF h = <<>> THEN base[c] ELSE l_pri_locked[h[n]]
  BY DEF LockStack
<1>5. h # <<>> => n \in 1 .. n
  BY <1>1, EmptySeq
<1>6. \A l \in Locks : l_pri_locked[l] < RoundRobinPri
  BY ContextAssumption
<1>7. \A l \in Locks : Holds(c, l) => \E i \in 1 .. n : h[i] = l
  BY <1>1 DEF Holds
<1> HIDE DEF h, n
<1>8. ASSUME NEW l \in Locks, Holds(c, l)
      PROVE  c_priority[c] <= l_pri_locked[l] /\ l_pri_locked[l] <= base[c]
  <2>1. PICK i \in 1 .. n : h[i] = l
    BY <1>7, <1>8
  <2>2. h # <<>>
    <3>1. n # 0
      BY <1>1, <2>1
    <3> QED
      BY <3>1 DEF h, n
  <2>3. n \in i .. n
    BY <1>1, <2>1
  <2> QED
    BY <1>3, <1>4, <2>1, <2>2, <2>3
<1>9. h # <<>> => c_priority[c] < RoundRobinPri
  <2> SUFFICES ASSUME h # <<>> PROVE c_priority[c] < RoundRobinPri
    OBVIOUS
  <2>1. h[n] \in Locks /\ c_priority[c] = l_pri_locked[h[n]]
    BY <1>2, <1>4, <1>5
  <2> QED
    BY <1>6, <2>1
<1> QED
  BY <1>2, <1>3, <1>4, <1>5, <1>8, <1>9 DEF h

\* Every context on the run queue behind the running one that holds a lock is
\* less urgent than the running one's own priority.
LEMMA HolderBehind ==
  ASSUME IInv, NEW d \in Contexts, d # current, held[d] # <<>>
  PROVE  base[current] < c_priority[d]
<1>1. RQ(run_queue, current, c_state, c_priority, base, held)
  BY RunQueueValue DEF IInv, TypeOK
<1>2. c_state[d] \in Runnable
  BY DEF IInv, SleepInv, SleepersCanResume
<1>3. d \in Members(run_queue)
  BY <1>1, <1>2 DEF RQ
<1>4. PICK j \in 1 .. Len(run_queue) : run_queue[j] = d
  BY <1>3 DEF Members
<1>5. run_queue[1] = current /\ 1 \in 1 .. Len(run_queue)
  BY <1>1, TailQueueOK DEF RQ
<1>6. 1 < j
  BY <1>4, <1>5
<1> QED
  BY <1>1, <1>4, <1>5, <1>6 DEF RQ, QueueOK

\* The ceiling argument: while the current context may take the lock l, no
\* other context can be holding it.
LEMMA CeilingExcludes ==
  ASSUME IInv, NEW l \in Locks, l_pri_locked[l] <= base[current], NEW d \in Contexts, d # current
  PROVE  ~Holds(d, l)
<1> SUFFICES ASSUME Holds(d, l) PROVE FALSE
  OBVIOUS
<1>1. held[d] # <<>>
  BY DEF Holds
<1>2. base[current] < c_priority[d]
  BY <1>1, HolderBehind
<1>3. c_priority[d] <= l_pri_locked[l]
  BY CeilingBounds DEF IInv, LockInv
<1>4. base[current] \in Int /\ c_priority[d] \in Int /\ l_pri_locked[l] \in Int
  <2>1. current \in Contexts /\ base \in [Contexts -> Int] /\ c_priority \in [Contexts -> Int]
    BY DEF IInv, TypeOK, Priorities, Byte
  <2>2. l_pri_locked[l] \in Int
    BY ContextAssumption DEF Priorities, Byte
  <2> QED
    BY <2>1, <2>2
<1> QED
  BY <1>2, <1>3, <1>4

\* What the invariant says of the numbers and of the run queue, for citing.
LEMMA Basics ==
  ASSUME IInv
  PROVE  /\ c_priority \in [Contexts -> Int] /\ base \in [Contexts -> Int]
         /\ l_pri_locked \in [Locks -> Int] /\ l_pri_unlocked \in [Locks -> Int]
         /\ current \in Contexts /\ run_queue \in Seq(Contexts)
         /\ c_state \in [Contexts -> States]
         /\ RQ(run_queue, current, c_state, c_priority, base, held)
         /\ current \notin Members(Tail(run_queue))
         /\ QueueOK(Tail(run_queue), c_priority, base, held)
         /\ Members(run_queue) = Members(Tail(run_queue)) \cup {current}
         /\ \A e \in Members(run_queue) : e \in Contexts
         /\ \A c \in Contexts : c_priority[c] <= base[c] /\ (held[c] = <<>> => base[c] = c_priority[c])
<1>1. /\ c_priority \in [Contexts -> Int] /\ base \in [Contexts -> Int]
      /\ l_pri_unlocked \in [Locks -> Int]
      /\ current \in Contexts /\ run_queue \in Seq(Contexts)
      /\ c_state \in [Contexts -> States]
  BY DEF IInv, TypeOK, Priorities, Byte
<1>2. l_pri_locked \in [Locks -> Int]
  BY ContextAssumption DEF Priorities, Byte
<1>3. RQ(run_queue, current, c_state, c_priority, base, held)
  BY <1>1, RunQueueValue DEF IInv
<1>4. /\ QueueOK(Tail(run_queue), c_priority, base, held)
      /\ Members(Tail(run_queue)) = Members(run_queue) \ {current}
      /\ current = run_queue[1] /\ 1 \in 1 .. Len(run_queue)
  BY <1>3, TailQueueOK DEF RQ
<1>5. current \in Members(run_queue)
  BY <1>4 DEF Members
<1>6. \A e \in Members(run_queue) : e \in Contexts
  BY <1>1, ElementOfSeq DEF Members
<1>7. \A c \in Contexts : c_priority[c] <= base[c] /\ (held[c] = <<>> => base[c] = c_priority[c])
  BY CeilingBounds DEF IInv, LockInv
<1> QED
  BY <1>1, <1>2, <1>3, <1>4, <1>5, <1>6, <1>7

-----------------------------------------------------------------------------
(* What the scheduling steps do to the run queue *)

\* Waking a sleeper that is no more urgent than the running context.
LEMMA WakeRQ ==
  ASSUME IInv, NEW c \in Contexts, NEW st \in {"READY", "INTERRUPTED"},
         c_state[c] \in Asleep, c_priority[current] <= c_priority[c], Wake(c, st)
  PROVE  /\ run_queue' \in Seq(Contexts)
         /\ RQ(run_queue', current', c_state', c_priority', base', held')
<1> DEFINE k == AfterEquals(run_queue, c_priority, c_priority[c])
           q == LinkAt(run_queue, k, c)
<1>1. /\ run_queue' = q
      /\ c_state' = [c_state EXCEPT ![c] = st]
      /\ current' = current /\ c_priority' = c_priority /\ base' = base /\ held' = held
  BY DEF Wake, Readied, lockVars
<1>2. c \notin Members(run_queue) /\ held[c] = <<>>
  BY Basics DEF RQ, Runnable, Asleep, IInv, SleepInv, SleepersCanResume
<1>3. FitsAt(run_queue, k, c, c_priority, base, held) /\ k # 1
  <2>1. /\ QueueOK(run_queue, c_priority, base, held)
        /\ run_queue # <<>> /\ current = Head(run_queue)
        /\ c_priority \in [Contexts -> Int] /\ base[c] = c_priority[c]
    BY <1>2, Basics DEF RQ
  <2> QED
    BY <1>2, <2>1, FitsAfter
<1>4. /\ QueueOK(q, c_priority, base, held)
      /\ Len(q) = Len(run_queue) + 1
      /\ Members(q) = Members(run_queue) \cup {c}
      /\ Head(q) = current
  BY <1>3, Basics, LinkQueueOK DEF RQ
<1> HIDE DEF q, k
<1>5. q \in Seq(Contexts) /\ q # <<>>
  <2>1. q \in Seq(Contexts)
    BY <1>4 DEF QueueOK
  <2>2. Len(run_queue) \in Nat
    BY Basics, LenProperties
  <2> QED
    BY <1>4, <2>1, <2>2, EmptySeq
<1>6. \A d \in Contexts : /\ c_state'[d] \in Runnable <=> d \in Members(q)
                          /\ c_state'[d] = "RUNNING" <=> d = current
  BY <1>1, <1>2, <1>4, Basics DEF RQ, Runnable, Asleep
<1>7. RQ(q, current, c_state', c_priority, base, held)
  BY <1>4, <1>5, <1>6, Zenon DEF RQ
<1> QED
  BY <1>1, <1>5, <1>7

\* isr_context_yield() at priorities and own priorities that differ from the
\* present ones at most for the current context, which holds no lock.
LEMMA YieldRQ ==
  ASSUME IInv, NEW pri \in [Contexts -> Int], NEW bs \in [Contexts -> Int],
         \A c \in Contexts \ {current} : pri[c] = c_priority[c] /\ bs[c] = base[c],
         held[current] = <<>>, bs[current] = pri[current], YieldAt(pri)
  PROVE  /\ run_queue' \in Seq(Contexts)
         /\ RQ(run_queue', current', c_state', pri, bs, held)
         /\ AsleepAs(c_state)
<1> DEFINE t == Tail(run_queue)
           k == AfterEquals(t, pri, pri[current])
           q == LinkAt(t, k, current)
<1>1. QueueOK(t, c_priority, base, held) /\ current \notin Members(t)
  BY Basics
<1>2. \A e \in Members(t) : e \in Contexts \ {current}
  BY <1>1, Basics
<1>3. QueueOK(t, pri, bs, held)
  BY <1>1, <1>2, AgreeQueueOK
<1>4. FitsAt(t, k, current, pri, bs, held)
  BY <1>1, <1>3, Basics, FitsAfter
<1>5. /\ QueueOK(q, pri, bs, held)
      /\ Len(q) = Len(t) + 1
      /\ Members(q) = Members(t) \cup {current}
  <2>1. current \in Contexts
    BY Basics
  <2> HIDE DEF k, t
  <2> QED
    BY <1>3, <1>4, <2>1, LinkQueueOK
<1>6. /\ run_queue' = q
      /\ IF Head(q) # current
           THEN SwitchTo(q, [c_state EXCEPT ![current] = "READY"])
           ELSE UNCHANGED <<current, c_state>>
  BY DEF YieldAt, Readied
<1> HIDE DEF q, k, t
<1>7. Members(q) = Members(run_queue)
  BY <1>5, Basics DEF t
<1>8. q \in Seq(Contexts) /\ q # <<>>
  <2>1. q \in Seq(Contexts) /\ t \in Seq(Contexts)
    BY <1>1, <1>5 DEF QueueOK
  <2>2. Len(t) \in Nat
    BY <2>1, LenProperties
  <2> QED
    BY <1>5, <2>1, <2>2, EmptySeq
<1>9. RQ(q, current', c_state', pri, bs, held) /\ AsleepAs(c_state)
  <2>1. CASE Head(q) # current
    <3> DEFINE st == [c_state EXCEPT ![current] = "READY"]
    <3>1. SwitchTo(q, st)
      BY <1>6, <2>1
    <3>2. st \in [Contexts -> States]
      BY Basics DEF States
    <3>3. \A c \in Contexts : (st[c] \in Runnable <=> c \in Members(q)) /\ st[c] # "RUNNING"
      BY <1>7, Basics DEF RQ, Runnable
    <3>4. \A c \in Contexts : c # current => st[c] = c_state[c]
      BY Basics
    <3>5. c_state[current] \in Runnable /\ st[current] \in Runnable
      BY Basics DEF RQ, Runnable
    <3> HIDE DEF st
    <3>6. RQ(q, current', c_state', pri, bs, held) /\ AsleepAs(st)
      BY <1>5, <1>8, <3>1, <3>2, <3>3, SwitchRQ
    <3> QED
      BY <3>4, <3>5, <3>6 DEF AsleepAs
  <2>2. CASE Head(q) = current
    <3>1. current' = current /\ c_state' = c_state
      BY <1>6, <2>2
    <3> QED
      BY <1>5, <1>7, <1>8, <2>2, <3>1, Basics DEF RQ, AsleepAs
  <2> QED
    BY <2>1, <2>2
<1> QED
  BY <1>6, <1>7, <1>8, <1>9

\* The end of an unlock, when the priorities pri, the locks hd and the states
\* st of the contexts have been updated and q is the run queue: the current
\* context, at its head, may have become less urgent than others.
LEMMA ReschedRQ ==
  ASSUME IInv, NEW q \in Seq(Contexts), q # <<>>, Head(q) = current,
         NEW pri \in [Contexts -> Int], NEW hd, NEW st \in [Contexts -> States],
         QueueOK(Tail(q), pri, base, hd), current \notin Members(Tail(q)),
         \A c \in Contexts : (st[c] \in Runnable <=> c \in Members(Tail(q)) \cup {current})
                             /\ (st[c] = "RUNNING" <=> c = current),
         pri[current] <= base[current],
         \A e \in Members(Tail(q)) :
           IF hd[e] = <<>> THEN base[e] = pri[e] ELSE base[current] < pri[e],
         ReschedAt(q, st, pri, pri[current])
  PROVE  /\ run_queue' \in Seq(Contexts)
         /\ RQ(run_queue', current', c_state', pri, base, hd)
         /\ AsleepAs(st)
<1> DEFINE t == Tail(q)
<1>1. t \in Seq(Contexts) /\ Len(t) \in Nat /\ Len(q) \in Nat /\ Len(t) = Len(q) - 1
  BY LenProperties, HeadTailProperties
<1>2. current \in Contexts /\ base \in [Contexts -> Int]
  BY Basics
<1>3. CASE Len(q) > 1 /\ pri[q[2]] < pri[current]
  <2> DEFINE k == BeforeEquals(t, pri, pri[current])
             r == LinkAt(t, k, current)
             sr == [st EXCEPT ![current] = "READY"]
  <2>1. run_queue' = r /\ SwitchTo(r, sr)
    BY <1>3 DEF ReschedAt, Preempted
  <2>2. FitsAt(t, k, current, pri, base, hd)
    BY <1>2, FitsBefore
  <2>3. /\ QueueOK(r, pri, base, hd)
        /\ Len(r) = Len(t) + 1
        /\ Members(r) = Members(t) \cup {current}
    <3>1. QueueOK(t, pri, base, hd)
      OBVIOUS
    <3> HIDE DEF k, t
    <3> QED
      BY <1>2, <2>2, <3>1, LinkQueueOK
  <2> HIDE DEF r, k
  <2>4. r \in Seq(Contexts) /\ r # <<>>
    <3>1. r \in Seq(Contexts)
      BY <2>3 DEF QueueOK
    <3> QED
      BY <1>1, <2>3, <3>1, EmptySeq
  <2>5. sr \in [Contexts -> States]
    BY DEF States
  <2>6. \A c \in Contexts : (sr[c] \in Runnable <=> c \in Members(r)) /\ sr[c] # "RUNNING"
    BY <1>2, <2>3 DEF Runnable
  <2>7. \A c \in Contexts : c # current => sr[c] = st[c]
    BY <1>2
  <2>8. sr[current] \in Runnable /\ st[current] \in Runnable
    BY <1>2 DEF Runnable
  <2> HIDE DEF sr
  <2>9. RQ(r, current', c_state', pri, base, hd) /\ AsleepAs(sr)
    BY <2>1, <2>3, <2>4, <2>5, <2>6, SwitchRQ
  <2>10. AsleepAs(st)
    BY <2>7, <2>8, <2>9 DEF AsleepAs
  <2> QED
    BY <2>1, <2>4, <2>9, <2>10
<1>4. CASE ~(Len(q) > 1 /\ pri[q[2]] < pri[current])
  <2>1. run_queue' = q /\ c_state' = st /\ current' = current
    BY <1>4 DEF ReschedAt
  <2>2. \A i \in 1 .. Len(t) : t[i] \in Contexts /\ pri[t[i]] \in Int
    BY <1>1, ElementOfSeq
  <2>3. ASSUME NEW i \in 1 .. Len(t)
        PROVE  pri[current] <= pri[t[i]]
    <3>1. Len(q) > 1 /\ t[1] = q[2] /\ 1 \in 1 .. Len(t)
      BY <1>1, HeadTailProperties
    <3>2. pri[current] <= pri[t[1]]
      BY <1>2, <1>4, <2>2, <3>1
    <3>3. 1 < i => pri[t[1]] <= pri[t[i]]
      BY <3>1 DEF QueueOK
    <3> QED
      BY <1>2, <2>2, <3>1, <3>2, <3>3
  <2>4. \A e \in Members(t) : pri[current] <= pri[e] /\ (hd[e] # <<>> => base[current] < pri[e])
    BY <2>3 DEF Members
  <2>5. QueueOK(q, pri, base, hd) /\ Members(q) = Members(t) \cup {current}
    BY <2>4, ConsQueueOK
  <2>6. RQ(q, current, st, pri, base, hd)
    BY <2>5 DEF RQ
  <2> QED
    BY <2>1, <2>6 DEF AsleepAs
<1> QED
  BY <1>3, <1>4

\* The current context leaves the run queue, giving up its locks.
LEMMA LeaveRQ ==
  ASSUME IInv, NEW pri, NEW hd, NEW s \in States \ Runnable, current # Idle,
         \A c \in Contexts \ {current} : pri[c] = c_priority[c] /\ hd[c] = held[c],
         SwitchTo(Tail(run_queue), [c_state EXCEPT ![current] = s])
  PROVE  /\ Tail(run_queue) \in Seq(Contexts)
         /\ RQ(Tail(run_queue), current', c_state', pri, base, hd)
         /\ AsleepAs([c_state EXCEPT ![current] = s])
<1> DEFINE t == Tail(run_queue)
           st == [c_state EXCEPT ![current] = s]
<1>1. QueueOK(t, c_priority, base, held) /\ current \notin Members(t)
  BY Basics
<1>2. \A e \in Members(t) : e \in Contexts \ {current}
  BY <1>1, Basics
<1>3. QueueOK(t, pri, base, hd)
  BY <1>1, <1>2, AgreeQueueOK
<1>4. Idle \in Members(t)
  <2>1. Idle \in Contexts /\ c_state[Idle] \in Runnable
    BY ContextAssumption DEF IInv, SleepInv, SleepersCanResume
  <2> QED
    BY <2>1, Basics DEF RQ
<1>5. t # <<>>
  BY <1>4 DEF Members
<1>6. st \in [Contexts -> States]
  BY Basics
<1>7. \A c \in Contexts : (st[c] \in Runnable <=> c \in Members(t)) /\ st[c] # "RUNNING"
  <2>1. \A c \in Contexts : c \in Members(t) <=> c \in Members(run_queue) /\ c # current
    BY <1>1, Basics
  <2> QED
    BY <2>1, Basics DEF RQ, Runnable
<1>8. SwitchTo(t, st)
  OBVIOUS
<1>9. t \in Seq(Contexts)
  BY <1>1 DEF QueueOK
<1> HIDE DEF st, t
<1>10. RQ(t, current', c_state', pri, base, hd) /\ AsleepAs(st)
  BY <1>3, <1>5, <1>6, <1>7, <1>8, SwitchRQ
<1> QED
  BY <1>9, <1>10 DEF t, st

\* Taking a lock makes the running context more urgent, if anything.
LEMMA RaiseRQ ==
  ASSUME IInv, NEW pri \in [Contexts -> Int], NEW hd,
         \A c \in Contexts \ {current} : pri[c] = c_priority[c] /\ hd[c] = held[c],
         pri[current] <= c_priority[current]
  PROVE  RQ(run_queue, current, c_state, pri, base, hd)
<1> DEFINE t == Tail(run_queue)
<1>1. QueueOK(t, c_priority, base, held) /\ current \notin Members(t)
  BY Basics
<1>2. \A e \in Members(t) : e \in Contexts \ {current}
  BY <1>1, Basics
<1>3. QueueOK(t, pri, base, hd)
  BY <1>1, <1>2, AgreeQueueOK
<1>4. ASSUME NEW e \in Members(t)
      PROVE  pri[current] <= pri[e] /\ (hd[e] # <<>> => base[current] < pri[e])
  <2>1. e \in Contexts /\ e # current /\ pri[e] = c_priority[e] /\ hd[e] = held[e]
    BY <1>2
  <2>2. PICK i \in 1 .. Len(run_queue) : run_queue[i] = e
    BY <1>4, Basics DEF Members
  <2>3. run_queue[1] = current /\ 1 \in 1 .. Len(run_queue)
    BY Basics, TailQueueOK DEF RQ
  <2>4. 1 < i
    BY <2>1, <2>2, <2>3
  <2>5. c_priority[current] <= c_priority[e]
    BY <2>2, <2>3, <2>4, Basics DEF RQ, QueueOK
  <2>6. c_priority[current] \in Int /\ c_priority[e] \in Int /\ pri[current] \in Int
    BY <2>1, Basics
  <2> QED
    BY <2>1, <2>5, <2>6, HolderBehind
<1>5. run_queue # <<>> /\ current = Head(run_queue) /\ run_queue \in Seq(Contexts)
  BY Basics DEF RQ
<1>6. QueueOK(run_queue, pri, base, hd)
  BY <1>1, <1>3, <1>4, <1>5, ConsQueueOK
<1> QED
  BY <1>6, Basics DEF RQ

\* thread_create() links a new context in and switches to it if it is first.
LEMMA CreateRQ ==
  ASSUME IInv, NEW c \in Contexts, Create(c)
  PROVE  /\ run_queue' \in Seq(Contexts)
         /\ RQ(run_queue', current', c_state', c_priority', base', held')
         /\ AsleepAs([c_state EXCEPT ![c] = "READY"])
<1> DEFINE pri == [c_priority EXCEPT ![c] = Pri[c]]
           bs == [base EXCEPT ![c] = Pri[c]]
           st == [c_state EXCEPT ![c] = "READY"]
           k == AfterEquals(run_queue, pri, pri[c])
           q == LinkAt(run_queue, k, c)
<1>1. /\ run_queue' = q /\ c_priority' = pri /\ base' = bs /\ held' = held
      /\ c_state[c] = "NULL"
      /\ IF Head(q) # current
           THEN SwitchTo(q, [st EXCEPT ![current] = "READY"])
           ELSE c_state' = st /\ current' = current
  BY DEF Create, Readied, lockVars
<1>2. c \notin Members(run_queue) /\ held[c] = <<>> /\ c # current
  BY <1>1, Basics DEF RQ, Runnable, IInv, SleepInv, SleepersCanResume
<1>3. pri \in [Contexts -> Int] /\ bs \in [Contexts -> Int] /\ bs[c] = pri[c]
  <2>1. Pri[c] \in Int
    BY ContextAssumption DEF Priorities, Byte
  <2>2. c_priority \in [Contexts -> Int] /\ base \in [Contexts -> Int]
    BY Basics
  <2> QED
    BY <2>1, <2>2
<1>4. \A e \in Members(run_queue) : pri[e] = c_priority[e] /\ bs[e] = base[e]
  BY <1>2, Basics
<1>5. st \in [Contexts -> States] /\ [st EXCEPT ![current] = "READY"] \in [Contexts -> States]
  BY Basics DEF States
<1>6. \A d \in Contexts : /\ st[d] \in Runnable <=> d \in Members(run_queue) \cup {c}
                          /\ st[d] = "RUNNING" <=> d = current
  BY <1>2, Basics DEF RQ, Runnable
<1>7. QueueOK(run_queue, c_priority, base, held) /\ current \in Contexts
  BY Basics DEF RQ
<1> HIDE DEF pri, bs, st
<1>8. QueueOK(run_queue, pri, bs, held)
  BY <1>4, <1>7, AgreeQueueOK
<1>9. FitsAt(run_queue, k, c, pri, bs, held)
  BY <1>2, <1>3, <1>8, FitsAfter
<1> HIDE DEF k
<1>10. /\ QueueOK(q, pri, bs, held)
       /\ Len(q) = Len(run_queue) + 1
       /\ Members(q) = Members(run_queue) \cup {c}
  BY <1>8, <1>9, LinkQueueOK
<1> HIDE DEF q
<1>11. q \in Seq(Contexts) /\ q # <<>>
  <2>1. q \in Seq(Contexts) /\ Len(run_queue) \in Nat
    BY <1>10, Basics, LenProperties DEF QueueOK
  <2> QED
    BY <1>10, <2>1, EmptySeq
<1>12. RQ(q, current', c_state', pri, bs, held) /\ AsleepAs(st)
  <2>1. CASE Head(q) # current
    <3> DEFINE sr == [st EXCEPT ![current] = "READY"]
    <3>1. SwitchTo(q, sr) /\ sr \in [Contexts -> States]
      BY <1>1, <1>5, <2>1
    <3>2. \A d \in Contexts : (sr[d] \in Runnable <=> d \in Members(q)) /\ sr[d] # "RUNNING"
      BY <1>5, <1>6, <1>7, <1>10 DEF Runnable
    <3>3. \A d \in Contexts : d # current => sr[d] = st[d]
      BY <1>5
    <3>4. sr[current] \in Runnable /\ st[current] \in Runnable
      BY <1>5, <1>6, <1>7 DEF Runnable
    <3> HIDE DEF sr
    <3>5. RQ(q, current', c_state', pri, bs, held) /\ AsleepAs(sr)
      BY <1>10, <1>11, <3>1, <3>2, SwitchRQ
    <3> QED
      BY <3>3, <3>4, <3>5 DEF AsleepAs
  <2>2. CASE Head(q) = current
    <3>1. c_state' = st /\ current' = current
      BY <1>1, <2>2
    <3> QED
      BY <1>6, <1>10, <1>11, <2>2, <3>1 DEF RQ, AsleepAs
  <2> QED
    BY <2>1, <2>2
<1> QED
  BY <1>1, <1>11, <1>12 DEF st

\* The priority that the innermost lock gives back.
LEMMA Innermost ==
  ASSUME TypeOK, LockStack, NEW c \in Contexts, held[c] # <<>>
  PROVE  LET n == Len(held[c])
             l == held[c][n]
         IN  /\ n \in Nat \ {0}
             /\ l \in Locks
             /\ Holds(c, l)
             /\ l_pri_unlocked[l] = IF n = 1 THEN base[c] ELSE l_pri_locked[held[c][n - 1]]
             /\ l_pri_unlocked[l] <= base[c]
<1> DEFINE n == Len(held[c])
           h == held[c]
<1>1. h \in Seq(Locks) /\ n \in Nat \ {0} /\ DOMAIN h = 1 .. n
  BY LenProperties, EmptySeq DEF TypeOK
<1>2. n \in 1 .. n /\ (n # 1 => n - 1 \in 1 .. n)
  <2> HIDE DEF n, h
  <2> QED
    BY <1>1
<1>3. h[n] \in Locks
  BY <1>1, <1>2, ElementOfSeq
<1>4. l_pri_unlocked[h[n]] = IF n = 1 THEN base[c] ELSE l_pri_locked[h[n - 1]]
  BY <1>2 DEF LockStack
<1>5. n # 1 => l_pri_locked[h[n - 1]] <= base[c]
  BY <1>2 DEF LockStack
<1>6. base[c] <= base[c]
  BY DEF TypeOK, Priorities, Byte
<1>7. Holds(c, h[n])
  BY <1>1, <1>2 DEF Holds
<1> QED
  BY <1>1, <1>3, <1>4, <1>5, <1>6, <1>7

LEMMA UnlockRQ ==
  ASSUME IInv, SpinlockUnlock
  PROVE  /\ run_queue' \in Seq(Contexts)
         /\ RQ(run_queue', current', c_state', c_priority', base', held')
         /\ AsleepAs(c_state)
<1> DEFINE n == Len(held[current])
           l == held[current][n]
           p == l_pri_unlocked[l]
           pri == [c_priority EXCEPT ![current] = p]
           hd == [held EXCEPT ![current] = SubSeq(@, 1, Len(@) - 1)]
           t == Tail(run_queue)
<1>1. /\ held[current] # <<>>
      /\ c_priority' = pri /\ held' = hd /\ base' = base
      /\ ReschedAt(run_queue, c_state, pri, p)
  BY DEF SpinlockUnlock
<1>2. l \in Locks /\ p <= base[current]
  <2>1. current \in Contexts /\ TypeOK /\ LockStack
    BY Basics DEF IInv, LockInv
  <2> QED
    BY <1>1, <2>1, Innermost
<1>3. p \in Int
  BY <1>2, Basics
<1> HIDE DEF p, l, n
<1>4. pri \in [Contexts -> Int] /\ pri[current] = p
  BY <1>3, Basics
<1>5. \A c \in Contexts \ {current} : pri[c] = c_priority[c] /\ hd[c] = held[c]
  BY Basics DEF IInv, TypeOK
<1>6. QueueOK(t, c_priority, base, held) /\ current \notin Members(t)
  BY Basics
<1>7. \A e \in Members(t) : e \in Contexts \ {current}
  BY <1>6, Basics
<1> HIDE DEF pri, hd
<1>8. QueueOK(t, pri, base, hd)
  BY <1>5, <1>6, <1>7, AgreeQueueOK
<1>9. \A e \in Members(t) : IF hd[e] = <<>> THEN base[e] = pri[e] ELSE base[current] < pri[e]
  BY <1>5, <1>7, Basics, HolderBehind
<1>10. /\ run_queue \in Seq(Contexts) /\ run_queue # <<>> /\ Head(run_queue) = current
       /\ c_state \in [Contexts -> States]
       /\ \A c \in Contexts : (c_state[c] \in Runnable <=> c \in Members(t) \cup {current})
                              /\ (c_state[c] = "RUNNING" <=> c = current)
  BY Basics DEF RQ
<1>11. pri[current] <= base[current] /\ ReschedAt(run_queue, c_state, pri, pri[current])
  BY <1>1, <1>2, <1>4
<1>12. /\ run_queue' \in Seq(Contexts)
       /\ RQ(run_queue', current', c_state', pri, base, hd)
       /\ AsleepAs(c_state)
  BY <1>4, <1>6, <1>8, <1>9, <1>10, <1>11, ReschedRQ
<1> QED
  BY <1>1, <1>12

\* A trap handler wakes at most one context, at priority 0, and gives way to
\* it if it is more urgent than the interrupted one.
LEMMA TrapRQ ==
  ASSUME IInv, NEW l, NEW c \in Contexts, NEW rest, TrapSignal(l, c, rest)
  PROVE  /\ run_queue' \in Seq(Contexts)
         /\ RQ(run_queue', current', c_state', c_priority', base', held')
         /\ AsleepAs(IF c_state[c] = "SLEEP" THEN [c_state EXCEPT ![c] = "READY"] ELSE c_state)
<1> DEFINE wakes == c_state[c] = "SLEEP"
           at0 == [c_priority EXCEPT ![current] = 0]
           k == AfterEquals(run_queue, at0, at0[c])
           q == IF wakes THEN LinkAt(run_queue, k, c) ELSE run_queue
           st == IF wakes THEN [c_state EXCEPT ![c] = "READY"] ELSE c_state
<1>1. /\ c_priority' = c_priority /\ base' = base /\ held' = held
      /\ ReschedAt(q, st, c_priority, c_priority[current])
  BY DEF TrapSignal, Readied
<1>2. /\ c_priority \in [Contexts -> Int] /\ current \in Contexts /\ base \in [Contexts -> Int]
      /\ c_priority[current] <= base[current]
  BY Basics
<1>3. /\ q \in Seq(Contexts) /\ q # <<>> /\ Head(q) = current
      /\ QueueOK(Tail(q), c_priority, base, held) /\ current \notin Members(Tail(q))
      /\ Members(Tail(q)) = IF wakes THEN Members(Tail(run_queue)) \cup {c} ELSE Members(Tail(run_queue))
  <2>1. CASE ~wakes
    BY <2>1, Basics DEF RQ
  <2>2. CASE wakes
    <3> DEFINE r == LinkAt(run_queue, k, c)
    <3>1. c \notin Members(run_queue) /\ held[c] = <<>> /\ c # current
      BY <2>2, Basics DEF RQ, Runnable, IInv, SleepInv, SleepersCanResume
    <3>2. at0 \in [Contexts -> Int] /\ at0[c] = c_priority[c] /\ at0[current] = 0
      BY <1>2, <3>1
    <3>3. 0 <= c_priority[c] /\ 0 <= c_priority[current]
      BY DEF IInv, TypeOK, Priorities, Byte
    <3>4. QueueOK(run_queue, at0, base, held)
      <4>1. \A d \in Contexts \ {current} : at0[d] = c_priority[d] /\ held[d] = held[d]
        BY <1>2
      <4>2. at0[current] <= c_priority[current]
        BY <3>2, <3>3
      <4> HIDE DEF at0
      <4>3. RQ(run_queue, current, c_state, at0, base, held)
        BY <3>2, <4>1, <4>2, RaiseRQ
      <4> QED
        BY <4>3 DEF RQ
    <3>5. \A d \in Contexts \ {current} : at0[d] = c_priority[d]
      BY <1>2
    <3>6. base[c] = c_priority[c] /\ run_queue # <<>> /\ Head(run_queue) = current
      BY <3>1, Basics DEF RQ
    <3> HIDE DEF at0
    <3>7. FitsAt(run_queue, k, c, at0, base, held) /\ k # 1
      BY <3>1, <3>2, <3>3, <3>4, <3>6, FitsAfter
    <3> HIDE DEF k
    <3>8. /\ QueueOK(r, at0, base, held)
          /\ Len(r) = Len(run_queue) + 1
          /\ Members(r) = Members(run_queue) \cup {c}
          /\ Head(r) = current
      <4>1. /\ QueueOK(r, at0, base, held)
            /\ Len(r) = Len(run_queue) + 1
            /\ Members(r) = Members(run_queue) \cup {c}
            /\ Head(r) = IF k = 1 THEN c ELSE Head(run_queue)
        BY <3>4, <3>7, LinkQueueOK
      <4> QED
        BY <3>6, <3>7, <4>1
    <3> HIDE DEF r
    <3>9. r \in Seq(Contexts) /\ r # <<>>
      <4>1. r \in Seq(Contexts) /\ Len(run_queue) \in Nat
        BY <3>8, Basics, LenProperties DEF QueueOK
      <4> QED
        BY <3>8, <4>1, EmptySeq
    <3>10. QueueOK(Tail(r), at0, base, held) /\ Members(Tail(r)) = Members(r) \ {current}
      BY <3>8, <3>9, TailQueueOK
    <3>11. \A e \in Members(Tail(r)) : e \in Contexts \ {current}
      BY <3>8, <3>10, Basics
    <3>12. QueueOK(Tail(r), c_priority, base, held)
      BY <3>5, <3>10, <3>11, AgreeQueueOK
    <3>13. Members(Tail(r)) = Members(Tail(run_queue)) \cup {c}
      BY <3>1, <3>8, <3>10, Basics
    <3>14. q = r
      BY <2>2 DEF r
    <3> QED
      BY <2>2, <3>8, <3>9, <3>11, <3>12, <3>13, <3>14
  <2> QED
    BY <2>1, <2>2
<1>4. st \in [Contexts -> States]
  BY Basics DEF States
<1>5. \A d \in Contexts : (st[d] \in Runnable <=> d \in Members(Tail(q)) \cup {current})
                          /\ (st[d] = "RUNNING" <=> d = current)
  <2>1. CASE wakes
    BY <1>3, <2>1, Basics DEF RQ, Runnable
  <2>2. CASE ~wakes
    BY <1>3, <2>2, Basics DEF RQ
  <2> QED
    BY <2>1, <2>2
<1>6. \A e \in Members(Tail(q)) :
        IF held[e] = <<>> THEN base[e] = c_priority[e] ELSE base[current] < c_priority[e]
  <2>1. \A e \in Members(Tail(q)) : e \in Contexts /\ e # current
    BY <1>3, Basics
  <2> QED
    BY <2>1, Basics, HolderBehind
<1> HIDE DEF q, st
<1>7. /\ run_queue' \in Seq(Contexts)
      /\ RQ(run_queue', current', c_state', c_priority, base, held)
      /\ AsleepAs(st)
  BY <1>1, <1>2, <1>3, <1>4, <1>5, <1>6, ReschedRQ
<1> QED
  BY <1>1, <1>7 DEF st

=============================================================================
