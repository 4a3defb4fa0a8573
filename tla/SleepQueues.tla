---------------------------- MODULE SleepQueues ----------------------------
(***************************************************************************)
(* Facts about sleep queues in which every sleeper is once, as the         *)
(* reader/writer locks, the semaphores and the one-shot timers use them:   *)
(* who is in the queue after a link, an unlink or a signal, and that       *)
(* context_wait_pri_queue() keeps it in order of priority.                 *)
(***************************************************************************)
EXTENDS SeqLemmas, FiniteSetTheorems

Sleepers(q) == {q[i] : i \in 1 .. Len(q)}

\* Every entry of q is of S and is there once.
OnceIn(q, S) ==
  /\ q \in Seq(S)
  /\ \A i, j \in 1 .. Len(q) : q[i] = q[j] => i = j

\* Nobody in q is behind a less urgent one.
ByUrgency(q, pri) == \A i, j \in 1 .. Len(q) : i < j => pri[q[i]] <= pri[q[j]]

-----------------------------------------------------------------------------

\* Linking c in at k moves the entries from k on one place back, and no others.
LEMMA LinkedEntries ==
  ASSUME NEW S, NEW q \in Seq(S), NEW k \in 1 .. Len(q) + 1, NEW c \in S,
         NEW i \in 1 .. Len(q) + 1
  PROVE  /\ LinkAt(q, k, c) \in Seq(S)
         /\ Len(LinkAt(q, k, c)) = Len(q) + 1
         /\ Len(q) \in Nat
         /\ i = k => LinkAt(q, k, c)[i] = c
         /\ i < k => i \in 1 .. Len(q) /\ LinkAt(q, k, c)[i] = q[i]
         /\ i > k => i - 1 \in 1 .. Len(q) /\ LinkAt(q, k, c)[i] = q[i - 1]
<1>1. Len(q) \in Nat
  BY LenProperties
<1>2. LinkAt(q, k, c) \in Seq(S) /\ Len(LinkAt(q, k, c)) = Len(q) + 1
  BY LinkAtProperties
<1>3. i = k => LinkAt(q, k, c)[i] = c
  BY LinkAtProperties
<1>4. i < k => i \in 1 .. Len(q) /\ LinkAt(q, k, c)[i] = q[i]
  <2>1. \A j \in 1 .. k - 1 : LinkAt(q, k, c)[j] = q[j]
    BY LinkAtProperties
  <2> QED
    BY <1>1, <2>1
<1>5. i > k => i - 1 \in 1 .. Len(q) /\ LinkAt(q, k, c)[i] = q[i - 1]
  <2>1. \A j \in k + 1 .. Len(q) + 1 : LinkAt(q, k, c)[j] = q[j - 1]
    BY LinkAtProperties
  <2> QED
    BY <1>1, <2>1
<1> QED
  BY <1>1, <1>2, <1>3, <1>4, <1>5

\* A context that goes to sleep joins those that sleep in the queue.
LEMMA LinkOnce ==
  ASSUME NEW S, NEW q, OnceIn(q, S), NEW k \in 1 .. Len(q) + 1, NEW c \in S,
         c \notin Sleepers(q)
  PROVE  /\ OnceIn(LinkAt(q, k, c), S)
         /\ Sleepers(LinkAt(q, k, c)) = Sleepers(q) \cup {c}
         /\ Len(LinkAt(q, k, c)) = Len(q) + 1
<1> DEFINE r == LinkAt(q, k, c)
<1>1. q \in Seq(S) /\ \A i, j \in 1 .. Len(q) : q[i] = q[j] => i = j
  BY DEF OnceIn
<1>2. Len(q) \in Nat /\ r \in Seq(S) /\ Len(r) = Len(q) + 1
  BY <1>1, LinkAtProperties, LenProperties
<1>3. \A i \in 1 .. Len(q) + 1 :
        /\ i = k => r[i] = c
        /\ i < k => i \in 1 .. Len(q) /\ r[i] = q[i]
        /\ i > k => i - 1 \in 1 .. Len(q) /\ r[i] = q[i - 1]
  BY <1>1, LinkedEntries
<1>4. \A i \in 1 .. Len(q) : q[i] # c
  BY DEF Sleepers
<1> HIDE DEF r
<1>5. ASSUME NEW i \in 1 .. Len(r), NEW j \in 1 .. Len(r), r[i] = r[j]
      PROVE  i = j
  <2>1. CASE i = k \/ j = k
    BY <1>2, <1>3, <1>4, <1>5, <2>1
  <2>2. CASE i # k /\ j # k
    <3> DEFINE m == IF i < k THEN i ELSE i - 1
               n == IF j < k THEN j ELSE j - 1
    <3>1. m \in 1 .. Len(q) /\ n \in 1 .. Len(q) /\ q[m] = q[n]
      BY <1>2, <1>3, <1>5, <2>2
    <3>2. m = n
      BY <1>1, <3>1
    <3> QED
      BY <1>2, <2>2, <3>2
  <2> QED
    BY <2>1, <2>2
<1>6. \A i \in 1 .. Len(q) : \E n \in 1 .. Len(r) : r[n] = q[i]
  <2> TAKE i \in 1 .. Len(q)
  <2>1. CASE i < k
    BY <1>2, <1>3, <2>1
  <2>2. CASE i >= k
    <3>1. i + 1 \in 1 .. Len(r) /\ i + 1 > k /\ i + 1 - 1 = i
      BY <1>2, <2>2
    <3>2. r[i + 1] = q[i]
      BY <1>2, <1>3, <3>1
    <3> QED
      BY <3>1, <3>2
  <2> QED
    BY <1>2, <2>1, <2>2
<1>7. Sleepers(r) = Sleepers(q) \cup {c}
  <2>1. \A i \in 1 .. Len(r) : r[i] = c \/ \E n \in 1 .. Len(q) : r[i] = q[n]
    BY <1>2, <1>3
  <2>2. k \in 1 .. Len(r) /\ r[k] = c
    BY <1>2, <1>3
  <2>3. ASSUME NEW x \in Sleepers(r)
        PROVE  x \in Sleepers(q) \cup {c}
    <3>1. PICK i \in 1 .. Len(r) : x = r[i]
      BY <2>3 DEF Sleepers
    <3>2. x = c \/ \E n \in 1 .. Len(q) : x = q[n]
      BY <2>1, <3>1
    <3> QED
      BY <3>2 DEF Sleepers
  <2>4. ASSUME NEW x \in Sleepers(q)
        PROVE  x \in Sleepers(r)
    <3>1. PICK i \in 1 .. Len(q) : x = q[i]
      BY <2>4 DEF Sleepers
    <3>2. PICK n \in 1 .. Len(r) : r[n] = q[i]
      BY <1>6, <3>1
    <3> QED
      BY <3>1, <3>2 DEF Sleepers
  <2>5. c \in Sleepers(r)
    BY <2>2 DEF Sleepers
  <2> QED
    BY <2>3, <2>4, <2>5
<1> QED
  BY <1>2, <1>5, <1>7 DEF OnceIn, r

\* Linked in where context_wait_pri_queue() puts it, a sleeper leaves the queue in
\* order of urgency.
LEMMA LinkByUrgency ==
  ASSUME NEW S, NEW q, OnceIn(q, S), NEW pri \in [S -> Int], ByUrgency(q, pri), NEW c \in S
  PROVE  /\ AfterEquals(q, pri, pri[c]) \in 1 .. Len(q) + 1
         /\ ByUrgency(LinkAt(q, AfterEquals(q, pri, pri[c]), c), pri)
<1> DEFINE k == AfterEquals(q, pri, pri[c])
           r == LinkAt(q, k, c)
<1>1. q \in Seq(S) /\ Len(q) \in Nat /\ \A j \in 1 .. Len(q) : q[j] \in S
  BY LenProperties, ElementOfSeq DEF OnceIn
<1>2. pri[c] \in Int /\ \A j \in 1 .. Len(q) : pri[q[j]] \in Int
  BY <1>1
<1>3. /\ k \in 1 .. Len(q) + 1
      /\ \A j \in 1 .. k - 1 : pri[q[j]] <= pri[c]
      /\ k <= Len(q) => pri[q[k]] > pri[c]
  <2> DEFINE stop == {j \in 1 .. Len(q) : pri[q[j]] > pri[c]}
  <2> HIDE DEF stop
  <2>1. PICK i \in 1 .. Len(q) + 1 : /\ \A j \in 1 .. i - 1 : j \notin stop
                                     /\ i <= Len(q) => i \in stop
    BY <1>1, WalkStops, Zenon
  <2> USE DEF stop
  <2>2. /\ \A j \in 1 .. i - 1 : pri[q[j]] <= pri[c]
        /\ i <= Len(q) => pri[q[i]] > pri[c]
    BY <1>1, <1>2, <2>1
  <2> QED
    BY <2>2, Zenon DEF AfterEquals
<1> HIDE DEF k
<1>4. Len(r) = Len(q) + 1
  BY <1>1, <1>3, LinkAtProperties
<1>5. \A i \in 1 .. Len(q) + 1 :
        /\ i = k => r[i] = c
        /\ i < k => i \in 1 .. Len(q) /\ r[i] = q[i]
        /\ i > k => i - 1 \in 1 .. Len(q) /\ r[i] = q[i - 1]
  BY <1>1, <1>3, LinkedEntries
<1>6. \A i, j \in 1 .. Len(q) : i < j => pri[q[i]] <= pri[q[j]]
  BY DEF ByUrgency
<1>7. \A j \in 1 .. Len(q) : j >= k => pri[c] <= pri[q[j]]
  <2> TAKE j \in 1 .. Len(q)
  <2>1. CASE j = k
    BY <1>1, <1>2, <1>3, <2>1
  <2>2. CASE j > k
    <3>1. k \in 1 .. Len(q) /\ pri[q[k]] > pri[c] /\ pri[q[k]] <= pri[q[j]]
      BY <1>1, <1>3, <1>6, <2>2
    <3> QED
      BY <1>2, <3>1
  <2> QED
    BY <1>1, <1>3, <2>1, <2>2
<1> HIDE DEF r
<1>8. ASSUME NEW i \in 1 .. Len(r), NEW j \in 1 .. Len(r), i < j
      PROVE  pri[r[i]] <= pri[r[j]]
  <2> USE <1>1, <1>4, <1>8
  <2>1. CASE j < k
    <3>1. r[i] = q[i] /\ r[j] = q[j] /\ i \in 1 .. Len(q) /\ j \in 1 .. Len(q)
      BY <1>3, <1>5, <2>1
    <3> QED
      BY ONLY <1>6, <1>8, <3>1, Zenon
  <2>2. CASE j = k
    <3>1. r[i] = q[i] /\ r[j] = c /\ i \in 1 .. k - 1
      BY <1>3, <1>5, <2>2
    <3> QED
      BY <1>3, <3>1
  <2>3. CASE j > k /\ i < k
    <3>1. /\ r[i] = q[i] /\ i \in 1 .. Len(q)
          /\ r[j] = q[j - 1] /\ j - 1 \in 1 .. Len(q) /\ j - 1 >= k
      BY <1>3, <1>5, <2>3
    <3>2. i \in 1 .. k - 1
      BY <1>3, <2>3
    <3>3. pri[q[i]] <= pri[c] /\ pri[c] <= pri[q[j - 1]]
      BY ONLY <1>3, <1>7, <3>1, <3>2, Zenon
    <3> QED
      BY <1>2, <3>1, <3>3
  <2>4. CASE j > k /\ i = k
    <3>1. r[i] = c /\ r[j] = q[j - 1] /\ j - 1 \in 1 .. Len(q) /\ j - 1 >= k
      BY <1>3, <1>5, <2>4
    <3> QED
      BY <1>7, <3>1
  <2>5. CASE j > k /\ i > k
    <3>1. /\ r[i] = q[i - 1] /\ i - 1 \in 1 .. Len(q)
          /\ r[j] = q[j - 1] /\ j - 1 \in 1 .. Len(q) /\ i - 1 < j - 1
      BY <1>3, <1>5, <2>5
    <3> QED
      BY ONLY <1>6, <3>1, Zenon
  <2> QED
    BY <1>3, <2>1, <2>2, <2>3, <2>4, <2>5
<1> QED
  BY <1>3, <1>8 DEF ByUrgency, k, r

\* A context that is taken out of the queue leaves the others as they were.
LEMMA UnlinkOnce ==
  ASSUME NEW S, NEW q, OnceIn(q, S), NEW k \in 1 .. Len(q)
  PROVE  /\ OnceIn(UnlinkAt(q, k), S)
         /\ Sleepers(UnlinkAt(q, k)) = Sleepers(q) \ {q[k]}
         /\ Len(UnlinkAt(q, k)) = Len(q) - 1
         /\ \A pri : ByUrgency(q, pri) => ByUrgency(UnlinkAt(q, k), pri)
<1> DEFINE r == UnlinkAt(q, k)
<1>1. /\ q \in Seq(S) /\ Len(q) \in Nat
      /\ \A i, j \in 1 .. Len(q) : q[i] = q[j] => i = j
  BY LenProperties DEF OnceIn
<1>2. r \in Seq(S) /\ Len(r) = Len(q) - 1
  BY <1>1, UnlinkAtProperties
<1>3. /\ \A i \in 1 .. k - 1 : r[i] = q[i]
      /\ \A i \in k .. Len(q) - 1 : r[i] = q[i + 1]
  BY <1>1, UnlinkAtProperties
<1> HIDE DEF r
<1> DEFINE Old(i) == IF i < k THEN i ELSE i + 1
<1>4. \A i \in 1 .. Len(r) : Old(i) \in 1 .. Len(q) /\ Old(i) # k /\ r[i] = q[Old(i)]
  BY <1>1, <1>2, <1>3
<1>5. \A i, j \in 1 .. Len(r) : (Old(i) = Old(j) => i = j) /\ (i < j => Old(i) < Old(j))
  BY <1>1, <1>2
<1>6. \A i \in 1 .. Len(q) : i # k => \E n \in 1 .. Len(r) : r[n] = q[i]
  <2> SUFFICES ASSUME NEW i \in 1 .. Len(q), i # k
               PROVE  \E n \in 1 .. Len(r) : r[n] = q[i]
    OBVIOUS
  <2>1. CASE i < k
    BY <1>1, <1>2, <1>3, <2>1
  <2>2. CASE i > k
    <3>1. i - 1 \in 1 .. Len(r) /\ i - 1 \in k .. Len(q) - 1 /\ (i - 1) + 1 = i
      BY <1>1, <1>2, <2>2
    <3>2. r[i - 1] = q[i]
      BY <1>3, <3>1
    <3> QED
      BY <3>1, <3>2
  <2> QED
    BY <1>1, <2>1, <2>2
<1> HIDE DEF Old
<1>7. OnceIn(r, S)
  BY <1>1, <1>2, <1>4, <1>5 DEF OnceIn
<1>8. Sleepers(r) = Sleepers(q) \ {q[k]}
  <2>1. \A x : x \in Sleepers(r) => x \in Sleepers(q) /\ x # q[k]
    BY <1>1, <1>4 DEF Sleepers
  <2>2. \A x : x \in Sleepers(q) /\ x # q[k] => x \in Sleepers(r)
    BY <1>6, Zenon DEF Sleepers
  <2> QED
    BY <2>1, <2>2
<1>9. ASSUME NEW pri, ByUrgency(q, pri)
      PROVE  ByUrgency(r, pri)
  BY <1>4, <1>5, <1>9 DEF ByUrgency
<1> QED
  BY <1>2, <1>7, <1>8, <1>9 DEF r

\* context_signal_queue() takes the head out, and in a priority queue that is a
\* sleeper as urgent as any.
LEMMA TailOnce ==
  ASSUME NEW S, NEW q, OnceIn(q, S), q # <<>>
  PROVE  /\ Head(q) \in S /\ Head(q) \in Sleepers(q)
         /\ OnceIn(Tail(q), S)
         /\ Sleepers(Tail(q)) = Sleepers(q) \ {Head(q)}
         /\ Len(Tail(q)) = Len(q) - 1
         /\ \A pri : ByUrgency(q, pri) => ByUrgency(Tail(q), pri)
<1>1. /\ q \in Seq(S) /\ Len(q) \in Nat /\ 1 \in 1 .. Len(q) /\ Head(q) = q[1]
      /\ \A i \in 1 .. Len(q) : q[i] \in S
  BY LenProperties, ElementOfSeq, EmptySeq, HeadTailProperties DEF OnceIn
<1>2. UnlinkAt(q, 1) = Tail(q)
  <2>1. Tail(q) \in Seq(S) /\ Tail(q) = SubSeq(q, 2, Len(q))
    BY <1>1, HeadTailProperties, TailIsSubSeq
  <2>2. SubSeq(q, 1, 1 - 1) = <<>> /\ 1 + 1 = 2
    BY <1>1
  <2>3. <<>> \o Tail(q) = Tail(q)
    BY <2>1, ConcatEmptySeq
  <2> QED
    BY <2>1, <2>2, <2>3 DEF UnlinkAt
<1>3. Head(q) \in S /\ Head(q) \in Sleepers(q)
  BY <1>1 DEF Sleepers
<1>4. /\ OnceIn(UnlinkAt(q, 1), S)
      /\ Sleepers(UnlinkAt(q, 1)) = Sleepers(q) \ {q[1]}
      /\ Len(UnlinkAt(q, 1)) = Len(q) - 1
      /\ \A pri : ByUrgency(q, pri) => ByUrgency(UnlinkAt(q, 1), pri)
  BY <1>1, UnlinkOnce
<1> QED
  BY <1>1, <1>2, <1>3, <1>4

\* The head of a priority queue is as urgent as any sleeper.
LEMMA HeadMostUrgent ==
  ASSUME NEW S, NEW q, OnceIn(q, S), NEW pri \in [S -> Int], ByUrgency(q, pri),
         NEW d \in Sleepers(q)
  PROVE  q # <<>> /\ pri[Head(q)] <= pri[d]
<1>1. PICK i \in 1 .. Len(q) : q[i] = d
  BY DEF Sleepers
<1>2. /\ q \in Seq(S) /\ Len(q) \in Nat /\ q # <<>> /\ 1 \in 1 .. Len(q) /\ Head(q) = q[1]
      /\ q[1] \in S
  BY LenProperties, ElementOfSeq, EmptySeq, HeadTailProperties DEF OnceIn
<1>3. i = 1 \/ 1 < i
  BY <1>2
<1> QED
  BY <1>1, <1>2, <1>3 DEF ByUrgency

\* As many contexts sleep in a queue as it has entries.
LEMMA SleepersCount ==
  ASSUME NEW S, NEW q, OnceIn(q, S)
  PROVE  /\ IsFiniteSet(Sleepers(q)) /\ Cardinality(Sleepers(q)) = Len(q)
         /\ Sleepers(q) \subseteq S
<1>1. q \in Seq(S) /\ Len(q) \in Nat /\ \A i \in 1 .. Len(q) : q[i] \in S
  BY LenProperties, ElementOfSeq DEF OnceIn
<1> DEFINE f == [i \in 1 .. Len(q) |-> q[i]]
<1>2. f \in Bijection(1 .. Len(q), Sleepers(q))
  <2>1. f \in [1 .. Len(q) -> Sleepers(q)]
    BY DEF Sleepers
  <2>2. \A i, j \in 1 .. Len(q) : f[i] = f[j] => i = j
    BY DEF OnceIn
  <2>3. \A x \in Sleepers(q) : \E i \in 1 .. Len(q) : f[i] = x
    BY DEF Sleepers
  <2> QED
    BY <2>1, <2>2, <2>3, Zenon DEF Bijection, Injection, Surjection, IsInjective
<1>3. ExistsBijection(1 .. Len(q), Sleepers(q))
  BY <1>2 DEF ExistsBijection
<1>4. IsFiniteSet(1 .. Len(q)) /\ Cardinality(1 .. Len(q)) = Len(q)
  <2>1. 1 \in Int /\ Len(q) \in Int
    BY <1>1
  <2>2. /\ IsFiniteSet(1 .. Len(q))
        /\ Cardinality(1 .. Len(q)) = IF 1 > Len(q) THEN 0 ELSE Len(q) - 1 + 1
    BY <2>1, FS_Interval, Zenon
  <2> QED
    BY <1>1, <2>2
<1>5. IsFiniteSet(Sleepers(q)) /\ Cardinality(Sleepers(q)) = Len(q)
  BY <1>3, <1>4, FS_Bijection
<1> QED
  BY <1>1, <1>5 DEF Sleepers

=============================================================================
