----------------------------- MODULE SeqLemmas -----------------------------
(***************************************************************************)
(* Facts about the sequences that model the linked lists of the library:   *)
(* what inserting, removing and taking the tail do to each position, and   *)
(* that a list walk which stops at the first entry with a property stops   *)
(* somewhere.                                                              *)
(***************************************************************************)
EXTENDS Lists, SequenceTheorems, NaturalsInduction,
        WellFoundedInduction, TLAPS

\* A non-empty set of natural numbers has a least element.
LEMMA LeastNat ==
  ASSUME NEW T \in SUBSET Nat, T # {}
  PROVE  \E n \in T : \A k \in T : n <= k
<1>1. IsWellFoundedOn(OpToRel(<, Nat), Nat)
  BY NatLessThanWellFounded
<1>2. PICK n \in T : \A k \in T : ~(<<k, n>> \in OpToRel(<, Nat))
  BY <1>1, WFMin
<1>3. ASSUME NEW k \in T
      PROVE  n <= k
  <2>1. CASE k < n
    <3>1. <<k, n>> \in Nat \X Nat /\ <<k, n>>[1] < <<k, n>>[2]
      BY <2>1
    <3>2. <<k, n>> \in OpToRel(<, Nat)
      BY <3>1, Zenon DEF OpToRel
    <3> QED
      BY <3>2, <1>2
  <2> QED
    BY <2>1
<1> QED
  BY <1>3

\* LinkAt puts e at position k and moves the entries from k on up by one.
LEMMA LinkAtProperties ==
  ASSUME NEW S, NEW q \in Seq(S), NEW k \in 1 .. Len(q) + 1, NEW e \in S
  PROVE  /\ LinkAt(q, k, e) \in Seq(S)
         /\ Len(LinkAt(q, k, e)) = Len(q) + 1
         /\ \A i \in 1 .. k - 1 : LinkAt(q, k, e)[i] = q[i]
         /\ LinkAt(q, k, e)[k] = e
         /\ \A i \in k .. Len(q) : LinkAt(q, k, e)[i + 1] = q[i]
         /\ \A i \in k + 1 .. Len(q) + 1 : LinkAt(q, k, e)[i] = q[i - 1]
<1> DEFINE a == SubSeq(q, 1, k - 1)
           b == SubSeq(q, k, Len(q))
           m == a \o <<e>>
<1>1. a \in Seq(S) /\ Len(a) = k - 1 /\ \A i \in 1 .. k - 1 : a[i] = q[i]
  BY SubSeqProperties, LenProperties, ElementOfSeq
<1>2. b \in Seq(S) /\ Len(b) = Len(q) - k + 1 /\ \A i \in 1 .. Len(q) - k + 1 : b[i] = q[k + i - 1]
  BY SubSeqProperties, LenProperties, ElementOfSeq
<1>3. LinkAt(q, k, e) = m \o b
  BY DEF LinkAt
<1> HIDE DEF a, b
<1>4. /\ m \in Seq(S)
      /\ Len(m) = k
      /\ \A i \in 1 .. k : m[i] = IF i <= k - 1 THEN a[i] ELSE <<e>>[i - (k - 1)]
  <2>1. <<e>> \in Seq(S) /\ Len(<<e>>) = 1
    OBVIOUS
  <2> QED
    BY <1>1, <2>1, ConcatProperties
<1> HIDE DEF m
<1>5. m[k] = e /\ \A i \in 1 .. k - 1 : m[i] = q[i]
  <2>1. Len(q) \in Nat /\ k \in 1 .. k /\ k - (k - 1) = 1
    BY LenProperties
  <2>2. m[k] = <<e>>[1]
    BY <1>4, <2>1
  <2> QED
    BY <1>1, <1>4, <2>1, <2>2
<1>6. /\ m \o b \in Seq(S)
      /\ Len(m \o b) = Len(q) + 1
      /\ \A i \in 1 .. Len(q) + 1 : (m \o b)[i] = IF i <= k THEN m[i] ELSE b[i - k]
  <2>1. Len(q) \in Nat /\ Len(m) + Len(b) = Len(q) + 1
    BY <1>2, <1>4, LenProperties
  <2>2. /\ m \o b \in Seq(S)
        /\ Len(m \o b) = Len(m) + Len(b)
        /\ \A i \in 1 .. Len(m) + Len(b) : (m \o b)[i] = IF i <= Len(m) THEN m[i] ELSE b[i - Len(m)]
    BY <1>2, <1>4, ConcatProperties
  <2> QED
    BY <1>4, <2>1, <2>2
<1>7. \A i \in 1 .. Len(q) + 1 : i > k => b[i - k] = q[i - 1]
  BY <1>2, LenProperties
<1>8. Len(q) \in Nat /\ \A i \in k .. Len(q) : i + 1 \in k + 1 .. Len(q) + 1
  BY LenProperties
<1>9. \A i \in k + 1 .. Len(q) + 1 : (m \o b)[i] = q[i - 1]
  BY <1>6, <1>7, <1>8
<1>10. ASSUME NEW i \in k .. Len(q)
       PROVE  (m \o b)[i + 1] = q[i]
  <2>1. i + 1 \in k + 1 .. Len(q) + 1 /\ (i + 1) - 1 = i
    BY <1>8
  <2> QED
    BY <1>9, <2>1
<1>11. (m \o b)[k] = e /\ \A i \in 1 .. k - 1 : (m \o b)[i] = q[i]
  BY <1>5, <1>6, <1>8
<1> QED
  BY <1>3, <1>6, <1>9, <1>10, <1>11

\* UnlinkAt drops the entry at position k.
LEMMA UnlinkAtProperties ==
  ASSUME NEW S, NEW q \in Seq(S), NEW k \in 1 .. Len(q)
  PROVE  /\ UnlinkAt(q, k) \in Seq(S)
         /\ Len(UnlinkAt(q, k)) = Len(q) - 1
         /\ \A i \in 1 .. k - 1 : UnlinkAt(q, k)[i] = q[i]
         /\ \A i \in k .. Len(q) - 1 : UnlinkAt(q, k)[i] = q[i + 1]
<1> DEFINE a == SubSeq(q, 1, k - 1)
           b == SubSeq(q, k + 1, Len(q))
<1>1. a \in Seq(S) /\ Len(a) = k - 1 /\ \A i \in 1 .. k - 1 : a[i] = q[i]
  BY SubSeqProperties, LenProperties, ElementOfSeq
<1>2. b \in Seq(S) /\ Len(b) = Len(q) - k /\ \A i \in 1 .. Len(q) - k : b[i] = q[k + i]
  BY SubSeqProperties, LenProperties, ElementOfSeq
<1>3. UnlinkAt(q, k) = a \o b
  BY DEF UnlinkAt
<1> HIDE DEF a, b
<1>4. /\ a \o b \in Seq(S)
      /\ Len(a \o b) = Len(q) - 1
      /\ \A i \in 1 .. Len(q) - 1 : (a \o b)[i] = IF i <= k - 1 THEN a[i] ELSE b[i - (k - 1)]
  <2>1. /\ a \o b \in Seq(S)
        /\ Len(a \o b) = Len(a) + Len(b)
        /\ \A i \in 1 .. Len(a) + Len(b) : (a \o b)[i] = IF i <= Len(a) THEN a[i] ELSE b[i - Len(a)]
    BY <1>1, <1>2, ConcatProperties
  <2>2. Len(a) + Len(b) = Len(q) - 1
    BY <1>1, <1>2, LenProperties
  <2> QED
    BY <1>1, <2>1, <2>2
<1>5. Len(q) \in Nat /\ \A i \in 1 .. Len(q) - 1 : i >= k => i - (k - 1) \in 1 .. Len(q) - k
  BY LenProperties
<1>6. \A i \in 1 .. Len(q) - 1 : i >= k => b[i - (k - 1)] = q[i + 1]
  <2> SUFFICES ASSUME NEW i \in 1 .. Len(q) - 1, i >= k
               PROVE  b[i - (k - 1)] = q[i + 1]
    OBVIOUS
  <2>1. i - (k - 1) \in 1 .. Len(q) - k
    BY <1>5
  <2>2. k + (i - (k - 1)) = i + 1
    BY <1>5
  <2>3. b[i - (k - 1)] = q[k + (i - (k - 1))]
    BY <1>2, <2>1
  <2> QED
    BY <2>2, <2>3
<1> QED
  BY <1>1, <1>3, <1>4, <1>5, <1>6

\* A walk along q that stops at the first entry i for which i \in stop, or at
\* the end, stops at a position that none of the stopping entries precedes.
LEMMA WalkStops ==
  ASSUME NEW n \in Nat, NEW stop
  PROVE  \E i \in 1 .. n + 1 : /\ \A j \in 1 .. i - 1 : j \notin stop
                               /\ i <= n => i \in stop
<1> DEFINE T == {i \in 1 .. n + 1 : i <= n => i \in stop}
<1>1. T \in SUBSET Nat /\ n + 1 \in T
  OBVIOUS
<1>2. PICK i \in T : \A k \in T : i <= k
  BY <1>1, LeastNat
<1> QED
  BY <1>2

=============================================================================
