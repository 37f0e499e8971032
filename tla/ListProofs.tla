----------------------------- MODULE ListProofs -----------------------------
(***************************************************************************)
(* Facts about natural numbers and lists that the proofs share.             *)
(***************************************************************************)
EXTENDS Lists, Integers, FiniteSetTheorems, TLAPS

\* A set of natural numbers that is not empty has a least element.
LEMMA LeastNat ==
  ASSUME NEW T, \A x \in T : x \in Nat, T # {}
  PROVE  \E x \in T : \A y \in T : x <= y
<1> DEFINE R == OpToRel(<, Nat)
<1>1. IsWellFoundedOn(R, Nat)
  BY ZenonT(40), NatLessThanWellFounded
<1>2. \A x, y \in Nat : x < y => <<x, y>> \in R
  BY DEF OpToRel
<1> HIDE DEF R
<1>3. PICK x \in T : \A y \in T : ~(<<y, x>> \in R)
  <2>1. T \subseteq Nat
    OBVIOUS
  <2>2. QED
    BY ZenonT(40), <1>1, <2>1, WFMin
<1>4. ASSUME NEW y \in T PROVE x <= y
  <2>1. ~(y < x)
    BY ZenonT(40), <1>2, <1>3
  <2>2. QED
    BY <2>1
<1>5. QED
  BY <1>4

\* Every entry of a list from which entries were removed is the entry at one of
\* the indices kept.
LEMMA KeptIndex ==
  ASSUME NEW n \in Nat, NEW I, \A i \in I : i \in 1 .. n, NEW k \in 1 .. Cardinality(I)
  PROVE  \E i \in I : Below(I, i) = k - 1
<1> DEFINE upTo(m) == {j \in I : j <= m}
           T == {m \in Nat : Cardinality(upTo(m)) >= k}
<1>1. \A m \in Int : IsFiniteSet(upTo(m)) /\ Cardinality(upTo(m)) \in Nat
  <2> TAKE m \in Int
  <2>1. IsFiniteSet(1 .. n)
    BY FS_Interval
  <2>2. upTo(m) \subseteq 1 .. n
    OBVIOUS
  <2>3. QED
    BY <2>1, <2>2, FS_Subset, FS_CardinalityType
<1>2. upTo(n) = I /\ upTo(0) = {}
  OBVIOUS
<1>3. n \in T
  BY <1>1, <1>2
<1>4. PICK m \in T : \A y \in T : m <= y
  BY ZenonT(40), <1>3, LeastNat
<1>5. m \in Nat /\ Cardinality(upTo(m)) >= k
  OBVIOUS
<1>6. m # 0
  BY <1>2, <1>5, FS_EmptySet
<1>7. m - 1 \in Nat /\ m - 1 \notin T
  BY <1>4, <1>5, <1>6
<1>8. Cardinality(upTo(m - 1)) < k
  <2>1. ~(Cardinality(upTo(m - 1)) >= k)
    BY <1>7
  <2>2. Cardinality(upTo(m - 1)) \in Nat
    BY <1>1, <1>7
  <2> HIDE DEF upTo
  <2>3. QED
    BY <2>1, <2>2
<1>9. CASE m \notin I
  <2>1. upTo(m) = upTo(m - 1)
    BY <1>5, <1>9
  <2>2. QED
    BY <1>1, <1>5, <1>8, <2>1
<1>10. CASE m \in I
  <2>1. upTo(m) = upTo(m - 1) \cup {m} /\ m \notin upTo(m - 1)
    <3>1. \A j \in I : j <= m <=> j <= m - 1 \/ j = m
      BY <1>5
    <3>2. ~(m <= m - 1)
      BY <1>5
    <3>3. QED
      BY ZenonT(40), <1>10, <3>1, <3>2
  <2>2. Cardinality(upTo(m)) = Cardinality(upTo(m - 1)) + 1
    <3>1. IsFiniteSet(upTo(m - 1))
      BY <1>1, <1>7
    <3> HIDE DEF upTo
    <3>2. QED
      BY ZenonT(40), <2>1, <3>1, FS_AddElement
  <2>3. Cardinality(upTo(m - 1)) = k - 1
    <3>1. Cardinality(upTo(m - 1)) \in Nat
      BY <1>1, <1>7
    <3> HIDE DEF upTo
    <3>2. QED
      BY <1>5, <1>8, <2>2, <3>1
  <2>4. upTo(m - 1) = {j \in I : j < m}
    BY <1>5
  <2>5. QED
    BY <1>10, <2>3, <2>4 DEF Below
<1>11. QED
  BY <1>9, <1>10

\* So the entries kept are entries of the list, and every one of them satisfies
\* what the kept indices were chosen by.
LEMMA KeptEntries ==
  ASSUME NEW S, NEW s \in Seq(S), NEW I \in SUBSET (DOMAIN s)
  PROVE  /\ Kept(s, I) \in Seq(S)
         /\ \A k \in DOMAIN Kept(s, I) : \E i \in I : Kept(s, I)[k] = s[i]
<1> DEFINE n == Cardinality(I)
<1>1. DOMAIN s = 1 .. Len(s) /\ Len(s) \in Nat
  OBVIOUS
<1>2. n \in Nat
  <2>1. IsFiniteSet(1 .. Len(s))
    BY <1>1, FS_Interval
  <2>2. QED
    BY <1>1, <2>1, FS_Subset, FS_CardinalityType
<1>3. DOMAIN Kept(s, I) = 1 .. n
  BY DEF Kept
<1>4. ASSUME NEW k \in 1 .. n
      PROVE  \E i \in I : Kept(s, I)[k] = s[i]
  <2>1. \E i \in I : Below(I, i) = k - 1
    BY <1>1, KeptIndex
  <2>2. QED
    BY ZenonT(40), <2>1 DEF Kept
<1>5. Kept(s, I) \in [1 .. n -> S]
  <2>1. \A k \in 1 .. n : Kept(s, I)[k] \in S
    BY <1>1, <1>4
  <2>2. Kept(s, I) = [k \in 1 .. n |-> Kept(s, I)[k]]
    BY DEF Kept
  <2> HIDE DEF n
  <2>3. QED
    BY <2>1, <2>2
<1>6. Kept(s, I) \in Seq(S)
  <2> HIDE DEF n
  <2>1. QED
    BY <1>2, <1>5
<1>7. QED
  BY <1>3, <1>4, <1>6
=============================================================================
