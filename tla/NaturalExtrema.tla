---------------------------- MODULE NaturalExtrema ----------------------------
(***************************************************************************)
(* Least and greatest elements of sets of natural numbers, and the nth     *)
(* one, for arguments that take the first, the last or the nth element of  *)
(* which something is true.                                                *)
(***************************************************************************)
EXTENDS Naturals, TLAPS, FiniteSetTheorems, WellFoundedInduction

\* A nonempty set of naturals has a least element: among the intervals 1 .. i
\* of its elements one has no strict subset.
LEMMA Least ==
  ASSUME NEW I \in SUBSET Nat, I # {}
  PROVE  \E i \in I : \A j \in I : i <= j
<1> DEFINE Up == {1 .. i : i \in I}
<1>1. IsWellFoundedOn(StrictSubsetOrdering(Nat), FiniteSubsetsOf(Nat))
  BY FS_StrictSubsetOrderingWellFounded
<1>2. \A i \in I : 1 .. i \in FiniteSubsetsOf(Nat)
  <2> TAKE i \in I
  <2>1. i \in Int /\ 1 \in Int /\ 1 .. i \subseteq Nat
    OBVIOUS
  <2>2. IsFiniteSet(1 .. i)
    BY <2>1, FS_Interval
  <2> QED BY <2>1, <2>2 DEF FiniteSubsetsOf
<1>3. Up \subseteq FiniteSubsetsOf(Nat) /\ Up # {}
  BY <1>2
<1> HIDE DEF Up
<1>4. PICK x \in Up : \A y \in Up : ~(<<y, x>> \in StrictSubsetOrdering(Nat))
  BY <1>1, <1>3, WFMin
<1> USE DEF Up
<1>5. PICK i \in I : x = 1 .. i
  BY <1>4
<1>6. ASSUME NEW j \in I, j < i  PROVE FALSE
  <2>1. 1 .. j \in SUBSET Nat /\ 1 .. i \in SUBSET Nat /\ 1 .. j \subseteq 1 .. i
    BY <1>6
  <2>2. i \in 1 .. i /\ i \notin 1 .. j
    BY <1>6
  <2>3. <<1 .. j, 1 .. i>> \in StrictSubsetOrdering(Nat)
    BY <2>1, <2>2 DEF StrictSubsetOrdering
  <2> QED BY <1>4, <1>5, <2>3
<1> QED BY <1>6

\* A nonempty set of naturals that is bounded has a greatest element: what is
\* farthest from it is least.
LEMMA Greatest ==
  ASSUME NEW I \in SUBSET Nat, I # {}, NEW k \in Nat, \A i \in I : i <= k
  PROVE  \E i \in I : \A j \in I : j <= i
<1> DEFINE Far == {k - i : i \in I}
<1>1. Far \in SUBSET Nat /\ Far # {}
  <2>1. \A i \in I : k - i \in Nat
    OBVIOUS
  <2> QED BY <2>1
<1>2. \E f \in Far : \A g \in Far : f <= g
  <2> HIDE DEF Far
  <2> QED BY <1>1, Least
<1>3. PICK i \in I : \A j \in I : k - i <= k - j
  BY <1>2
<1>4. \A j \in I : j <= i
  BY <1>3
<1> QED BY <1>4

(***************************************************************************)
(* Counting: the nth member of a set of numbers                            *)
(***************************************************************************)
RankIn(N, k) == Cardinality({l \in N : l <= k})

\* Ranks number a set of naturals from 1.
LEMMA Ranks ==
  ASSUME NEW m \in Nat, NEW N \in SUBSET (1 .. m)
  PROVE  /\ Cardinality(N) \in Nat
         /\ \A k \in N : RankIn(N, k) \in 1 .. Cardinality(N)
         /\ \A k, l \in N : RankIn(N, k) = RankIn(N, l) => k = l
         /\ \A r \in 1 .. Cardinality(N) : \E k \in N : RankIn(N, k) = r
PROOF
  <1>1. IsFiniteSet(N)
    <2>1. IsFiniteSet(1 .. m)
      BY FS_Interval
    <2> QED
      BY <2>1, FS_Subset
  <1>2. Cardinality(N) \in Nat
    BY <1>1, FS_CardinalityType
  <1> DEFINE Up(k) == {l \in N : l <= k}
  <1>3. \A k : Up(k) \in SUBSET N
    OBVIOUS
  <1> HIDE DEF Up
  <1>4. \A k : IsFiniteSet(Up(k)) /\ Cardinality(Up(k)) <= Cardinality(N)
               /\ Cardinality(Up(k)) \in Nat
    <2> TAKE k
    <2>1. IsFiniteSet(Up(k)) /\ Cardinality(Up(k)) <= Cardinality(N)
      BY <1>1, <1>3, FS_Subset
    <2> QED
      BY <2>1, FS_CardinalityType
  <1>5. \A k : RankIn(N, k) = Cardinality(Up(k))
    BY DEF RankIn, Up
  <1>6. \A k \in N : RankIn(N, k) \in 1 .. Cardinality(N)
    <2> TAKE k \in N
    <2>1. k \in Up(k)
      BY DEF Up
    <2>2. Cardinality(Up(k)) # 0
      BY <1>4, <2>1, FS_EmptySet
    <2> QED
      BY <1>2, <1>4, <1>5, <2>2
  <1>7. ASSUME NEW k \in N, NEW l \in N, k < l PROVE RankIn(N, k) # RankIn(N, l)
    <2>1. k \in Nat /\ l \in Nat /\ \A x \in N : x \in Nat
      OBVIOUS
    <2>2. \A x \in N : x <= k => x <= l
      BY <1>7, <2>1
    <2>3. Up(k) \in SUBSET Up(l) /\ l \in Up(l) /\ l \notin Up(k)
      <3>1. \A j, x : x \in Up(j) <=> x \in N /\ x <= j
        BY DEF Up
      <3>2. ~ (l <= k) /\ l <= l
        BY <1>7, <2>1
      <3> QED
        BY <2>2, <3>1, <3>2
    <2>4. Cardinality(Up(k)) # Cardinality(Up(l))
      BY <1>4, <2>3, FS_Subset
    <2> QED
      BY <1>5, <2>4
  <1>8. \A k, l \in N : RankIn(N, k) = RankIn(N, l) => k = l
    <2> TAKE k, l \in N
    <2>1. k = l \/ k < l \/ l < k
      OBVIOUS
    <2> QED
      BY <1>7, <2>1
  <1> DEFINE f == [k \in N |-> RankIn(N, k)]
             R == {f[k] : k \in N}
  <1>9. f \in Surjection(N, R) /\ f \in Injection(N, R)
    <2>1. f \in [N -> R] /\ \A r \in R : \E k \in N : f[k] = r
      OBVIOUS
    <2>2. \A k, l \in N : f[k] = f[l] => k = l
      BY <1>8
    <2> HIDE DEF f, R
    <2> QED
      BY <2>1, <2>2 DEF Surjection, Injection, IsInjective
  <1>10. R \in SUBSET (1 .. Cardinality(N))
    BY <1>6
  <1>11. \A k \in N : f[k] = RankIn(N, k)
    OBVIOUS
  <1>12. \A r \in R : \E k \in N : f[k] = r
    OBVIOUS
  <1> HIDE DEF f, R
  <1>13. Cardinality(R) = Cardinality(N)
    BY <1>1, <1>9, FS_Surjection
  <1>14. /\ IsFiniteSet(1 .. Cardinality(N))
         /\ Cardinality(1 .. Cardinality(N)) = Cardinality(N)
    <2>1. Cardinality(N) \in Int /\ 1 \in Int
      BY <1>2
    <2> QED
      BY <1>2, <2>1, FS_Interval
  <1>15. R = 1 .. Cardinality(N)
    BY <1>10, <1>13, <1>14, FS_Subset
  <1> QED
    BY <1>2, <1>6, <1>8, <1>11, <1>12, <1>15
=============================================================================
