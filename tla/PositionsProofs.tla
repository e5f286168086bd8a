--------------------------- MODULE PositionsProofs ---------------------------
(***************************************************************************)
(* What picking by positions and summing yield, for every sequence.        *)
(*                                                                         *)
(* The library's induction principles take an operator, which the provers  *)
(* cannot instantiate.  Induction is therefore stated about a set, and     *)
(* recursion about a function from the last value to the next one; both    *)
(* follow from the well-foundedness of < on the natural numbers.           *)
(***************************************************************************)
EXTENDS Positions, FiniteSetTheorems, SequenceTheorems, WellFoundedInduction, TLAPS

-----------------------------------------------------------------------------
(* Induction.                                                              *)

LEMMA Smallest ==
  ASSUME NEW S, S \subseteq Nat, S /= {}
  PROVE  \E least \in S : \A other \in S : least <= other
<1>1. PICK least \in S : \A other \in S : ~(<<other, least>> \in OpToRel(<, Nat))
  BY NatLessThanWellFounded, WFMin
<1>2. \A other \in S : ~(other < least)
  BY <1>1 DEF OpToRel
<1> QED
  BY <1>2

\* A set with 0 and the successors of its numbers has every number.
LEMMA Induction ==
  ASSUME NEW S, 0 \in S, \A n \in Nat : n \in S => n + 1 \in S
  PROVE  Nat \subseteq S
<1> SUFFICES ASSUME Nat \ S /= {} PROVE FALSE
  OBVIOUS
<1>1. PICK least \in Nat \ S : \A other \in Nat \ S : least <= other
  BY Smallest
<1>2. least /= 0 /\ least - 1 \in Nat
  BY <1>1
<1> QED
  BY <1>1, <1>2

\* A first value and a step define a function on 0..n.
Iterates(f, first, step, n) == f[0] = first /\ \A i \in 1..n : f[i] = step[i][f[i - 1]]

LEMMA Recursion ==
  ASSUME NEW T, NEW first \in T, NEW step \in [Nat -> [T -> T]], NEW n \in Nat
  PROVE  \E f \in [0..n -> T] : Iterates(f, first, step, n)
<1> DEFINE S == {m \in Nat : \E f \in [0..m -> T] : Iterates(f, first, step, m)}
<1>1. 0 \in S
  <2> DEFINE f == [i \in 0..0 |-> first]
  <2>1. f \in [0..0 -> T] /\ Iterates(f, first, step, 0)
    BY DEF Iterates
  <2> HIDE DEF f
  <2> QED
    BY <2>1
<1>2. ASSUME NEW m \in Nat, m \in S PROVE m + 1 \in S
  <2>1. PICK f \in [0..m -> T] : Iterates(f, first, step, m)
    BY <1>2
  <2> DEFINE g == [i \in 0..(m + 1) |-> IF i = m + 1 THEN step[m + 1][f[m]] ELSE f[i]]
  <2>2. step[m + 1][f[m]] \in T
    OBVIOUS
  <2>3. g \in [0..(m + 1) -> T]
    BY <2>2
  <2>4. g[0] = first
    BY <2>1 DEF Iterates
  <2>5. ASSUME NEW i \in 1..(m + 1) PROVE g[i] = step[i][g[i - 1]]
    <3>1. CASE i = m + 1
      BY <3>1
    <3>2. CASE i \in 1..m
      <4>1. g[i] = f[i] /\ g[i - 1] = f[i - 1]
        BY <3>2
      <4> QED
        BY <2>1, <3>2, <4>1 DEF Iterates
    <3> QED
      BY <3>1, <3>2
  <2> HIDE DEF g
  <2>6. Iterates(g, first, step, m + 1)
    BY <2>4, <2>5 DEF Iterates
  <2> QED
    BY <2>3, <2>6
<1> HIDE DEF S
<1>3. Nat \subseteq S
  BY <1>1, <1>2, Induction
<1>4. n \in S
  BY <1>3
<1> QED
  BY <1>4 DEF S

-----------------------------------------------------------------------------
(* Ranks.                                                                  *)

\* Below counts the members of S under a number.
Below(S, i) == {j \in S : j < i}

LEMMA BelowFinite ==
  ASSUME NEW n \in Nat, NEW S \in SUBSET (1..n), NEW i
  PROVE  IsFiniteSet(S) /\ Cardinality(S) \in 0..n
         /\ IsFiniteSet(Below(S, i)) /\ Cardinality(Below(S, i)) \in Nat
<1>1. IsFiniteSet(1..n) /\ Cardinality(1..n) = n
  BY FS_Interval
<1>2. IsFiniteSet(S) /\ Cardinality(S) <= n
  BY <1>1, FS_Subset
<1>3. Below(S, i) \in SUBSET S
  BY DEF Below
<1> QED
  BY <1>2, <1>3, FS_Subset, FS_CardinalityType

\* Two members have different ranks.
LEMMA RanksDiffer ==
  ASSUME NEW n \in Nat, NEW S \in SUBSET (1..n), NEW i \in S, NEW k \in S, i < k
  PROVE  Cardinality(Below(S, i)) < Cardinality(Below(S, k))
<1>1. Below(S, i) \in SUBSET Below(S, k) /\ i \in Below(S, k) /\ i \notin Below(S, i)
  <2>1. i \in Nat /\ k \in Nat /\ \A j \in S : j \in Nat
    OBVIOUS
  <2>2. ASSUME NEW j \in S, j < i PROVE j < k
    BY <2>1, <2>2
  <2>3. ~(i < i)
    BY <2>1
  <2> QED
    BY <2>2, <2>3, Zenon DEF Below
<1>2. /\ IsFiniteSet(Below(S, k))
      /\ Cardinality(Below(S, i)) \in Nat /\ Cardinality(Below(S, k)) \in Nat
  BY BelowFinite
<1>3. Cardinality(Below(S, i)) <= Cardinality(Below(S, k))
  BY <1>1, <1>2, FS_Subset
<1>4. Cardinality(Below(S, i)) /= Cardinality(Below(S, k))
  BY <1>1, <1>2, FS_Subset
<1> QED
  BY <1>2, <1>3, <1>4

\* A member is the one of its rank.
LEMMA NthOfRank ==
  ASSUME NEW n \in Nat, NEW S \in SUBSET (1..n), NEW i \in S
  PROVE  /\ Cardinality(Below(S, i)) + 1 \in 1..Cardinality(S)
         /\ Nth(S, Cardinality(Below(S, i)) + 1) = i
<1> DEFINE rank == Cardinality(Below(S, i))
<1>1. rank \in Nat /\ IsFiniteSet(S) /\ Cardinality(S) \in Nat
  BY BelowFinite
<1>2. Below(S, i) \in SUBSET S /\ i \notin Below(S, i)
  BY DEF Below
<1>3. rank <= Cardinality(S) /\ rank /= Cardinality(S)
  BY <1>1, <1>2, FS_Subset
<1>4. ASSUME NEW k \in S, Cardinality(Below(S, k)) = rank PROVE k = i
  <2>1. i < k => rank < Cardinality(Below(S, k))
    BY RanksDiffer
  <2>2. k < i => Cardinality(Below(S, k)) < rank
    BY RanksDiffer
  <2>3. i \in Nat /\ k \in Nat
    OBVIOUS
  <2> HIDE DEF rank
  <2> QED
    BY <1>1, <1>4, <2>1, <2>2, <2>3
<1>5. Nth(S, rank + 1) = CHOOSE k \in S : Cardinality(Below(S, k)) = rank
  <2>1. (rank + 1) - 1 = rank
    BY <1>1
  <2> HIDE DEF rank
  <2> QED
    BY <2>1, Zenon DEF Nth, Below
<1>6. Nth(S, rank + 1) = i
  BY <1>4, <1>5
<1> QED
  BY <1>1, <1>3, <1>6

\* The first of some positions, and with it the element that is first.
LEMMA FirstPosition ==
  ASSUME NEW n \in Nat, NEW S \in SUBSET (1..n), S /= {}
  PROVE  Nth(S, 1) \in S /\ \A other \in S : Nth(S, 1) <= other
<1>1. PICK least \in S : \A other \in S : least <= other
  <2>1. S \subseteq Nat
    OBVIOUS
  <2> QED
    BY <2>1, Smallest
<1>2. Below(S, least) = {}
  <2>1. ASSUME NEW other \in S PROVE ~(other < least)
    BY <1>1
  <2> QED
    BY <2>1, Zenon DEF Below
<1>3. Cardinality(Below(S, least)) + 1 = 1
  BY <1>2, FS_EmptySet
<1> QED
  BY <1>1, <1>3, NthOfRank

\* Every rank up to the number of members has a member.
LEMMA NthExists ==
  ASSUME NEW n \in Nat, NEW S \in SUBSET (1..n), NEW k \in 1..Cardinality(S)
  PROVE  Nth(S, k) \in S /\ Cardinality(Below(S, Nth(S, k))) = k - 1
<1> DEFINE rank == [i \in S |-> Cardinality(Below(S, i)) + 1]
           T    == 1..Cardinality(S)
<1>1. IsFiniteSet(S) /\ Cardinality(S) \in Nat
  BY BelowFinite
<1>2. rank \in [S -> T]
  BY NthOfRank
<1>3. \A i, j \in S : rank[i] = rank[j] => i = j
  BY NthOfRank
<1>4. rank \in Injection(S, T)
  BY <1>2, <1>3 DEF Injection, IsInjective
<1>5. IsFiniteSet(T) /\ Cardinality(T) = Cardinality(S)
  BY <1>1, FS_Interval
<1>6. rank \in Surjection(S, T)
  BY <1>4, <1>5, FS_Injection
<1>7. PICK i \in S : rank[i] = k
  BY <1>6 DEF Surjection
<1>8. Cardinality(Below(S, i)) = k - 1
  BY <1>7, BelowFinite
<1> QED
  BY <1>7, <1>8, NthOfRank

\* Elements chosen by their positions are elements, one for every position.
LEMMA ChosenElements ==
  ASSUME NEW T, NEW seq \in Seq(T), NEW S \in SUBSET DOMAIN seq
  PROVE  /\ Chosen(seq, S) \in Seq(T)
         /\ Len(Chosen(seq, S)) = Cardinality(S)
         /\ \A k \in 1..Cardinality(S) : Chosen(seq, S)[k] = seq[Nth(S, k)] /\ Nth(S, k) \in S
         /\ \A i \in S : \E k \in 1..Cardinality(S) : Chosen(seq, S)[k] = seq[i]
         /\ Chosen(seq, S) = <<>> <=> S = {}
<1> DEFINE n == Len(seq)
           c == Cardinality(S)
<1>1. n \in Nat /\ S \in SUBSET (1..n) /\ DOMAIN seq = 1..n
  BY LenProperties
<1>2. c \in Nat /\ IsFiniteSet(S)
  <2>1. c \in 0..n /\ IsFiniteSet(S)
    BY <1>1, BelowFinite
  <2> QED
    BY <1>1, <2>1
<1>3. \A k \in 1..c : Nth(S, k) \in S
  BY <1>1, NthExists
<1>4. \A i \in S : seq[i] \in T
  BY <1>1, ElementOfSeq
<1>5. Chosen(seq, S) = [k \in 1..c |-> seq[Nth(S, k)]]
  BY DEF Chosen
<1>6. Chosen(seq, S) \in Seq(T) /\ Len(Chosen(seq, S)) = c
  BY <1>2, <1>3, <1>4, <1>5
<1>7. \A i \in S : \E k \in 1..c : Chosen(seq, S)[k] = seq[i]
  BY <1>1, <1>5, NthOfRank
<1>8. c = 0 <=> S = {}
  BY <1>2, FS_EmptySet
<1>9. Chosen(seq, S) = <<>> <=> c = 0
  BY <1>2, <1>6
<1> QED
  BY <1>3, <1>5, <1>6, <1>7, <1>8, <1>9

-----------------------------------------------------------------------------
(* Sums.                                                                   *)

LEMMA TotalType ==
  ASSUME NEW n \in Nat, NEW numbers \in [1..n -> Nat]
  PROVE  Total(numbers) \in Nat
<1> DEFINE step == [i \in Nat |-> [t \in Nat |-> t + (IF i \in 1..n THEN numbers[i] ELSE 0)]]
           Sum(f) == f = [i \in 0..n |-> IF i = 0 THEN 0 ELSE f[i - 1] + numbers[i]]
           sum == CHOOSE f : Sum(f)
<1>1. step \in [Nat -> [Nat -> Nat]]
  OBVIOUS
<1>2. PICK f \in [0..n -> Nat] : Iterates(f, 0, step, n)
  <2> HIDE DEF step
  <2>1. 0 \in Nat
    OBVIOUS
  <2> QED
    BY <1>1, <2>1, Recursion, Zenon
<1>3. Sum(f)
  <2>1. f = [i \in 0..n |-> f[i]]
    OBVIOUS
  <2>2. ASSUME NEW i \in 0..n PROVE f[i] = IF i = 0 THEN 0 ELSE f[i - 1] + numbers[i]
    <3>1. CASE i = 0
      BY <1>2, <3>1 DEF Iterates
    <3>2. CASE i \in 1..n
      <4>1. f[i - 1] \in Nat /\ numbers[i] \in Nat /\ i \in Nat
        BY <3>2
      <4>2. step[i][f[i - 1]] = f[i - 1] + numbers[i]
        BY <3>2, <4>1
      <4>3. f[i] = step[i][f[i - 1]]
        BY <1>2, <3>2 DEF Iterates
      <4> QED
        BY <3>2, <4>2, <4>3
    <3> QED
      BY <3>1, <3>2
  <2> HIDE DEF step
  <2> QED
    BY <2>1, <2>2
<1>4. Sum(sum)
  <2> HIDE DEF Sum
  <2> QED
    BY <1>3
<1>5. Len(numbers) = n
  OBVIOUS
<1>6. Total(numbers) = sum[n]
  BY <1>5 DEF Total
<1> DEFINE S == {i \in Nat : i <= n => sum[i] \in Nat}
<1> HIDE DEF sum
<1>7. 0 \in S
  BY <1>4
<1>8. ASSUME NEW i \in Nat, i \in S PROVE i + 1 \in S
  <2> SUFFICES ASSUME i + 1 <= n PROVE sum[i + 1] \in Nat
    OBVIOUS
  <2>1. sum[i + 1] = sum[i] + numbers[i + 1]
    BY <1>4
  <2>2. sum[i] \in Nat
    BY <1>8
  <2> QED
    BY <2>1, <2>2
<1>9. Nat \subseteq S
  <2> HIDE DEF S
  <2> QED
    BY <1>7, <1>8, Induction
<1> QED
  BY <1>6, <1>9
=============================================================================
