---------------------------- MODULE FiniteProofs ----------------------------
(* Facts of finite sets that the proofs of several components use: induction
   over them, sorting and filtering by positions, and sums. *)
EXTENDS Positions, FiniteSetsExt, Functions, FiniteSetTheorems, FunctionTheorems, TLAPS

-----------------------------------------------------------------------------
(* Induction, for sets: a smallest counterexample would have one before it. *)

\* A set that has 0 and the successor of each of its numbers has all of them.
LEMMA NatSetInduction ==
  ASSUME NEW S, 0 \in S, \A n \in Nat : n \in S => n + 1 \in S
  PROVE  Nat \subseteq S
<1> SUFFICES ASSUME Nat \ S # {}
             PROVE  FALSE
  OBVIOUS
<1>1. PICK x \in Nat \ S : \A y \in Nat \ S : ~ (<<y, x>> \in OpToRel(<, Nat))
  <2>1. Nat \ S \subseteq Nat
    OBVIOUS
  <2> QED
    BY <2>1, NatLessThanWellFounded, WFMin
<1>2. x # 0 /\ x \in Nat
  BY <1>1
<1>3. x - 1 \in Nat /\ (x - 1) + 1 = x /\ x - 1 < x
  BY ONLY <1>2
<1>4. x - 1 \notin S
  BY <1>1, <1>3
<1>5. <<x - 1, x>> \in OpToRel(<, Nat)
  BY <1>1, <1>3 DEF OpToRel
<1> QED
  BY <1>1, <1>3, <1>4, <1>5

\* A set of sets that has the empty one and is closed under adding a member of T has T.
LEMMA FiniteSetInduction ==
  ASSUME NEW T, IsFiniteSet(T), NEW F, {} \in F,
         \A S \in SUBSET T : \A x \in T \ S : S \in F => S \cup {x} \in F
  PROVE  T \in F
<1> DEFINE N == {n \in Nat : \A S \in SUBSET T : Cardinality(S) = n => S \in F}
<1>1. 0 \in N
  <2>1. \A S \in SUBSET T : Cardinality(S) = 0 => S = {}
    BY FS_Subset, FS_EmptySet
  <2> QED
    BY <2>1
<1>2. ASSUME NEW n \in Nat, n \in N
      PROVE  n + 1 \in N
  <2> SUFFICES ASSUME NEW S \in SUBSET T, Cardinality(S) = n + 1
               PROVE  S \in F
    OBVIOUS
  <2>1. IsFiniteSet(S)
    BY FS_Subset
  <2>2. S # {}
    <3>1. n + 1 # 0
      OBVIOUS
    <3> QED
      BY <3>1, FS_EmptySet
  <2>3. PICK x \in S : TRUE
    BY <2>2
  <2>4. Cardinality(S \ {x}) = n
    <3>1. Cardinality(S \ {x}) = Cardinality(S) - 1
      BY <2>1, <2>3, FS_RemoveElement
    <3> QED
      BY <3>1
  <2>5. S \ {x} \in F
    BY <1>2, <2>4
  <2>6. S = (S \ {x}) \cup {x} /\ x \in T \ (S \ {x}) /\ S \ {x} \in SUBSET T
    BY <2>3
  <2> QED
    BY <2>5, <2>6
<1> HIDE DEF N
<1>3. Nat \subseteq N
  BY <1>1, <1>2, NatSetInduction
<1>4. Cardinality(T) \in Nat
  BY FS_CardinalityType
<1> QED
  BY <1>3, <1>4 DEF N

-----------------------------------------------------------------------------
(* Sorting and filtering by positions *)

\* R orders S strictly and totally.
Orders(R, S) ==
  /\ \A x, y \in S : <<x, y>> \in R => <<y, x>> \notin R
  /\ \A x, y, z \in S : <<x, y>> \in R /\ <<y, z>> \in R => <<x, z>> \in R
  /\ \A x, y \in S : x # y => <<x, y>> \in R \/ <<y, x>> \in R

\* How many members of S come before x.
Preceding(S, R, x) == {y \in S : <<y, x>> \in R}

\* Counting what comes before numbers the members from 0 on in their order.
LEMMA Ranks ==
  ASSUME NEW S, IsFiniteSet(S), NEW R, Orders(R, S)
  PROVE  /\ Cardinality(S) \in Nat
         /\ \A x \in S : Cardinality(Preceding(S, R, x)) \in 0..Cardinality(S) - 1
         /\ \A x, y \in S : <<x, y>> \in R =>
              Cardinality(Preceding(S, R, x)) < Cardinality(Preceding(S, R, y))
         /\ \A k \in 1..Cardinality(S) : \E x \in S : Cardinality(Preceding(S, R, x)) = k - 1
<1>1. Cardinality(S) \in Nat
  BY FS_CardinalityType
<1>2. \A x \in S : IsFiniteSet(Preceding(S, R, x)) /\ Cardinality(Preceding(S, R, x)) \in Nat
  <2> TAKE x \in S
  <2>1. Preceding(S, R, x) \in SUBSET S
    BY DEF Preceding
  <2> QED
    BY <2>1, FS_Subset, FS_CardinalityType
<1>3. ASSUME NEW x \in S, NEW y \in S, <<x, y>> \in R
      PROVE  Cardinality(Preceding(S, R, x)) < Cardinality(Preceding(S, R, y))
  <2>1. Preceding(S, R, x) \subseteq Preceding(S, R, y)
    BY <1>3 DEF Preceding, Orders
  <2>2. x \in Preceding(S, R, y) /\ x \notin Preceding(S, R, x)
    BY <1>3 DEF Preceding, Orders
  <2>3. /\ Cardinality(Preceding(S, R, x)) <= Cardinality(Preceding(S, R, y))
        /\ Cardinality(Preceding(S, R, x)) # Cardinality(Preceding(S, R, y))
    BY <1>2, <2>1, <2>2, FS_Subset
  <2> QED
    BY <1>2, <2>3
<1>4. ASSUME NEW x \in S
      PROVE  Cardinality(Preceding(S, R, x)) \in 0..Cardinality(S) - 1
  <2>1. Preceding(S, R, x) \in SUBSET S /\ x \notin Preceding(S, R, x)
    BY DEF Preceding, Orders
  <2>2. /\ Cardinality(Preceding(S, R, x)) <= Cardinality(S)
        /\ Cardinality(Preceding(S, R, x)) # Cardinality(S)
    BY <2>1, FS_Subset
  <2> QED
    BY <1>1, <1>2, <2>2
<1>5. ASSUME NEW k \in 1..Cardinality(S)
      PROVE  \E x \in S : Cardinality(Preceding(S, R, x)) = k - 1
  <2> DEFINE n == Cardinality(S)
             rank == [x \in S |-> Cardinality(Preceding(S, R, x)) + 1]
  <2>1. rank \in [S -> 1..n]
    <3>1. \A x \in S : Cardinality(Preceding(S, R, x)) + 1 \in 1..n
      BY <1>1, <1>4
    <3> QED
      BY <3>1
  <2>2. \A x, y \in S : rank[x] = rank[y] => x = y
    <3> SUFFICES ASSUME NEW x \in S, NEW y \in S, x # y
                 PROVE  rank[x] # rank[y]
      OBVIOUS
    <3>1. <<x, y>> \in R \/ <<y, x>> \in R
      BY DEF Orders
    <3>2. Cardinality(Preceding(S, R, x)) # Cardinality(Preceding(S, R, y))
      BY <1>2, <1>3, <3>1
    <3> QED
      BY <1>2, <3>2
  <2> HIDE DEF rank
  <2>3. rank \in Injection(S, 1..n)
    BY <2>1, <2>2, Fun_IsInj
  <2>4. IsFiniteSet(1..n) /\ Cardinality(1..n) = n
    BY <1>1, FS_Interval
  <2>5. rank \in Surjection(S, 1..n)
    BY <2>3, <2>4, FS_Injection
  <2>6. PICK x \in S : rank[x] = k
    <3>1. \A l \in 1..n : \E x \in S : rank[x] = l
      BY <2>5, Fun_SurjectionProperties
    <3> QED
      BY <3>1
  <2>7. Cardinality(Preceding(S, R, x)) + 1 = k
    BY <2>6 DEF rank
  <2> QED
    BY <1>2, <2>7
<1> QED
  BY <1>1, <1>3, <1>4, <1>5

\* The k-th of q is one that has k - 1 others before it, if there is one.
Numbering(q, S, R) ==
  /\ q = [k \in 1..Cardinality(S) |-> q[k]]
  /\ \A k \in 1..Cardinality(S) :
       (\E x \in S : Cardinality(Preceding(S, R, x)) = k - 1) =>
         q[k] \in S /\ Cardinality(Preceding(S, R, q[k])) = k - 1

\* A sorted set is a sequence of all its members, once each and in order.
LEMMA SortedProperties ==
  ASSUME NEW S, IsFiniteSet(S), NEW R, Orders(R, S), NEW q,
         Numbering(q, S, R)
  PROVE  /\ Cardinality(S) \in Nat /\ q \in [1..Cardinality(S) -> S]
         /\ \A k, l \in 1..Cardinality(S) : k < l => <<q[k], q[l]>> \in R
         /\ \A x \in S : \E k \in 1..Cardinality(S) : q[k] = x
<1> DEFINE n == Cardinality(S)
           Rank(x) == Cardinality(Preceding(S, R, x))
<1>1. /\ n \in Nat
      /\ \A x \in S : Rank(x) \in 0..n - 1
      /\ \A x, y \in S : <<x, y>> \in R => Rank(x) < Rank(y)
      /\ \A k \in 1..n : \E x \in S : Rank(x) = k - 1
  BY Ranks
<1>2. /\ q = [k \in 1..n |-> q[k]]
      /\ \A k \in 1..n : (\E x \in S : Rank(x) = k - 1) => q[k] \in S /\ Rank(q[k]) = k - 1
  BY DEF Numbering
<1> HIDE DEF n, Rank
<1>3. \A k \in 1..n : q[k] \in S /\ Rank(q[k]) = k - 1
  BY <1>1, <1>2
<1>4. q \in [1..n -> S]
  BY <1>2, <1>3
<1>5. ASSUME NEW k \in 1..n, NEW l \in 1..n, k < l
      PROVE  <<q[k], q[l]>> \in R
  <2>1. q[k] \in S /\ q[l] \in S /\ Rank(q[k]) = k - 1 /\ Rank(q[l]) = l - 1
    BY <1>3
  <2>2. Rank(q[k]) < Rank(q[l]) /\ ~(Rank(q[l]) < Rank(q[k]))
    BY <1>1, <1>5, <2>1
  <2>3. q[k] # q[l] /\ <<q[l], q[k]>> \notin R
    BY <1>1, <2>1, <2>2
  <2> QED
    BY <2>1, <2>3 DEF Orders
<1>6. ASSUME NEW x \in S
      PROVE  \E k \in 1..n : q[k] = x
  <2>1. Rank(x) \in 0..n - 1 /\ Rank(x) + 1 \in 1..n
    BY <1>1
  <2>2. PICK k \in 1..n : k = Rank(x) + 1
    BY <2>1
  <2>3. q[k] \in S /\ Rank(q[k]) = Rank(x)
    <3>1. q[k] \in S /\ Rank(q[k]) = k - 1
      BY <1>3
    <3>2. Rank(x) \in Int
      BY <1>1, <2>1
    <3> QED
      BY <2>2, <3>1, <3>2
  <2>4. ~(Rank(q[k]) < Rank(x)) /\ ~(Rank(x) < Rank(q[k]))
    BY <2>1, <2>3
  <2>5. <<q[k], x>> \notin R /\ <<x, q[k]>> \notin R
    BY <1>1, <2>3, <2>4
  <2>6. q[k] = x
    BY <2>3, <2>5 DEF Orders
  <2> QED
    BY <2>6
<1> QED
  BY <1>1, <1>4, <1>5, <1>6 DEF n

\* A set of numbers below a bound, sorted.
LEMMA AscendingProperties ==
  ASSUME NEW n \in Nat, NEW S \in SUBSET (1..n)
  PROVE  /\ IsFiniteSet(S) /\ Cardinality(S) \in Nat
         /\ Ascending(S) \in [1..Cardinality(S) -> S]
         /\ \A k, l \in 1..Cardinality(S) : k < l => Ascending(S)[k] < Ascending(S)[l]
         /\ \A i \in S : \E k \in 1..Cardinality(S) : Ascending(S)[k] = i
<1>9. PICK R : R = {p \in S \X S : p[1] < p[2]}
  OBVIOUS
<1>1. IsFiniteSet(S)
  <2>1. IsFiniteSet(1..n)
    BY FS_Interval
  <2> QED
    BY <2>1, FS_Subset
<1>2. \A i, j \in S : <<i, j>> \in R <=> i < j
  BY <1>9
<1>3. S \subseteq Int
  OBVIOUS
<1>4. Orders(R, S)
  BY <1>2, <1>3 DEF Orders
<1>5. \A i \in S : {j \in S : j < i} = Preceding(S, R, i)
  BY <1>2 DEF Preceding
<1>6. PICK q : q = Ascending(S)
  OBVIOUS
<1>7. /\ Cardinality(S) \in Nat /\ q \in [1..Cardinality(S) -> S]
      /\ \A k, l \in 1..Cardinality(S) : k < l => <<q[k], q[l]>> \in R
      /\ \A i \in S : \E k \in 1..Cardinality(S) : q[k] = i
  <2>1. q = [k \in 1..Cardinality(S) |-> q[k]]
    <3> DEFINE Ranked(k) == CHOOSE x \in S : Cardinality({y \in S : y < x}) = k - 1
    <3>1. q = [k \in 1..Cardinality(S) |-> Ranked(k)]
      BY <1>6, Zenon DEF Ascending, Sorted
    <3> HIDE DEF Ranked
    <3> QED
      BY <3>1
  <2>2. ASSUME NEW k \in 1..Cardinality(S), \E i \in S : Cardinality(Preceding(S, R, i)) = k - 1
        PROVE  q[k] \in S /\ Cardinality(Preceding(S, R, q[k])) = k - 1
    <3>1. \E i \in S : Cardinality({j \in S : j < i}) = k - 1
      BY <1>5, <2>2
    <3>2. q[k] = CHOOSE i \in S : Cardinality({j \in S : j < i}) = k - 1
      BY <1>6, <2>2 DEF Ascending, Sorted
    <3>3. q[k] \in S /\ Cardinality({j \in S : j < q[k]}) = k - 1
      BY <3>1, <3>2
    <3> QED
      BY <1>5, <3>3
  <2>3. Numbering(q, S, R)
    BY <2>1, <2>2 DEF Numbering
  <2> QED
    BY <1>1, <1>4, <2>3, SortedProperties
<1>8. \A k, l \in 1..Cardinality(S) : k < l => q[k] < q[l]
  BY <1>2, <1>7
<1> QED
  BY <1>1, <1>6, <1>7, <1>8

\* A set of numbers below a bound has a least one.
LEMMA Least ==
  ASSUME NEW n \in Nat, NEW S \in SUBSET (1..n), S # {}
  PROVE  \E i \in S : \A j \in S : i <= j
<1>1. PICK q : q = Ascending(S)
  OBVIOUS
<1>2. /\ Cardinality(S) \in Nat
      /\ q \in [1..Cardinality(S) -> S]
      /\ \A k, l \in 1..Cardinality(S) : k < l => q[k] < q[l]
      /\ \A i \in S : \E k \in 1..Cardinality(S) : q[k] = i
  BY <1>1, AscendingProperties
<1>3. 1 \in 1..Cardinality(S)
  <2>1. PICK i \in S : TRUE
    OBVIOUS
  <2>2. PICK k \in 1..Cardinality(S) : q[k] = i
    BY <1>2
  <2> QED
    BY <1>2, <2>2
<1>4. \A k \in 1..Cardinality(S) : q[1] <= q[k]
  <2> TAKE k \in 1..Cardinality(S)
  <2>1. q[1] \in Nat /\ q[k] \in Nat
    <3>1. q[1] \in S /\ q[k] \in S
      BY <1>2, <1>3
    <3>2. \A i \in S : i \in Nat
      OBVIOUS
    <3> QED
      BY <3>1, <3>2
  <2>2. k = 1 \/ 1 < k
    BY <1>2
  <2>3. 1 < k => q[1] < q[k]
    BY <1>2, <1>3
  <2> QED
    BY <2>1, <2>2, <2>3
<1> QED
  BY <1>2, <1>3, <1>4, ZenonT(30)

\* A filtered sequence: what was at these positions, all of it and in the same order.
LEMMA KeptProperties ==
  ASSUME NEW T, NEW q \in Seq(T), NEW at \in SUBSET DOMAIN q
  PROVE  /\ Kept(q, at) \in Seq(T) /\ Len(Kept(q, at)) = Cardinality(at)
         /\ DOMAIN Kept(q, at) = 1..Cardinality(at)
         /\ IsFiniteSet(at) /\ Cardinality(at) \in Nat
         /\ Ascending(at) \in [1..Cardinality(at) -> at]
         /\ \A k \in 1..Cardinality(at) : Kept(q, at)[k] = q[Ascending(at)[k]]
         /\ \A k, l \in 1..Cardinality(at) : k < l => Ascending(at)[k] < Ascending(at)[l]
         /\ \A i \in at : \E k \in 1..Cardinality(at) : Ascending(at)[k] = i
<1>1. Len(q) \in Nat /\ DOMAIN q = 1..Len(q) /\ at \in SUBSET (1..Len(q))
  OBVIOUS
<1>2. /\ IsFiniteSet(at) /\ Cardinality(at) \in Nat
      /\ Ascending(at) \in [1..Cardinality(at) -> at]
      /\ \A k, l \in 1..Cardinality(at) : k < l => Ascending(at)[k] < Ascending(at)[l]
      /\ \A i \in at : \E k \in 1..Cardinality(at) : Ascending(at)[k] = i
  BY <1>1, AscendingProperties
<1>3. Kept(q, at) = [k \in 1..Cardinality(at) |-> q[Ascending(at)[k]]]
  BY <1>2 DEF Kept
<1>4. \A k \in 1..Cardinality(at) : q[Ascending(at)[k]] \in T
  BY <1>1, <1>2
<1>5. Kept(q, at) \in [1..Cardinality(at) -> T]
  BY <1>3, <1>4
<1>6. Kept(q, at) \in Seq(T) /\ Len(Kept(q, at)) = Cardinality(at)
  BY <1>2, <1>5
<1> QED
  BY <1>2, <1>3, <1>6

\* A sorted set has each member at the place of its rank.
LEMMA AscendingRanks ==
  ASSUME NEW n \in Nat, NEW S \in SUBSET (1..n)
  PROVE  /\ \A k \in 1..Cardinality(S) :
              Ascending(S)[k] \in S /\ Cardinality({j \in S : j < Ascending(S)[k]}) = k - 1
         /\ \A x, y \in S :
              Cardinality({j \in S : j < x}) = Cardinality({j \in S : j < y}) => x = y
<1>1. PICK R : R = {p \in S \X S : p[1] < p[2]}
  OBVIOUS
<1>2. IsFiniteSet(S)
  <2>1. IsFiniteSet(1..n)
    BY FS_Interval
  <2> QED
    BY <2>1, FS_Subset
<1>3. \A i, j \in S : <<i, j>> \in R <=> i < j
  BY <1>1
<1>4. S \subseteq Int
  OBVIOUS
<1>5. Orders(R, S)
  BY <1>3, <1>4 DEF Orders
<1>6. \A i \in S : {j \in S : j < i} = Preceding(S, R, i)
  BY <1>3 DEF Preceding
<1>7. /\ \A x \in S : Cardinality(Preceding(S, R, x)) \in 0..Cardinality(S) - 1
      /\ \A x, y \in S : <<x, y>> \in R =>
           Cardinality(Preceding(S, R, x)) < Cardinality(Preceding(S, R, y))
      /\ \A k \in 1..Cardinality(S) : \E x \in S : Cardinality(Preceding(S, R, x)) = k - 1
      /\ Cardinality(S) \in Nat
  BY <1>2, <1>5, Ranks
<1>8. ASSUME NEW k \in 1..Cardinality(S)
      PROVE  Ascending(S)[k] \in S /\ Cardinality({j \in S : j < Ascending(S)[k]}) = k - 1
  <2>1. \E x \in S : Cardinality({j \in S : j < x}) = k - 1
    BY <1>6, <1>7
  <2>2. Ascending(S)[k] = CHOOSE i \in S : Cardinality({j \in S : j < i}) = k - 1
    BY DEF Ascending, Sorted
  <2> QED
    BY <2>1, <2>2
<1>9. ASSUME NEW x \in S, NEW y \in S,
             Cardinality({j \in S : j < x}) = Cardinality({j \in S : j < y})
      PROVE  x = y
  <2>1. PICK r \in 0..Cardinality(S) - 1 :
          Cardinality(Preceding(S, R, x)) = r /\ Cardinality(Preceding(S, R, y)) = r
    BY <1>6, <1>7, <1>9
  <2>2. ~(r < r)
    BY <1>7
  <2>3. <<x, y>> \notin R /\ <<y, x>> \notin R
    BY <1>7, <2>1, <2>2
  <2> QED
    BY <1>5, <2>3 DEF Orders
<1> QED
  BY <1>8, <1>9

\* A number above all others comes last.
LEMMA AscendingAppend ==
  ASSUME NEW n \in Nat, NEW S \in SUBSET (1..n)
  PROVE  /\ IsFiniteSet(S) /\ Cardinality(S) \in Nat
         /\ Cardinality(S \cup {n + 1}) = Cardinality(S) + 1
         /\ \A k \in 1..Cardinality(S) : Ascending(S \cup {n + 1})[k] = Ascending(S)[k]
         /\ Ascending(S \cup {n + 1})[Cardinality(S) + 1] = n + 1
<1>1. PICK T : T = S \cup {n + 1}
  OBVIOUS
<1>2. IsFiniteSet(S) /\ Cardinality(S) \in Nat /\ n + 1 \notin S
  <2>1. n + 1 \notin 1..n
    OBVIOUS
  <2> QED
    BY <2>1, AscendingProperties
<1>3. n + 1 \in Nat /\ T \in SUBSET (1..n + 1)
  <2>1. \A i \in 1..n : i \in 1..n + 1
    OBVIOUS
  <2> QED
    BY <1>1, <2>1
<1>4. Cardinality(T) = Cardinality(S) + 1
  BY <1>1, <1>2, FS_AddElement
<1>5. /\ \A x \in S : {j \in T : j < x} = {j \in S : j < x}
      /\ {j \in T : j < n + 1} = S
  <2>1. \A x \in S : x \in 1..n
    OBVIOUS
  <2>2. \A x \in 1..n : ~(n + 1 < x) /\ x < n + 1
    OBVIOUS
  <2>3. ~(n + 1 < n + 1)
    OBVIOUS
  <2> QED
    BY <1>1, <2>1, <2>2, <2>3
<1>6. /\ \A k \in 1..Cardinality(T) :
           Ascending(T)[k] \in T /\ Cardinality({j \in T : j < Ascending(T)[k]}) = k - 1
      /\ \A x, y \in T : Cardinality({j \in T : j < x}) = Cardinality({j \in T : j < y}) => x = y
  BY <1>3, AscendingRanks
<1>7. ASSUME NEW k \in 1..Cardinality(S)
      PROVE  Ascending(T)[k] = Ascending(S)[k]
  <2>1. Ascending(S)[k] \in S /\ Cardinality({j \in S : j < Ascending(S)[k]}) = k - 1
    BY AscendingRanks
  <2>2. k \in 1..Cardinality(T)
    BY <1>2, <1>4
  <2>3. Cardinality({j \in T : j < Ascending(S)[k]}) = k - 1 /\ Ascending(S)[k] \in T
    BY <1>1, <1>5, <2>1
  <2> QED
    BY <1>6, <2>2, <2>3
<1>8. Ascending(T)[Cardinality(S) + 1] = n + 1
  <2>1. Cardinality(S) + 1 \in 1..Cardinality(T) /\ (Cardinality(S) + 1) - 1 = Cardinality(S)
    BY <1>2, <1>4
  <2>2. Cardinality({j \in T : j < n + 1}) = Cardinality(S) /\ n + 1 \in T
    BY <1>1, <1>5
  <2> QED
    BY <1>6, <2>1, <2>2
<1> QED
  BY <1>1, <1>2, <1>4, <1>7, <1>8

\* A non-empty set of positions has a last one, which Max picks.
LEMMA MaxOf ==
  ASSUME NEW n \in Nat, NEW S \in SUBSET (1..n), S # {}
  PROVE  Max(S) \in S /\ \A i \in S : i <= Max(S)
<1> DEFINE Left == {n - i : i \in S}
<1>1. Left \subseteq Nat
  <2>1. \A i \in S : i \in 1..n
    OBVIOUS
  <2>2. \A i \in 1..n : n - i \in Nat
    OBVIOUS
  <2> QED
    BY <2>1, <2>2
<1>2. Left # {}
  <2>1. PICK i \in S : TRUE
    OBVIOUS
  <2> QED
    BY <2>1
<1>3. PICK x \in Left : \A y \in Left : ~ (<<y, x>> \in OpToRel(<, Nat))
  BY <1>1, <1>2, NatLessThanWellFounded, WFMin
<1>4. \A y \in Left : ~ (y < x)
  BY <1>1, <1>3 DEF OpToRel
<1>5. PICK m \in S : x = n - m
  BY <1>3
<1>6. \A i \in S : m >= i
  <2> SUFFICES ASSUME NEW i \in S
               PROVE  m >= i
    OBVIOUS
  <2>1. ~ (n - i < n - m)
    BY <1>4, <1>5
  <2>2. i \in Int /\ m \in Int /\ n \in Int
    OBVIOUS
  <2> HIDE DEF Left
  <2> QED
    BY <2>1, <2>2
<1>7. \E z \in S : \A y \in S : z >= y
  BY <1>6
<1>8. Max(S) \in S /\ \A i \in S : Max(S) >= i
  BY <1>7 DEF Max
<1>9. \A i, j \in S : i >= j => j <= i
  OBVIOUS
<1> QED
  BY <1>8, <1>9

-----------------------------------------------------------------------------
(* Sums *)

\* The member of s that a sum over s starts with, and the sums of g over the subsets of S.
Start(s) == CHOOSE x \in s : TRUE
Table(it, g, S) ==
  it = [s \in SUBSET S |-> IF s = {} THEN 0 ELSE g[Start(s)] + it[s \ {Start(s)}]]

\* A set without one of its members is smaller.
LEMMA Fewer ==
  ASSUME NEW S, IsFiniteSet(S), NEW s \in SUBSET S, NEW n \in Nat, Cardinality(s) <= n + 1
  PROVE  /\ \A x \in s : s \ {x} \in SUBSET S /\ Cardinality(s \ {x}) <= n
         /\ s # {} => Start(s) \in s
<1>1. IsFiniteSet(s) /\ Cardinality(s) \in Nat
  BY FS_Subset, FS_CardinalityType
<1>2. \A x \in s : Cardinality(s \ {x}) = Cardinality(s) - 1
  BY <1>1, FS_RemoveElement
<1>3. \A x \in s : Cardinality(s \ {x}) <= n
  BY <1>1, <1>2
<1> QED
  BY <1>3 DEF Start

\* The recursion over the subsets has a solution.
LEMMA TableExists ==
  ASSUME NEW S, IsFiniteSet(S), NEW g
  PROVE  \E it : Table(it, g, S)
<1> DEFINE UpTo(n) == {s \in SUBSET S : Cardinality(s) <= n}
           Part(it, n) ==
             it = [s \in UpTo(n) |-> IF s = {} THEN 0 ELSE g[Start(s)] + it[s \ {Start(s)}]]
           N == {n \in Nat : \E it : Part(it, n)}
<1>1. 0 \in N
  <2>1. PICK it : it = [s \in UpTo(0) |-> 0]
    OBVIOUS
  <2>2. \A s \in UpTo(0) : s = {}
    <3> SUFFICES ASSUME NEW s \in SUBSET S, Cardinality(s) <= 0
                 PROVE  s = {}
      OBVIOUS
    <3>1. IsFiniteSet(s) /\ Cardinality(s) \in Nat
      BY FS_Subset, FS_CardinalityType
    <3> QED
      BY <3>1, FS_EmptySet
  <2>3. Part(it, 0)
    BY <2>1, <2>2
  <2> QED
    BY <2>3
<1>2. ASSUME NEW n \in Nat, n \in N
      PROVE  n + 1 \in N
  <2>1. PICK it : Part(it, n)
    BY <1>2
  <2>2. PICK jt : jt = [s \in UpTo(n + 1) |->
                         IF s = {} THEN 0 ELSE g[Start(s)] + it[s \ {Start(s)}]]
    OBVIOUS
  <2>3. ASSUME NEW s \in UpTo(n + 1), s # {}
        PROVE  s \ {Start(s)} \in UpTo(n)
    BY <2>3, Fewer
  <2>4. ASSUME NEW s \in UpTo(n)
        PROVE  s \in UpTo(n + 1) /\ jt[s] = it[s]
    <3>1. s \in SUBSET S /\ Cardinality(s) \in Nat /\ Cardinality(s) <= n
      BY FS_Subset, FS_CardinalityType
    <3>2. s \in UpTo(n + 1)
      BY <3>1
    <3> QED
      BY <2>1, <2>2, <3>2
  <2>5. \A s \in UpTo(n + 1) : s # {} => it[s \ {Start(s)}] = jt[s \ {Start(s)}]
    BY <2>3, <2>4
  <2>6. Part(jt, n + 1)
    BY <2>2, <2>5
  <2> HIDE DEF Part
  <2> QED
    BY <2>6
<1>3. Nat \subseteq N
  <2> HIDE DEF N
  <2> QED
    BY <1>1, <1>2, NatSetInduction
<1>4. Cardinality(S) \in Nat /\ \A s \in SUBSET S : Cardinality(s) <= Cardinality(S)
  BY FS_CardinalityType, FS_Subset
<1>5. PICK it : Part(it, Cardinality(S))
  BY <1>3, <1>4
<1>6. UpTo(Cardinality(S)) = SUBSET S
  BY <1>4
<1> QED
  BY <1>5, <1>6 DEF Table

\* A sum is an entry of such a table.
LEMMA SumOfTable ==
  ASSUME NEW S, IsFiniteSet(S), NEW g
  PROVE  \E it : Table(it, g, S) /\ SumFunctionOnSet(g, S) = it[S]
<1>0. PICK it : Table(it, g, S)
  BY TableExists
<1>1. it = [s \in SUBSET S |->
             IF s = {} THEN 0
             ELSE g[CHOOSE x \in s : TRUE] + it[s \ {CHOOSE x \in s : TRUE}]]
  BY <1>0 DEF Table, Start
<1>2. \E jt : /\ jt = [s \in SUBSET S |->
                       IF s = {} THEN 0
                       ELSE g[CHOOSE x \in s : TRUE] + jt[s \ {CHOOSE x \in s : TRUE}]]
             /\ SumFunctionOnSet(g, S) = jt[S]
  BY <1>1 DEF SumFunctionOnSet, FoldFunctionOnSet, MapThenFoldSet
<1> QED
  BY <1>2 DEF Table, Start

\* The tables of two sets agree on the subsets of both.
LEMMA TablesAgree ==
  ASSUME NEW S, IsFiniteSet(S), NEW T \in SUBSET S, NEW g, NEW h, \A x \in T : g[x] = h[x],
         NEW it, Table(it, g, S), NEW jt, Table(jt, h, T)
  PROVE  \A s \in SUBSET T : it[s] = jt[s]
<1> DEFINE N == {n \in Nat : \A s \in SUBSET T : Cardinality(s) <= n => it[s] = jt[s]}
<1>1. \A s \in SUBSET T : IsFiniteSet(s) /\ Cardinality(s) \in Nat
  BY FS_Subset, FS_CardinalityType
<1>2. \A s \in SUBSET T :
        /\ s = {} => it[s] = 0 /\ jt[s] = 0
        /\ s # {} => /\ it[s] = g[Start(s)] + it[s \ {Start(s)}]
                     /\ jt[s] = h[Start(s)] + jt[s \ {Start(s)}]
  BY DEF Table
<1>3. 0 \in N
  <2>1. \A s \in SUBSET T : Cardinality(s) <= 0 => s = {}
    BY <1>1, FS_EmptySet
  <2> QED
    BY <1>2, <2>1
<1>4. ASSUME NEW n \in Nat, n \in N
      PROVE  n + 1 \in N
  <2> SUFFICES ASSUME NEW s \in SUBSET T, Cardinality(s) <= n + 1
               PROVE  it[s] = jt[s]
    OBVIOUS
  <2>1. CASE s # {}
    <3>1. PICK x : x = Start(s)
      OBVIOUS
    <3>2. x \in s /\ Cardinality(s \ {x}) <= n
      BY <2>1, <3>1, Fewer
    <3>3. it[s \ {x}] = jt[s \ {x}] /\ g[x] = h[x]
      BY <1>4, <3>2
    <3> QED
      BY <1>2, <2>1, <3>1, <3>3
  <2> QED
    BY <1>2, <2>1
<1>5. Nat \subseteq N
  <2> HIDE DEF N
  <2> QED
    BY <1>3, <1>4, NatSetInduction
<1> QED
  BY <1>1, <1>5

\* The sum over a subset is that without any one of its members and this member.
AddsInto(it, g, S) ==
  \A s \in SUBSET S : it[s] \in Int /\ \A x \in s : it[s] = g[x] + it[s \ {x}]

\* Integers to add.
Integral(g, S) == \A x \in S : g[x] \in Int

\* It makes no difference with which member a sum starts.
LEMMA TableAdds ==
  ASSUME NEW S, IsFiniteSet(S), NEW g, Integral(g, S), NEW it, Table(it, g, S)
  PROVE  AddsInto(it, g, S)
<1> USE DEF Integral
<1> DEFINE Adds(s) == it[s] \in Int /\ \A x \in s : it[s] = g[x] + it[s \ {x}]
           N == {n \in Nat : \A s \in SUBSET S : Cardinality(s) <= n => Adds(s)}
<1>1. \A s \in SUBSET S : IsFiniteSet(s) /\ Cardinality(s) \in Nat
  BY FS_Subset, FS_CardinalityType
<1>2. \A s \in SUBSET S :
        /\ s = {} => it[s] = 0
        /\ s # {} => it[s] = g[Start(s)] + it[s \ {Start(s)}]
  BY DEF Table
<1>3. 0 \in N
  <2>1. \A s \in SUBSET S : Cardinality(s) <= 0 => s = {}
    BY <1>1, FS_EmptySet
  <2>2. Adds({})
    <3>1. it[{}] = 0
      BY <1>2
    <3> QED
      BY <3>1
  <2> HIDE DEF Adds
  <2> QED
    BY <2>1, <2>2
<1>4. ASSUME NEW n \in Nat, n \in N
      PROVE  n + 1 \in N
  <2> SUFFICES ASSUME NEW s \in SUBSET S, Cardinality(s) <= n + 1, s # {}
               PROVE  Adds(s)
    <3>1. Adds({})
      <4>1. it[{}] = 0
        BY <1>2
      <4> QED
        BY <4>1
    <3> HIDE DEF Adds
    <3> QED
      BY <3>1
  <2>1. PICK y : y = Start(s)
    OBVIOUS
  <2>2. y \in s /\ it[s] = g[y] + it[s \ {y}]
    BY <1>2, <2>1, Fewer
  <2>3. \A x \in s : s \ {x} \in SUBSET S /\ Adds(s \ {x})
    BY <1>4, Fewer
  <2>4. it[s] \in Int
    <3>1. g[y] \in Int /\ it[s \ {y}] \in Int
      BY <2>2, <2>3
    <3> QED
      BY <2>2, <3>1
  <2>5. ASSUME NEW x \in s
        PROVE  it[s] = g[x] + it[s \ {x}]
    <3>1. CASE x # y
      <4>1. it[s \ {y}] = g[x] + it[(s \ {y}) \ {x}]
        BY <2>3, <2>2, <3>1
      <4>2. it[s \ {x}] = g[y] + it[(s \ {x}) \ {y}]
        BY <2>3, <2>2, <3>1
      <4>3. (s \ {x}) \ {y} = (s \ {y}) \ {x}
        OBVIOUS
      <4>4. (s \ {x}) \ {y} \in SUBSET S /\ Cardinality((s \ {x}) \ {y}) <= n
        <5>1. Cardinality(s \ {x}) <= n + 1
          <6>1. Cardinality(s \ {x}) <= n /\ Cardinality(s \ {x}) \in Nat
            BY <1>1, <2>3, Fewer
          <6> QED
            BY <6>1
        <5> QED
          BY <2>2, <2>3, <3>1, <5>1, Fewer, SMTT(30)
      <4>5. it[(s \ {x}) \ {y}] \in Int
        BY <1>4, <4>4
      <4>6. g[x] \in Int /\ g[y] \in Int
        BY <2>2
      <4>7. PICK z \in Int : z = it[(s \ {x}) \ {y}]
        BY <4>5
      <4>8. it[s] = g[y] + (g[x] + z) /\ it[s \ {x}] = g[y] + z
        BY <2>2, <4>1, <4>2, <4>3, <4>7
      <4> QED
        BY <4>6, <4>8
    <3> QED
      BY <2>2, <3>1
  <2> QED
    BY <2>4, <2>5
<1>5. Nat \subseteq N
  <2> HIDE DEF N
  <2> QED
    BY <1>3, <1>4, NatSetInduction
<1> QED
  BY <1>1, <1>5 DEF AddsInto

\* A sum of integers is that without one of its members and this member.
LEMMA SumAdds ==
  ASSUME NEW S, IsFiniteSet(S), NEW g, \A x \in S : g[x] \in Int
  PROVE  /\ SumFunctionOnSet(g, S) \in Int
         /\ S = {} => SumFunctionOnSet(g, S) = 0
         /\ \A x \in S : SumFunctionOnSet(g, S) = g[x] + SumFunctionOnSet(g, S \ {x})
<1>1. PICK it : Table(it, g, S) /\ SumFunctionOnSet(g, S) = it[S]
  BY SumOfTable
<1>2. it[S] \in Int /\ \A x \in S : it[S] = g[x] + it[S \ {x}]
  <2>1. \A s \in SUBSET S : it[s] \in Int /\ \A x \in s : it[s] = g[x] + it[s \ {x}]
    <3>1. Integral(g, S)
      BY DEF Integral
    <3>2. AddsInto(it, g, S)
      BY <1>1, <3>1, TableAdds
    <3> QED
      BY <3>2 DEF AddsInto
  <2>2. S \in SUBSET S
    OBVIOUS
  <2> QED
    BY <2>1, <2>2
<1>3. S = {} => it[S] = 0
  BY <1>1 DEF Table
<1>4. ASSUME NEW x \in S
      PROVE  SumFunctionOnSet(g, S \ {x}) = it[S \ {x}]
  <2>1. S \ {x} \in SUBSET S /\ IsFiniteSet(S \ {x})
    BY FS_Subset
  <2>2. PICK jt : Table(jt, g, S \ {x}) /\ SumFunctionOnSet(g, S \ {x}) = jt[S \ {x}]
    BY <2>1, SumOfTable
  <2>3. it[S \ {x}] = jt[S \ {x}]
    BY <1>1, <2>1, <2>2, TablesAgree
  <2> QED
    BY <2>2, <2>3
<1> QED
  BY <1>1, <1>2, <1>3, <1>4

\* Functions that agree on a set have the same sum over it.
LEMMA SumAgrees ==
  ASSUME NEW S, IsFiniteSet(S), NEW g, NEW h, \A x \in S : g[x] = h[x]
  PROVE  SumFunctionOnSet(g, S) = SumFunctionOnSet(h, S)
<1>1. PICK it : Table(it, g, S) /\ SumFunctionOnSet(g, S) = it[S]
  BY SumOfTable
<1>2. PICK jt : Table(jt, h, S) /\ SumFunctionOnSet(h, S) = jt[S]
  BY SumOfTable
<1>3. it[S] = jt[S]
  <2>1. S \in SUBSET S
    OBVIOUS
  <2>2. \A s \in SUBSET S : it[s] = jt[s]
    BY <1>1, <1>2, <2>1, TablesAgree
  <2> QED
    BY <2>1, <2>2
<1> QED
  BY <1>1, <1>2, <1>3

\* A sum of natural numbers is one, and at least each of them.
LEMMA SumNat ==
  ASSUME NEW S, IsFiniteSet(S), NEW g, \A x \in S : g[x] \in Nat
  PROVE  /\ SumFunctionOnSet(g, S) \in Nat
         /\ \A x \in S : g[x] <= SumFunctionOnSet(g, S)
<1> DEFINE F == {T \in SUBSET S : SumFunctionOnSet(g, T) \in Nat}
<1>1. \A T \in SUBSET S : IsFiniteSet(T)
  BY FS_Subset
<1>2. \A T \in SUBSET S :
        /\ T = {} => SumFunctionOnSet(g, T) = 0
        /\ \A x \in T : SumFunctionOnSet(g, T) = g[x] + SumFunctionOnSet(g, T \ {x})
  BY <1>1, SumAdds
<1>3. {} \in F
  BY <1>2
<1>4. ASSUME NEW T \in SUBSET S, NEW x \in S \ T, T \in F
      PROVE  T \cup {x} \in F
  <2>1. (T \cup {x}) \ {x} = T /\ T \cup {x} \in SUBSET S
    OBVIOUS
  <2>2. SumFunctionOnSet(g, T \cup {x}) = g[x] + SumFunctionOnSet(g, T)
    BY <1>2, <2>1
  <2> QED
    BY <1>4, <2>1, <2>2
<1>5. ASSUME NEW T \in SUBSET S
      PROVE  T \in F
  <2>1. \A U \in SUBSET T : \A x \in T \ U : U \in F => U \cup {x} \in F
    BY <1>4
  <2> HIDE DEF F
  <2> QED
    BY <1>1, <1>3, <2>1, FiniteSetInduction
<1>6. ASSUME NEW x \in S
      PROVE  g[x] <= SumFunctionOnSet(g, S)
  <2>1. SumFunctionOnSet(g, S \ {x}) \in Nat /\ SumFunctionOnSet(g, S) = g[x] + SumFunctionOnSet(g, S \ {x})
    BY <1>2, <1>5
  <2> QED
    BY <2>1
<1> QED
  BY <1>5, <1>6

\* A sum changes as the one value that changes.
LEMMA SumChanges ==
  ASSUME NEW S, IsFiniteSet(S), NEW g, \A x \in S : g[x] \in Int, NEW p \in S,
         NEW h, \A x \in S \ {p} : h[x] = g[x], h[p] \in Int
  PROVE  SumFunctionOnSet(h, S) = SumFunctionOnSet(g, S) + h[p] - g[p]
<1>1. \A x \in S : h[x] \in Int
  OBVIOUS
<1>2. SumFunctionOnSet(g, S) = g[p] + SumFunctionOnSet(g, S \ {p})
  BY SumAdds
<1>3. SumFunctionOnSet(h, S) = h[p] + SumFunctionOnSet(h, S \ {p})
  BY <1>1, SumAdds
<1>4. IsFiniteSet(S \ {p})
  BY FS_Subset
<1>5. SumFunctionOnSet(h, S \ {p}) = SumFunctionOnSet(g, S \ {p})
  BY <1>4, SumAgrees
<1>6. SumFunctionOnSet(g, S \ {p}) \in Int
  BY <1>4, SumAdds
<1> QED
  BY <1>2, <1>3, <1>5, <1>6

\* A sum of zeros is zero.
LEMMA SumZero ==
  ASSUME NEW S, IsFiniteSet(S), NEW g, \A x \in S : g[x] = 0
  PROVE  SumFunctionOnSet(g, S) = 0
<1> DEFINE F == {T \in SUBSET S : SumFunctionOnSet(g, T) = 0}
<1>1. \A T \in SUBSET S : IsFiniteSet(T) /\ \A x \in T : g[x] \in Int
  BY FS_Subset
<1>2. \A T \in SUBSET S :
        /\ T = {} => SumFunctionOnSet(g, T) = 0
        /\ \A x \in T : SumFunctionOnSet(g, T) = g[x] + SumFunctionOnSet(g, T \ {x})
  BY <1>1, SumAdds
<1>3. {} \in F
  BY <1>2
<1>4. ASSUME NEW T \in SUBSET S, NEW x \in S \ T, T \in F
      PROVE  T \cup {x} \in F
  <2>1. (T \cup {x}) \ {x} = T /\ T \cup {x} \in SUBSET S
    OBVIOUS
  <2>2. SumFunctionOnSet(g, T \cup {x}) = g[x] + SumFunctionOnSet(g, T)
    BY <1>2, <2>1
  <2> QED
    BY <1>4, <2>1, <2>2
<1> HIDE DEF F
<1>5. S \in F
  BY <1>3, <1>4, FiniteSetInduction
<1> QED
  BY <1>5 DEF F

\* q lists the members of S, once each; f is the sum of g along q, place by place.
Enumerates(q, m, S) ==
  /\ q \in [1..m -> S] /\ \A k, l \in 1..m : k < l => q[k] # q[l]
  /\ \A x \in S : \E k \in 1..m : q[k] = x
Sums(f, q, g, m) == f[0] = 0 /\ \A k \in 1..m : f[k] = f[k - 1] + g[q[k]]

\* A sum can be taken in any order.
LEMMA SumInOrder ==
  ASSUME NEW m \in Nat, NEW S, IsFiniteSet(S), NEW q, Enumerates(q, m, S),
         NEW g, Integral(g, S), NEW f, Sums(f, q, g, m)
  PROVE  f[m] = SumFunctionOnSet(g, S)
<1> DEFINE First(k) == {q[l] : l \in 1..k}
           N == {k \in Nat : k <= m => f[k] = SumFunctionOnSet(g, First(k))}
<1>1. ASSUME NEW k \in 0..m
      PROVE  First(k) \in SUBSET S /\ IsFiniteSet(First(k)) /\ \A x \in First(k) : g[x] \in Int
  <2>1. \A l \in 1..k : l \in 1..m
    OBVIOUS
  <2>2. First(k) \in SUBSET S
    BY <2>1 DEF Enumerates
  <2>3. IsFiniteSet(First(k))
    BY <2>2, FS_Subset
  <2> QED
    BY <2>2, <2>3 DEF Integral
<1>2. 0 \in N
  <2>1. First(0) = {}
    OBVIOUS
  <2>2. 0 \in 0..m
    OBVIOUS
  <2> HIDE DEF First
  <2>3. SumFunctionOnSet(g, First(0)) = 0
    BY <1>1, <2>1, <2>2, SumAdds
  <2> QED
    BY <2>3 DEF Sums
<1>3. ASSUME NEW k \in Nat, k \in N
      PROVE  k + 1 \in N
  <2> SUFFICES ASSUME k + 1 <= m
               PROVE  f[k + 1] = SumFunctionOnSet(g, First(k + 1))
    OBVIOUS
  <2>1. k + 1 \in 1..m /\ k \in 0..m /\ k + 1 \in 0..m /\ (k + 1) - 1 = k
    OBVIOUS
  <2>2. PICK x : x = q[k + 1]
    OBVIOUS
  <2>3. x \in First(k + 1)
    BY <2>1, <2>2
  <2>4. First(k + 1) \ {x} = First(k)
    <3>1. \A l \in 1..k : l \in 1..m /\ l < k + 1 /\ l \in 1..k + 1
      BY <2>1
    <3>2. \A l \in 1..k : q[l] # x
      BY <2>1, <2>2, <3>1 DEF Enumerates
    <3>3. \A l \in 1..k + 1 : l = k + 1 \/ l \in 1..k
      OBVIOUS
    <3> QED
      BY <2>2, <3>1, <3>2, <3>3
  <2>5. SumFunctionOnSet(g, First(k)) \in Int
    <3> HIDE DEF First
    <3> QED
      BY <1>1, <2>1, SumAdds
  <2>6. SumFunctionOnSet(g, First(k + 1)) = g[x] + SumFunctionOnSet(g, First(k))
    <3> HIDE DEF First
    <3>1. \A y \in First(k + 1) : SumFunctionOnSet(g, First(k + 1)) = g[y] + SumFunctionOnSet(g, First(k + 1) \ {y})
      BY <1>1, <2>1, SumAdds
    <3> QED
      BY <2>3, <2>4, <3>1
  <2>7. f[k + 1] = f[k] + g[x] /\ f[k] = SumFunctionOnSet(g, First(k))
    BY <1>3, <2>1, <2>2 DEF Sums
  <2>8. g[x] \in Int
    <3> HIDE DEF First
    <3> QED
      BY <1>1, <2>1, <2>3
  <2> HIDE DEF First
  <2> QED
    BY <2>5, <2>6, <2>7, <2>8
<1>4. Nat \subseteq N
  <2> HIDE DEF N
  <2> QED
    BY <1>2, <1>3, NatSetInduction
<1>5. First(m) = S
  BY DEF Enumerates
<1> QED
  BY <1>4, <1>5

\* The positions of a set of numbers, in rising order, are such a list.
LEMMA AscendingEnumerates ==
  ASSUME NEW n \in Nat, NEW S \in SUBSET (1..n)
  PROVE  IsFiniteSet(S) /\ Cardinality(S) \in Nat /\ Enumerates(Ascending(S), Cardinality(S), S)
<1>1. PICK q : q = Ascending(S)
  OBVIOUS
<1>2. /\ IsFiniteSet(S) /\ Cardinality(S) \in Nat
      /\ q \in [1..Cardinality(S) -> S]
      /\ \A k, l \in 1..Cardinality(S) : k < l => q[k] < q[l]
      /\ \A i \in S : \E k \in 1..Cardinality(S) : q[k] = i
  BY <1>1, AscendingProperties
<1>3. \A i, j \in S : i < j => i # j
  <2>1. S \subseteq Int
    OBVIOUS
  <2> QED
    BY <2>1
<1>4. \A k, l \in 1..Cardinality(S) : k < l => q[k] # q[l]
  BY <1>2, <1>3
<1> QED
  BY <1>1, <1>2, <1>4 DEF Enumerates

=============================================================================
