------------------------------ MODULE FoldProofs ------------------------------
(* What FoldLeft computes, for any operator and base: the loop of the code over
   a sequence, one state after each turn. *)
EXTENDS FiniteProofs, SequencesExt

CONSTANTS Op(_, _), base

\* The states of the loop: f[k] is that after k turns.
Turns(f, q) == f[0] = base /\ \A k \in 1..Len(q) : f[k] = Op(f[k - 1], q[k])

\* The recursion over the sets of positions that the definition of FoldLeft has.
Recursion(it, q, S) ==
  it = [s \in SUBSET S |-> IF s = {} THEN base ELSE Op(it[s \ {Max(s)}], q[Max(s)])]

\* The recursion has a solution on the positions of a prefix.
LEMMA RecursionExists ==
  ASSUME NEW q, NEW n \in Nat
  PROVE  \E it : Recursion(it, q, 1..n)
<1> DEFINE N == {m \in Nat : \E it : Recursion(it, q, 1..m)}
<1>1. 0 \in N
  <2>1. PICK it : it = [s \in SUBSET (1..0) |-> base]
    OBVIOUS
  <2>2. \A s \in SUBSET (1..0) : s = {}
    OBVIOUS
  <2>3. Recursion(it, q, 1..0)
    BY <2>1, <2>2 DEF Recursion
  <2> QED
    BY <2>3
<1>2. ASSUME NEW m \in Nat, m \in N
      PROVE  m + 1 \in N
  <2>1. PICK it : Recursion(it, q, 1..m)
    BY <1>2
  <2>2. PICK jt : jt = [s \in SUBSET (1..m + 1) |->
                         IF m + 1 \in s THEN Op(it[s \ {m + 1}], q[m + 1]) ELSE it[s]]
    OBVIOUS
  <2>3. \A s \in SUBSET (1..m) : s \in SUBSET (1..m + 1) /\ m + 1 \notin s
    OBVIOUS
  <2>4. \A s \in SUBSET (1..m) : jt[s] = it[s]
    BY <2>2, <2>3
  <2>5. ASSUME NEW s \in SUBSET (1..m + 1)
        PROVE  jt[s] = IF s = {} THEN base ELSE Op(jt[s \ {Max(s)}], q[Max(s)])
    <3>1. CASE m + 1 \in s
      <4>1. Max(s) \in s /\ \A i \in s : i <= Max(s)
        <5>1. m + 1 \in Nat /\ s # {}
          BY <3>1
        <5> QED
          BY <5>1, MaxOf
      <4>2. Max(s) = m + 1
        <5>1. Max(s) \in 1..m + 1 /\ m + 1 <= Max(s)
          BY <3>1, <4>1
        <5> QED
          BY <5>1
      <4>3. s \ {m + 1} \in SUBSET (1..m)
        OBVIOUS
      <4>4. jt[s] = Op(it[s \ {m + 1}], q[m + 1])
        BY <2>2, <3>1
      <4>5. jt[s \ {m + 1}] = it[s \ {m + 1}]
        BY <2>4, <4>3
      <4>6. s # {}
        BY <3>1
      <4> QED
        BY <4>2, <4>4, <4>5, <4>6
    <3>2. CASE m + 1 \notin s
      <4>1. s \in SUBSET (1..m)
        BY <3>2
      <4>2. jt[s] = it[s]
        BY <2>4, <4>1
      <4>3. it[s] = IF s = {} THEN base ELSE Op(it[s \ {Max(s)}], q[Max(s)])
        BY <2>1, <4>1 DEF Recursion
      <4>4. s \ {Max(s)} \in SUBSET (1..m)
        BY <4>1
      <4>5. jt[s \ {Max(s)}] = it[s \ {Max(s)}]
        BY <2>4, <4>4
      <4> QED
        BY <4>2, <4>3, <4>5
    <3> QED
      BY <3>1, <3>2
  <2>6. Recursion(jt, q, 1..m + 1)
    <3>1. jt = [s \in SUBSET (1..m + 1) |-> jt[s]]
      BY <2>2
    <3>2. jt = [s \in SUBSET (1..m + 1) |->
                 IF s = {} THEN base ELSE Op(jt[s \ {Max(s)}], q[Max(s)])]
      BY <2>5, <3>1
    <3> QED
      BY <3>2 DEF Recursion
  <2> QED
    BY <2>6
<1>3. Nat \subseteq N
  <2> HIDE DEF N
  <2> QED
    BY <1>1, <1>2, NatSetInduction
<1> QED
  BY <1>3

\* FoldLeft is an entry of such a solution.
LEMMA FoldOfRecursion ==
  ASSUME NEW T, NEW q \in Seq(T)
  PROVE  \E it : Recursion(it, q, 1..Len(q)) /\ FoldLeft(Op, base, q) = it[1..Len(q)]
<1>1. DOMAIN q = 1..Len(q) /\ Len(q) \in Nat
  OBVIOUS
<1>2. PICK it : Recursion(it, q, DOMAIN q)
  BY <1>1, RecursionExists
<1>3. it = [s \in SUBSET DOMAIN q |-> IF s = {} THEN base ELSE Op(it[s \ {Max(s)}], q[Max(s)])]
  BY <1>2 DEF Recursion
<1>4. \E jt : /\ jt = [s \in SUBSET DOMAIN q |->
                        IF s = {} THEN base ELSE Op(jt[s \ {Max(s)}], q[Max(s)])]
              /\ FoldLeft(Op, base, q) = jt[DOMAIN q]
  BY <1>3 DEF FoldLeft, MapThenFoldSet
<1> QED
  BY <1>1, <1>4 DEF Recursion

\* FoldLeft is the state after the last turn.
LEMMA Folded ==
  ASSUME NEW T, NEW q \in Seq(T)
  PROVE  \E f : Turns(f, q) /\ FoldLeft(Op, base, q) = f[Len(q)]
<1>1. Len(q) \in Nat
  OBVIOUS
<1>2. PICK n \in Nat : n = Len(q)
  BY <1>1
<1>3. PICK it : Recursion(it, q, 1..n) /\ FoldLeft(Op, base, q) = it[1..n]
  BY <1>2, FoldOfRecursion
<1>4. PICK f : f = [k \in 0..n |-> it[1..k]]
  OBVIOUS
<1>5. f[0] = base
  <2>1. f[0] = it[{}]
    BY <1>4
  <2>2. it[{}] = base
    BY <1>3 DEF Recursion
  <2> QED
    BY <2>1, <2>2
<1>6. ASSUME NEW k \in 1..n
      PROVE  f[k] = Op(f[k - 1], q[k])
  <2>1. 1..k \in SUBSET (1..n) /\ 1..k # {} /\ k \in 1..k /\ k - 1 \in 0..n
    <3>1. \A i \in 1..k : i \in 1..n
      OBVIOUS
    <3>2. k \in 1..k /\ k - 1 \in 0..n
      OBVIOUS
    <3> QED
      BY <3>1, <3>2
  <2>2. Max(1..k) \in 1..k /\ \A i \in 1..k : i <= Max(1..k)
    BY <2>1, MaxOf
  <2>3. Max(1..k) = k
    <3>1. k <= Max(1..k) /\ Max(1..k) \in 1..k
      BY <2>1, <2>2
    <3> QED
      BY <3>1
  <2>4. (1..k) \ {k} = 1..k - 1
    OBVIOUS
  <2>5. it[1..k] = Op(it[(1..k) \ {Max(1..k)}], q[Max(1..k)])
    BY <1>3, <2>1 DEF Recursion
  <2>6. it[1..k] = Op(it[1..k - 1], q[k])
    BY <2>3, <2>4, <2>5
  <2>7. f[k] = it[1..k] /\ f[k - 1] = it[1..k - 1]
    BY <1>4, <2>1
  <2> QED
    BY <2>6, <2>7
<1>7. FoldLeft(Op, base, q) = f[n]
  BY <1>3, <1>4
<1> QED
  BY <1>2, <1>5, <1>6, <1>7 DEF Turns

=============================================================================
