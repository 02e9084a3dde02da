---------------------------- MODULE FilesProofs -----------------------------
(* What the operators of FilesCollector compute, for every output of du and find that
   Collectors assumes: the slices of the users, and the tree.  *)
EXTENDS Collectors, FiniteProofs, SequenceTheorems

-----------------------------------------------------------------------------
(* Users *)

TallyFold == INSTANCE FoldProofs WITH Op <- AddBlocks, base <- 0

\* Blocks are added up line by line.
LEMMA TallyTurns ==
  ASSUME NEW T, NEW q \in Seq(T)
  PROVE  \E f : /\ f[0] = 0
                /\ \A k \in 1..Len(q) : f[k] = f[k - 1] + q[k].blocks * BlockSize
                /\ FoldLeft(AddBlocks, 0, q) = f[Len(q)]
BY TallyFold!Folded
   DEF TallyFold!Turns, AddBlocks, FoldLeft, TallyFold!FoldLeft, MapThenFoldSet,
       TallyFold!MapThenFoldSet, Max, TallyFold!Max

\* The output of find as FilesAssumption has it.
Found(lines) ==
  /\ IsLines(lines)
  /\ \A i \in DOMAIN lines :
       /\ lines[i].blocks \in {Bad} \cup Nat /\ lines[i].uid \in {Bad} \cup Nat
       /\ lines[i].uid # Bad /\ lines[i].uid >= FirstUser => lines[i].uid \in DOMAIN UserName

\* The lines with a number of blocks, those of an owner among them, the bytes of each.
CountedLines(lines) == {i \in DOMAIN lines : lines[i].blocks # Bad}
LinesOf(lines, o) == {i \in CountedLines(lines) : Owner(lines[i].uid) = o}
Bytes(lines) == [i \in CountedLines(lines) |-> 512 * lines[i].blocks]
Owners(lines) == {Owner(lines[i].uid) : i \in CountedLines(lines)}

\* The bytes are numbers, and the positions can be listed.
LEMMA BytesCounted ==
  ASSUME NEW lines, Found(lines), NEW o
  PROVE  /\ LinesOf(lines, o) \in SUBSET DOMAIN lines
         /\ IsFiniteSet(LinesOf(lines, o)) /\ Integral(Bytes(lines), LinesOf(lines, o))
<1>1. lines \in Seq(ToSet(lines))
  BY DEF Found, IsLines
<1>2. LinesOf(lines, o) \in SUBSET DOMAIN lines
  BY DEF LinesOf, CountedLines
<1>3. IsFiniteSet(LinesOf(lines, o))
  BY <1>1, <1>2, KeptProperties
<1>4. ASSUME NEW i \in LinesOf(lines, o)
      PROVE  Bytes(lines)[i] \in Int
  <2>1. i \in CountedLines(lines) /\ lines[i].blocks \in Nat
    BY DEF LinesOf, CountedLines, Found
  <2>2. \A b \in Nat : 512 * b \in Int
    OBVIOUS
  <2> QED
    BY <2>1, <2>2 DEF Bytes
<1> QED
  BY <1>2, <1>3, <1>4 DEF Integral

\* What the loop adds up for the lines at some positions is the sum of their bytes,
\* in whatever list q of the lines with these bytes.
LEMMA BytesAdded ==
  ASSUME NEW lines, Found(lines), NEW o, NEW more, NEW m \in Nat, NEW q,
         Enumerates(q, m, LinesOf(lines, o)),
         more \in Seq(ToSet(more)), Len(more) = m,
         \A k \in 1..m : more[k] = lines[q[k]]
  PROVE  FoldLeft(AddBlocks, 0, more) = SumFunctionOnSet(Bytes(lines), LinesOf(lines, o))
<1> DEFINE S == LinesOf(lines, o)
           g == Bytes(lines)
<1>1. PICK f : /\ f[0] = 0
               /\ \A k \in 1..m : f[k] = f[k - 1] + more[k].blocks * BlockSize
               /\ FoldLeft(AddBlocks, 0, more) = f[m]
  BY TallyTurns
<1>2. IsFiniteSet(S) /\ Integral(g, S)
  BY BytesCounted
<1>3. \A k \in 1..m : q[k] \in S
  BY DEF Enumerates
<1>4. ASSUME NEW k \in 1..m
      PROVE  more[k].blocks * BlockSize = g[q[k]]
  <2>1. q[k] \in CountedLines(lines) /\ lines[q[k]].blocks \in Nat
    BY <1>3 DEF LinesOf, CountedLines, Found
  <2>2. \A b \in Nat : b * 512 = 512 * b
    OBVIOUS
  <2> QED
    BY <2>1, <2>2 DEF Bytes, BlockSize
<1> HIDE DEF S, g
<1>5. Sums(f, q, g, m)
  BY <1>1, <1>4 DEF Sums
<1>6. Enumerates(q, m, S)
  BY DEF S
<1>7. f[m] = SumFunctionOnSet(g, S)
  BY <1>2, <1>5, <1>6, SumInOrder
<1> QED
  BY <1>1, <1>7 DEF S, g

\* The tally of an owner is the sum of the bytes of the owner's lines.
LEMMA TallyCorrect ==
  ASSUME NEW lines, Found(lines)
  PROVE  Tally(lines) = [o \in Owners(lines) |->
                          SumFunctionOnSet(Bytes(lines), LinesOf(lines, o))]
<1>1. lines \in Seq(ToSet(lines)) /\ Len(lines) \in Nat /\ DOMAIN lines = 1..Len(lines)
  BY DEF Found, IsLines
<1>2. ASSUME NEW o
      PROVE  FoldLeft(AddBlocks, 0, Kept(lines, LinesOf(lines, o)))
               = SumFunctionOnSet(Bytes(lines), LinesOf(lines, o))
  <2>1. PICK at : at = LinesOf(lines, o)
    OBVIOUS
  <2>2. PICK more : more = Kept(lines, at)
    OBVIOUS
  <2>3. PICK m \in Nat : m = Cardinality(at)
    BY <1>1, <2>1, BytesCounted, KeptProperties
  <2>4. /\ more \in Seq(ToSet(lines)) /\ Len(more) = m
        /\ \A k \in 1..m : more[k] = lines[Ascending(at)[k]]
    BY <1>1, <2>1, <2>2, <2>3, BytesCounted, KeptProperties
  <2>5. more \in Seq(ToSet(more))
    BY <2>4 DEF ToSet
  <2>6. Enumerates(Ascending(at), m, LinesOf(lines, o))
    <3>1. at \in SUBSET (1..Len(lines))
      BY <1>1, <2>1, BytesCounted
    <3> QED
      BY <1>1, <2>1, <2>3, <3>1, AscendingEnumerates
  <2>7. FoldLeft(AddBlocks, 0, more) = SumFunctionOnSet(Bytes(lines), LinesOf(lines, o))
    BY <2>4, <2>5, <2>6, BytesAdded
  <2> QED
    BY <2>1, <2>2, <2>7
<1>3. Tally(lines) = [o \in Owners(lines) |->
                       FoldLeft(AddBlocks, 0, Kept(lines, LinesOf(lines, o)))]
  BY DEF Tally, Owners, LinesOf, CountedLines
<1> QED
  BY <1>2, <1>3

\* The order of the lines makes no difference to the tally.
LEMMA TallyReversed ==
  ASSUME NEW lines, Found(lines)
  PROVE  Tally(Reverse(lines)) = Tally(lines)
<1>1. PICK n \in Nat : n = Len(lines) /\ DOMAIN lines = 1..n /\ lines \in Seq(ToSet(lines))
  BY DEF Found, IsLines
<1>2. PICK rev : rev = Reverse(lines)
  OBVIOUS
<1>3. rev = [i \in 1..n |-> lines[(n - i) + 1]]
  BY <1>1, <1>2 DEF Reverse
<1>4. /\ \A i \in 1..n : (n - i) + 1 \in 1..n /\ (n - ((n - i) + 1)) + 1 = i
      /\ \A i, j \in 1..n : i < j => (n - i) + 1 # (n - j) + 1
  BY <1>1
<1>5. /\ DOMAIN rev = 1..n /\ rev \in Seq(ToSet(rev)) /\ Len(rev) = n
      /\ \A i \in 1..n : rev[i] = lines[(n - i) + 1] /\ lines[i] = rev[(n - i) + 1]
  <2>1. DOMAIN rev = 1..n /\ \A i \in 1..n : rev[i] \in ToSet(rev)
    BY <1>3 DEF ToSet
  <2>2. rev \in [1..n -> ToSet(rev)]
    BY <1>3, <2>1
  <2>3. \A i \in 1..n : rev[i] = lines[(n - i) + 1] /\ lines[i] = rev[(n - i) + 1]
    BY <1>3, <1>4
  <2> QED
    BY <1>1, <2>1, <2>2, <2>3
<1>6. Owners(rev) = Owners(lines)
  <2>1. ASSUME NEW i \in CountedLines(rev)
        PROVE  Owner(rev[i].uid) \in Owners(lines)
    <3>1. i \in 1..n /\ rev[i].blocks # Bad
      BY <1>5 DEF CountedLines
    <3>2. (n - i) + 1 \in 1..n /\ rev[i] = lines[(n - i) + 1]
      BY <1>4, <1>5, <3>1
    <3>3. (n - i) + 1 \in CountedLines(lines)
      BY <1>1, <3>1, <3>2 DEF CountedLines
    <3> QED
      BY <3>2, <3>3 DEF Owners
  <2>2. ASSUME NEW i \in CountedLines(lines)
        PROVE  Owner(lines[i].uid) \in Owners(rev)
    <3>1. i \in 1..n /\ lines[i].blocks # Bad
      BY <1>1 DEF CountedLines
    <3>2. (n - i) + 1 \in 1..n /\ lines[i] = rev[(n - i) + 1]
      BY <1>4, <1>5, <3>1
    <3>3. (n - i) + 1 \in CountedLines(rev)
      BY <1>5, <3>1, <3>2 DEF CountedLines
    <3> QED
      BY <3>2, <3>3 DEF Owners
  <2> QED
    BY <2>1, <2>2 DEF Owners
<1>7. ASSUME NEW o
      PROVE  FoldLeft(AddBlocks, 0, Kept(rev, LinesOf(rev, o)))
               = SumFunctionOnSet(Bytes(lines), LinesOf(lines, o))
  <2>1. PICK at : at = LinesOf(rev, o)
    OBVIOUS
  <2>2. PICK more : more = Kept(rev, at)
    OBVIOUS
  <2>3. at \in SUBSET (1..n) /\ at \in SUBSET DOMAIN rev
    BY <1>5, <2>1 DEF LinesOf, CountedLines
  <2>4. PICK m \in Nat : m = Cardinality(at)
    BY <1>1, <2>3, AscendingEnumerates
  <2>5. /\ more \in Seq(ToSet(rev)) /\ Len(more) = m
        /\ \A k \in 1..m : more[k] = rev[Ascending(at)[k]]
    <3>1. rev \in Seq(ToSet(rev))
      BY <1>5
    <3>2. at \in SUBSET DOMAIN rev
      BY <2>3
    <3> QED
      BY <2>2, <2>4, <3>1, <3>2, KeptProperties
  <2>6. more \in Seq(ToSet(more))
    BY <2>5 DEF ToSet
  <2>7. PICK a : a = Ascending(at)
    OBVIOUS
  <2>8. /\ a \in [1..m -> at] /\ \A k, l \in 1..m : k < l => a[k] < a[l]
        /\ \A i \in at : \E k \in 1..m : a[k] = i
    BY <1>1, <2>3, <2>4, <2>7, AscendingProperties
  <2>9. PICK q : q = [k \in 1..m |-> (n - a[k]) + 1]
    OBVIOUS
  <2>10. \A k \in 1..m : a[k] \in 1..n /\ q[k] = (n - a[k]) + 1 /\ more[k] = lines[q[k]]
    BY <1>5, <2>3, <2>5, <2>7, <2>8, <2>9
  <2>11. \A i \in 1..n : i \in LinesOf(lines, o) <=> (n - i) + 1 \in at
    BY <1>1, <1>4, <1>5, <2>1 DEF LinesOf, CountedLines
  <2>12. \A k \in 1..m : q[k] \in LinesOf(lines, o)
    BY <1>4, <2>8, <2>10, <2>11, SMTT(30)
  <2>13. \A i \in LinesOf(lines, o) : \E k \in 1..m : q[k] = i
    <3>1. \A i \in LinesOf(lines, o) : i \in 1..n
      BY <1>1 DEF LinesOf, CountedLines
    <3>2. \A i \in LinesOf(lines, o) : \E k \in 1..m : a[k] = (n - i) + 1
      BY <2>8, <2>11, <3>1
    <3> QED
      BY <1>4, <2>10, <3>1, <3>2
  <2>14. ASSUME NEW k \in 1..m, NEW l \in 1..m, k < l
         PROVE  q[k] # q[l]
    <3>1. a[k] < a[l] /\ a[k] \in 1..n /\ a[l] \in 1..n
      BY <2>8, <2>10, <2>14
    <3>2. (n - a[k]) + 1 # (n - a[l]) + 1
      BY <1>4, <3>1
    <3> QED
      BY <2>10, <3>2
  <2>15. Enumerates(q, m, LinesOf(lines, o))
    BY <2>9, <2>12, <2>13, <2>14 DEF Enumerates
  <2>16. FoldLeft(AddBlocks, 0, more) = SumFunctionOnSet(Bytes(lines), LinesOf(lines, o))
    BY <2>5, <2>6, <2>10, <2>15, BytesAdded
  <2> QED
    BY <2>1, <2>2, <2>16
<1>8. Tally(rev) = [o \in Owners(rev) |-> FoldLeft(AddBlocks, 0, Kept(rev, LinesOf(rev, o)))]
  BY DEF Tally, Owners, LinesOf, CountedLines
<1>9. Tally(lines) = [o \in Owners(lines) |->
                       SumFunctionOnSet(Bytes(lines), LinesOf(lines, o))]
  BY TallyCorrect
<1> QED
  BY <1>2, <1>6, <1>7, <1>8, <1>9

\* A slice of the pie, and all of them.
Slice(lines, o) == [user |-> o, size |-> Tally(lines)[o]]
Slices(lines) == {Slice(lines, o) : o \in Owners(lines)}

\* The slices are listed, once each, the larger ones first and ties by name.
LEMMA UsersSorted ==
  ASSUME NEW lines, Found(lines)
  PROVE  LET users == ParseUserUsage(lines)
             n == Cardinality(Slices(lines))
         IN  /\ n \in Nat /\ users \in [1..n -> Slices(lines)]
             /\ \A k, l \in 1..n : k < l => Before(users[k], users[l])
             /\ \A s \in Slices(lines) : \E k \in 1..n : users[k] = s
<1>1. PICK S : S = Slices(lines)
  OBVIOUS
<1>2. IsFiniteSet(S)
  <2>1. PICK f : f = [i \in CountedLines(lines) |-> Slice(lines, Owner(lines[i].uid))]
    OBVIOUS
  <2>2. f \in Surjection(CountedLines(lines), S)
    BY <1>1, <2>1 DEF Surjection, Slices, Owners
  <2>3. IsFiniteSet(CountedLines(lines))
    <3>1. lines \in Seq(ToSet(lines)) /\ CountedLines(lines) \in SUBSET DOMAIN lines
      BY DEF Found, IsLines, CountedLines
    <3> QED
      BY <3>1, KeptProperties
  <2> QED
    BY <2>2, <2>3, FS_Surjection
<1>3. ASSUME NEW s \in S
      PROVE  s.user \in DOMAIN UserRank /\ s.size \in Int /\ s = Slice(lines, s.user)
  <2>1. PICK o \in Owners(lines) : s = Slice(lines, o)
    BY <1>1 DEF Slices
  <2>2. PICK i \in CountedLines(lines) : o = Owner(lines[i].uid)
    BY <2>1 DEF Owners
  <2>3. lines[i].uid \in {Bad} \cup Nat
        /\ (lines[i].uid # Bad /\ lines[i].uid >= FirstUser => lines[i].uid \in DOMAIN UserName)
    BY DEF CountedLines, Found
  <2>4. o \in DOMAIN UserRank
    <3>1. CASE lines[i].uid = Bad \/ lines[i].uid < FirstUser
      BY <2>2, <3>1, FilesAssumption DEF Owner
    <3>2. CASE ~(lines[i].uid = Bad \/ lines[i].uid < FirstUser)
      <4>1. lines[i].uid >= FirstUser
        BY <2>3, <3>2 DEF FirstUser
      <4> QED
        BY <2>2, <2>3, <3>2, <4>1, FilesAssumption DEF Owner
    <3> QED
      BY <3>1, <3>2
  <2>5. Tally(lines)[o] = SumFunctionOnSet(Bytes(lines), LinesOf(lines, o))
    BY <2>1, TallyCorrect
  <2>6. SumFunctionOnSet(Bytes(lines), LinesOf(lines, o)) \in Int
    BY BytesCounted, SumAdds DEF Integral
  <2> QED
    BY <2>1, <2>4, <2>5, <2>6 DEF Slice
<1>4. PICK R : R = {p \in S \X S : Before(p[1], p[2])}
  OBVIOUS
<1>5. \A x, y \in S : <<x, y>> \in R <=> Before(x, y)
  BY <1>4
<1>6. Orders(R, S)
  <2>1. \A u \in DOMAIN UserRank : UserRank[u] \in Int
    BY FilesAssumption
  <2>2. \A x \in S : x.size \in Int /\ UserRank[x.user] \in Int
    BY <1>3, <2>1
  <2>3. \A x, y \in S : Before(x, y) => ~Before(y, x)
    BY <2>2 DEF Before
  <2>4. \A x, y, z \in S : Before(x, y) /\ Before(y, z) => Before(x, z)
    BY <2>2 DEF Before
  <2>5. ASSUME NEW x \in S, NEW y \in S, x # y
        PROVE  Before(x, y) \/ Before(y, x)
    <3>1. x.user # y.user
      BY <1>3, <2>5
    <3>2. UserRank[x.user] # UserRank[y.user]
      BY <1>3, <3>1, FilesAssumption DEF IsInjective
    <3> QED
      BY <2>2, <3>2 DEF Before
  <2> QED
    BY <1>5, <2>3, <2>4, <2>5 DEF Orders
<1>7. \A x \in S : {y \in S : Before(y, x)} = Preceding(S, R, x)
  BY <1>5 DEF Preceding
<1>8. PICK users : users = ParseUserUsage(lines)
  OBVIOUS
<1>9. Numbering(users, S, R)
  <2> DEFINE Ranked(k) == CHOOSE x \in S : Cardinality({y \in S : Before(y, x)}) = k - 1
  <2>1. S = {[user |-> o, size |-> Tally(lines)[o]] : o \in DOMAIN Tally(lines)}
    <3>1. DOMAIN Tally(lines) = Owners(lines)
      BY TallyCorrect
    <3> QED
      BY <1>1, <3>1 DEF Slices, Slice
  <2>2. users = Sorted(S, Before)
    BY <1>8, <2>1 DEF ParseUserUsage
  <2>3. users = [k \in 1..Cardinality(S) |-> Ranked(k)]
    BY <2>2, Zenon DEF Sorted
  <2>4. ASSUME NEW k \in 1..Cardinality(S), \E x \in S : Cardinality(Preceding(S, R, x)) = k - 1
        PROVE  Ranked(k) \in S /\ Cardinality(Preceding(S, R, Ranked(k))) = k - 1
    <3>1. \E x \in S : Cardinality({y \in S : Before(y, x)}) = k - 1
      BY <1>7, <2>4
    <3>2. Ranked(k) \in S /\ Cardinality({y \in S : Before(y, Ranked(k))}) = k - 1
      BY <3>1
    <3> QED
      BY <1>7, <3>2
  <2> HIDE DEF Ranked
  <2> QED
    BY <2>3, <2>4 DEF Numbering
<1>10. /\ Cardinality(S) \in Nat /\ users \in [1..Cardinality(S) -> S]
       /\ \A k, l \in 1..Cardinality(S) : k < l => <<users[k], users[l]>> \in R
       /\ \A s \in S : \E k \in 1..Cardinality(S) : users[k] = s
  BY <1>2, <1>6, <1>9, SortedProperties
<1>11. \A k, l \in 1..Cardinality(S) : k < l => Before(users[k], users[l])
  BY <1>5, <1>10
<1> QED
  BY <1>1, <1>8, <1>10, <1>11

-----------------------------------------------------------------------------
(* The tree *)

DiskNames == DOMAIN Shown

\* What the paths below the root begin with.
Base(root) == IF Last(root) = Nothing THEN Front(root) ELSE root

\* Positions of a sequence and of one appended to it.
LEMMA Offsets ==
  /\ \A j, k, l \in Nat : j + k = j + l => k = l
  /\ \A j, k \in Nat : k # 0 => j # j + k
  /\ \A j, k \in Nat : \A l \in 1..k : j + l \in 1..j + k /\ ~(j + l <= j) /\ (j + l) - j = l
OBVIOUS

\* All but the last of a sequence.
LEMMA FrontProperties ==
  ASSUME NEW S, NEW s \in Seq(S), s # <<>>
  PROVE  /\ Front(s) \in Seq(S) /\ Len(s) \in Nat \ {0} /\ Len(Front(s)) = Len(s) - 1
         /\ \A i \in 1..Len(s) - 1 : Front(s)[i] = s[i]
<1>1. Len(s) \in Nat \ {0} /\ \A i \in 1..Len(s) : s[i] \in S
  BY EmptySeq, ElementOfSeq
<1>2. PICK n \in Nat : n + 1 = Len(s) /\ n = Len(s) - 1
  BY <1>1
<1>3. \A i \in 1..n : s[i] \in S
  BY <1>1, <1>2
<1>4. /\ SubSeq(s, 1, n) \in Seq(S)
      /\ Len(SubSeq(s, 1, n)) = IF 1 <= n THEN n - 1 + 1 ELSE 0
      /\ \A i \in 1..n - 1 + 1 : SubSeq(s, 1, n)[i] = s[1 + i - 1]
  BY <1>2, <1>3, SubSeqProperties
<1>5. Len(SubSeq(s, 1, n)) = n /\ \A i \in 1..n : SubSeq(s, 1, n)[i] = s[i]
  BY <1>2, <1>4
<1> QED
  BY <1>1, <1>2, <1>4, <1>5 DEF Front

\* A sequence that ends is its front and its last.
LEMMA FrontAndLast ==
  ASSUME NEW S, NEW s \in Seq(S), NEW t \in Seq(S), s # <<>>, t # <<>>,
         Front(s) = Front(t), s[Len(s)] = t[Len(t)]
  PROVE  s = t
<1>1. /\ Len(s) \in Nat \ {0} /\ Len(Front(s)) = Len(s) - 1
      /\ \A i \in 1..Len(s) - 1 : Front(s)[i] = s[i]
  BY FrontProperties
<1>2. /\ Len(t) \in Nat \ {0} /\ Len(Front(t)) = Len(t) - 1
      /\ \A i \in 1..Len(t) - 1 : Front(t)[i] = t[i]
  BY FrontProperties
<1>3. Len(s) = Len(t)
  BY <1>1, <1>2
<1>4. ASSUME NEW i \in 1..Len(s)
      PROVE  s[i] = t[i]
  <2>1. CASE i = Len(s)
    BY <1>3, <2>1
  <2>2. CASE i # Len(s)
    <3>1. i \in 1..Len(s) - 1
      BY <1>1, <2>2
    <3> QED
      BY <1>1, <1>2, <1>3, <3>1
  <2> QED
    BY <2>1, <2>2
<1> QED
  BY <1>3, <1>4, SeqEqual

\* The path of a directory below the root: its own names after the base.
LEMMA PathProperties ==
  ASSUME NEW root \in Seq(DiskNames), root # <<>>, NEW d \in Seq(DiskNames), d # <<>>
  PROVE  /\ Base(root) \in Seq(DiskNames) /\ Len(Base(root)) \in Nat
         /\ Last(root) = Nothing => Len(root) = Len(Base(root)) + 1
         /\ Last(root) # Nothing => Base(root) = root
         /\ Printed(root, d) = Base(root) \o d /\ Printed(root, d) \in Seq(DiskNames)
         /\ Len(d) \in Nat \ {0} /\ Len(Printed(root, d)) = Len(Base(root)) + Len(d)
         /\ \A i \in 1..Len(d) : Printed(root, d)[Len(Base(root)) + i] = d[i]
<1>1. PICK b : b = Base(root)
  OBVIOUS
<1>2. /\ b \in Seq(DiskNames) /\ Len(b) \in Nat
      /\ Last(root) = Nothing => Len(root) = Len(b) + 1
      /\ Last(root) # Nothing => b = root
  <2>1. /\ Front(root) \in Seq(DiskNames) /\ Len(root) \in Nat \ {0}
        /\ Len(Front(root)) = Len(root) - 1
    BY FrontProperties
  <2>2. CASE Last(root) = Nothing
    <3>1. b = Front(root)
      BY <1>1, <2>2 DEF Base
    <3>2. Len(b) \in Nat /\ Len(root) = Len(b) + 1
      <4>1. \A n, m : n \in Nat \ {0} /\ m = n - 1 => m \in Nat /\ n = m + 1
        OBVIOUS
      <4> QED
        BY <2>1, <3>1, <4>1
    <3> QED
      BY <2>1, <2>2, <3>1, <3>2
  <2>3. CASE Last(root) # Nothing
    <3>1. b = root
      BY <1>1, <2>3 DEF Base
    <3> QED
      BY <2>1, <2>3, <3>1
  <2> QED
    BY <2>2, <2>3
<1>3. Printed(root, d) = b \o d
  BY <1>1 DEF Printed, Base
<1>4. Len(d) \in Nat \ {0}
  BY EmptySeq
<1>5. /\ b \o d \in Seq(DiskNames) /\ Len(b \o d) = Len(b) + Len(d)
      /\ \A i \in 1..Len(b) + Len(d) : (b \o d)[i] = IF i <= Len(b) THEN b[i] ELSE d[i - Len(b)]
  BY <1>2, ConcatProperties
<1>6. ASSUME NEW i \in 1..Len(d)
      PROVE  (b \o d)[Len(b) + i] = d[i]
  <2>2. Len(b) \in Nat /\ Len(d) \in Nat
    BY <1>2, <1>4
  <2>3. Len(b) + i \in 1..Len(b) + Len(d) /\ ~(Len(b) + i <= Len(b)) /\ (Len(b) + i) - Len(b) = i
    BY <2>2, Offsets
  <2> QED
    BY <1>5, <2>3
<1> QED
  BY <1>1, <1>2, <1>3, <1>4, <1>5, <1>6

\* Different directories have different paths.
LEMMA PathsDiffer ==
  ASSUME NEW root \in Seq(DiskNames), root # <<>>,
         NEW d \in Seq(DiskNames \ {Nothing}), NEW e \in Seq(DiskNames \ {Nothing}),
         Printed(root, d) = Printed(root, e)
  PROVE  d = e
<1>1. ASSUME NEW f \in Seq(DiskNames \ {Nothing}), f # <<>>
      PROVE  Printed(root, f) # root
  <2>0. f \in Seq(DiskNames) /\ \A i \in 1..Len(f) : f[i] # Nothing
    <3>1. DiskNames \ {Nothing} \subseteq DiskNames
      OBVIOUS
    <3>2. \A i \in 1..Len(f) : f[i] \in DiskNames \ {Nothing}
      BY ElementOfSeq
    <3> QED
      BY <3>1, <3>2, SeqMonotonic
  <2>1. Len(f) \in Nat \ {0}
    BY <1>1, EmptySeq
  <2>2. PICK n, p :
          /\ n \in Nat /\ n = Len(Base(root)) /\ p = Printed(root, f)
          /\ Last(root) = Nothing => Len(root) = n + 1
          /\ Last(root) # Nothing => Base(root) = root
          /\ Len(p) = n + Len(f) /\ \A i \in 1..Len(f) : p[n + i] = f[i]
    <3>1. PICK n : n = Len(Base(root))
      OBVIOUS
    <3>2. PICK p : p = Printed(root, f)
      OBVIOUS
    <3> QED
      <4>1. /\ n \in Nat
            /\ Last(root) = Nothing => Len(root) = n + 1
            /\ Last(root) # Nothing => Base(root) = root
            /\ Len(p) = n + Len(f) /\ \A i \in 1..Len(f) : p[n + i] = f[i]
        BY <1>1, <2>0, <3>1, <3>2, PathProperties
      <4> QED
        BY <3>1, <3>2, <4>1
  <2>3. CASE Last(root) = Nothing
    <3> SUFFICES ASSUME p = root
                 PROVE  FALSE
      BY <2>2
    <3>1. Len(root) = n + 1 /\ Len(root) = n + Len(f)
      BY <2>2, <2>3
    <3>2. Len(f) = 1
      <4>1. n \in Nat /\ Len(f) \in Nat /\ n + 1 = n + Len(f)
        BY <2>1, <2>2, <3>1
      <4> QED
        BY <4>1, Offsets
    <3>3. root[n + 1] = f[1] /\ f[1] # Nothing
      <4>1. 1 \in 1..Len(f)
        BY <3>2
      <4> QED
        BY <2>0, <2>2, <4>1
    <3> QED
      BY <2>3, <3>1, <3>3 DEF Last
  <2>4. CASE Last(root) # Nothing
    <3>1. Len(root) = n
      BY <2>2, <2>4
    <3>3. Len(f) \in Nat /\ Len(f) # 0
      BY <2>1
    <3>4. n # n + Len(f)
      BY <2>2, <3>3, Offsets
    <3> QED
      BY <2>2, <3>1, <3>4
  <2> QED
    BY <2>3, <2>4
<1>2. CASE d = <<>> /\ e = <<>>
  BY <1>2
<1>3. CASE d = <<>> /\ e # <<>>
  BY <1>1, <1>3 DEF Printed
<1>4. CASE d # <<>> /\ e = <<>>
  BY <1>1, <1>4 DEF Printed
<1>5. CASE d # <<>> /\ e # <<>>
  <2>1. d \in Seq(DiskNames) /\ e \in Seq(DiskNames)
    BY SeqMonotonic
  <2>2. /\ Base(root) \in Seq(DiskNames) /\ Printed(root, d) = Base(root) \o d
        /\ Len(Base(root)) \in Nat
    BY <1>5, <2>1, PathProperties
  <2>3. Printed(root, e) = Base(root) \o e
    BY <1>5, <2>1, PathProperties
  <2>4. PICK b, n : b = Base(root) /\ n = Len(b) /\ b \in Seq(DiskNames) /\ n \in Nat
    <3>1. PICK b : b = Base(root)
      OBVIOUS
    <3>2. b \in Seq(DiskNames) /\ Len(b) \in Nat
      BY <2>2, <3>1
    <3> QED
      BY <3>1, <3>2
  <2>5. /\ Len(b \o d) = n + Len(d)
        /\ \A i \in 1..n + Len(d) : (b \o d)[i] = IF i <= n THEN b[i] ELSE d[i - n]
    BY <2>1, <2>4, ConcatProperties
  <2>6. /\ Len(b \o e) = n + Len(e)
        /\ \A i \in 1..n + Len(e) : (b \o e)[i] = IF i <= n THEN b[i] ELSE e[i - n]
    BY <2>1, <2>4, ConcatProperties
  <2>7. b \o d = b \o e
    BY <2>2, <2>3, <2>4
  <2>8. Len(d) = Len(e) /\ Len(d) \in Nat
    <3>1. Len(d) \in Nat /\ Len(e) \in Nat
      BY <2>1, LenProperties
    <3> QED
      BY <2>4, <2>5, <2>6, <2>7, <3>1, Offsets
  <2>9. ASSUME NEW i \in 1..Len(d)
        PROVE  d[i] = e[i]
    <3>1. n + i \in 1..n + Len(d) /\ ~(n + i <= n) /\ (n + i) - n = i
      <4>1. Len(d) \in Nat /\ i \in 1..Len(d)
        BY <2>8
      <4> QED
        BY <2>4, <4>1, Offsets
    <3>2. (b \o d)[n + i] = d[i]
      BY <2>5, <3>1
    <3>3. (b \o e)[n + i] = e[i]
      BY <2>6, <2>8, <3>1
    <3> QED
      BY <2>7, <3>2, <3>3
  <2> QED
    BY <2>1, <2>8, <2>9, SeqEqual
<1> QED
  BY <1>2, <1>3, <1>4, <1>5

\* The beginning of a path that lacks its last name.
LEMMA PathPrefix ==
  ASSUME NEW root \in Seq(DiskNames), root # <<>>, NEW d \in Seq(DiskNames), d # <<>>
  PROVE  /\ SubSeq(Printed(root, d), 1, Len(Printed(root, d)) - 1) = Base(root) \o Front(d)
         /\ \A k \in 1..Len(Printed(root, d)) - 1 :
              Len(SubSeq(Printed(root, d), 1, k)) = k
<1>1. PICK b, n, m, p :
        /\ n \in Nat /\ m \in Nat /\ b = Base(root) /\ b \in Seq(DiskNames) /\ n = Len(b) /\ m = Len(d) /\ m # 0
        /\ p = Printed(root, d) /\ p = b \o d /\ p \in Seq(DiskNames) /\ Len(p) = n + m
  <2>1. PICK b, p : b = Base(root) /\ p = Printed(root, d)
    OBVIOUS
  <2>2. /\ b \in Seq(DiskNames) /\ Len(b) \in Nat /\ p = b \o d /\ p \in Seq(DiskNames)
        /\ Len(d) \in Nat \ {0} /\ Len(p) = Len(b) + Len(d)
    BY <2>1, PathProperties
  <2>3. PICK n : n = Len(b) /\ n \in Nat
    BY <2>2
  <2>4. PICK m : m = Len(d) /\ m \in Nat /\ m # 0
    BY <2>2
  <2>5. Len(p) = n + m
    BY <2>2, <2>3, <2>4
  <2> QED
    BY <2>1, <2>2, <2>3, <2>4, <2>5
<1>2. PICK f : /\ f = Front(d) /\ f \in Seq(DiskNames) /\ Len(f) = m - 1
               /\ \A i \in 1..m - 1 : f[i] = d[i]
  BY <1>1, FrontProperties
<1>3. ASSUME NEW k \in 1..(n + m) - 1
      PROVE  /\ SubSeq(p, 1, k) \in Seq(DiskNames) /\ Len(SubSeq(p, 1, k)) = k
             /\ \A i \in 1..k : SubSeq(p, 1, k)[i] = p[i]
  <2>1. \A i \in 1..k : p[i] \in DiskNames
    BY <1>1, ElementOfSeq
  <2>2. /\ SubSeq(p, 1, k) \in Seq(DiskNames)
        /\ Len(SubSeq(p, 1, k)) = IF 1 <= k THEN k - 1 + 1 ELSE 0
        /\ \A i \in 1..k - 1 + 1 : SubSeq(p, 1, k)[i] = p[1 + i - 1]
    BY <2>1, SubSeqProperties
  <2> QED
    BY <2>2
<1>4. SubSeq(p, 1, (n + m) - 1) = b \o f
  <2>1. /\ b \o f \in Seq(DiskNames) /\ Len(b \o f) = n + (m - 1)
        /\ \A i \in 1..n + (m - 1) : (b \o f)[i] = IF i <= n THEN b[i] ELSE f[i - n]
    <3>1. /\ b \o f \in Seq(DiskNames) /\ Len(b \o f) = Len(b) + Len(f)
          /\ \A i \in 1..Len(b) + Len(f) :
               (b \o f)[i] = IF i <= Len(b) THEN b[i] ELSE f[i - Len(b)]
      <4>1. b \in Seq(DiskNames) /\ f \in Seq(DiskNames)
        BY <1>1, <1>2
      <4> QED
        BY <4>1, ConcatProperties, Zenon
    <3> QED
      BY <1>1, <1>2, <3>1, Zenon
  <2>2. \A i \in 1..n + m : p[i] = IF i <= n THEN b[i] ELSE d[i - n]
    BY <1>1, ConcatProperties
  <2>3. CASE (n + m) - 1 = 0
    <3>1. Len(b \o f) = 0 /\ SubSeq(p, 1, 0) = <<>>
      BY <1>1, <2>1, <2>3, SubSeqEmpty
    <3>2. b \o f = <<>>
      BY <2>1, <3>1, EmptySeq
    <3> QED
      BY <2>3, <3>1, <3>2
  <2>4. CASE (n + m) - 1 # 0
    <3>1. PICK l \in Nat : l = (n + m) - 1 /\ l = n + (m - 1) /\ l \in 1..(n + m) - 1
      <4>1. \A j, k \in Nat : k # 0 /\ (j + k) - 1 # 0 =>
              (j + k) - 1 \in Nat /\ (j + k) - 1 = j + (k - 1) /\ (j + k) - 1 \in 1..(j + k) - 1
        OBVIOUS
      <4> QED
        BY <1>1, <2>4, <4>1
    <3>2. /\ SubSeq(p, 1, l) \in Seq(DiskNames) /\ Len(SubSeq(p, 1, l)) = l
          /\ \A i \in 1..l : SubSeq(p, 1, l)[i] = p[i]
      BY <1>3, <3>1
    <3>3. ASSUME NEW i \in 1..l
          PROVE  p[i] = (b \o f)[i]
      <4>1. i \in Int /\ i \in 1..n + m /\ i \in 1..n + (m - 1)
        <5>1. \A j, k \in Nat : k # 0 => \A h \in 1..(j + k) - 1 : h \in 1..j + k /\ h \in 1..j + (k - 1)
          OBVIOUS
        <5> QED
          BY <1>1, <3>1, <5>1
      <4>2. CASE i <= n
        BY <2>1, <2>2, <4>1, <4>2
      <4>3. CASE ~(i <= n)
        <5>1. i - n \in 1..m - 1
          BY <1>1, <4>1, <4>3
        <5> QED
          BY <1>2, <2>1, <2>2, <4>1, <4>3, <5>1
      <4> QED
        BY <4>2, <4>3
    <3> QED
      BY <2>1, <3>1, <3>2, <3>3, SeqEqual
  <2> QED
    BY <2>3, <2>4
<1> QED
  BY <1>1, <1>2, <1>3, <1>4

\* A directory of the disk: its names, its path, and the path without its last name.
LEMMA OnDisk ==
  ASSUME NEW in, Listed(in), NEW d \in DOMAIN in.dirs
  PROVE  /\ in.root \in Seq(DiskNames) /\ in.root # <<>> /\ in.root # <<Nothing>>
         /\ d \in Seq(DiskNames \ {Nothing}) /\ d \in Seq(DiskNames)
         /\ d # <<>> => Front(d) \in DOMAIN in.dirs
         /\ Printed(in.root, d) # NoParent
<1>1. /\ in.root \in Seq(DiskNames) /\ in.root # <<>> /\ in.root # <<Nothing>>
      /\ d \in Seq(DiskNames \ {Nothing}) /\ (d # <<>> => Front(d) \in DOMAIN in.dirs)
      /\ Printed(in.root, d) # NoParent
  BY DEF Listed, DiskNames
<1>2. d \in Seq(DiskNames)
  BY <1>1, SeqMonotonic
<1> QED
  BY <1>1, <1>2

\* The paths of all directories.
Paths(in) == {Printed(in.root, d) : d \in DOMAIN in.dirs}

\* No path is the one that is no parent.
LEMMA PathsNotEmpty ==
  ASSUME NEW in, Listed(in), NEW d \in DOMAIN in.dirs
  PROVE  Printed(in.root, d) # <<Nothing>>
<1>1. CASE d = <<>>
  BY <1>1, OnDisk DEF Printed
<1>2. CASE d # <<>>
  <2>0. PICK root : root = in.root /\ root \in Seq(DiskNames) /\ root # <<>> /\ d \in Seq(DiskNames)
    BY OnDisk
  <2>1. PICK n, p :
          /\ p = Printed(root, d)
          /\ n \in Nat /\ Len(d) \in Nat \ {0} /\ Len(p) = n + Len(d)
          /\ \A i \in 1..Len(d) : p[n + i] = d[i]
    <3>1. PICK n : n = Len(Base(root))
      OBVIOUS
    <3>2. PICK p : p = Printed(root, d)
      OBVIOUS
    <3>3. /\ n \in Nat /\ Len(d) \in Nat \ {0} /\ Len(p) = n + Len(d)
          /\ \A i \in 1..Len(d) : p[n + i] = d[i]
      BY <1>2, <2>0, <3>1, <3>2, PathProperties, SMTT(30)
    <3> QED
      BY <3>2, <3>3
  <2>2. \A i \in 1..Len(d) : d[i] # Nothing
    <3>1. d \in Seq(DiskNames \ {Nothing})
      BY OnDisk
    <3>2. \A i \in 1..Len(d) : d[i] \in DiskNames \ {Nothing}
      BY <3>1, ElementOfSeq
    <3> QED
      BY <3>2
  <2> SUFFICES ASSUME p = <<Nothing>>
               PROVE  FALSE
    BY <2>0, <2>1
  <2>3. Len(p) = 1 /\ p[1] = Nothing
    OBVIOUS
  <2>4. n = 0 /\ Len(d) = 1
    <3>1. \A j, k \in Nat : k # 0 /\ 1 = j + k => j = 0 /\ k = 1
      OBVIOUS
    <3>2. Len(d) \in Nat /\ Len(d) # 0 /\ 1 = n + Len(d)
      BY <2>1, <2>3
    <3> QED
      BY <2>1, <3>1, <3>2
  <2>5. p[n + 1] = d[1] /\ n + 1 = 1 /\ d[1] # Nothing
    <3>1. 1 \in 1..Len(d)
      BY <2>4
    <3> QED
      BY <2>1, <2>2, <2>4, <3>1
  <2> QED
    BY <2>3, <2>5
<1> QED
  BY <1>1, <1>2

\* The nearest listed prefix of a directory's path is that of the directory it is in; those
\* below a root with a trailing slash have none.
LEMMA ParentFound ==
  ASSUME NEW in, Listed(in), NEW d \in DOMAIN in.dirs, d # <<>>
  PROVE  ParentPath(Printed(in.root, d), Paths(in)) =
           IF Last(in.root) = Nothing /\ Front(d) = <<>> THEN NoParent
           ELSE Printed(in.root, Front(d))
<1>1. PICK root, b, n, p :
        /\ root = in.root /\ b = Base(root) /\ n = Len(b) /\ p = Printed(root, d)
  OBVIOUS
<1>2. PICK m : m = Len(d)
  OBVIOUS
<1>3. /\ b \in Seq(DiskNames) /\ n \in Nat /\ m \in Nat \ {0} /\ Len(p) = n + m
      /\ Last(root) = Nothing => Len(root) = n + 1
      /\ Last(root) # Nothing => b = root
  BY <1>1, <1>2, OnDisk, PathProperties
<1>4. /\ SubSeq(p, 1, Len(p) - 1) = b \o Front(d)
      /\ \A k \in 1..Len(p) - 1 : Len(SubSeq(p, 1, k)) = k
  BY <1>1, OnDisk, PathPrefix
<1>5. PICK prefixes : prefixes = {k \in 1..Len(p) - 1 : /\ SubSeq(p, 1, k) \in Paths(in)
                                                        /\ SubSeq(p, 1, k) # <<Nothing>>}
  OBVIOUS
<1>6. ParentPath(p, Paths(in)) =
        IF prefixes = {} THEN NoParent ELSE SubSeq(p, 1, Max(prefixes))
  BY <1>5 DEF ParentPath
<1>7. CASE Last(root) = Nothing /\ Front(d) = <<>>
  <2>1. m = 1
    <3>1. Len(Front(d)) = m - 1
      BY <1>2, OnDisk, FrontProperties
    <3>2. \A k \in Nat : 0 = k - 1 => k = 1
      OBVIOUS
    <3> QED
      BY <1>3, <1>7, <3>1, <3>2
  <2>2. ASSUME NEW e \in DOMAIN in.dirs
        PROVE  Len(Printed(root, e)) \in Nat /\ Len(Printed(root, e)) > n
    <3>1. CASE e = <<>>
      BY <1>3, <1>7, <3>1 DEF Printed
    <3>2. CASE e # <<>>
      <4>1. Len(e) \in Nat \ {0} /\ Len(Printed(root, e)) = n + Len(e)
        BY <1>1, <3>2, OnDisk, PathProperties
      <4>2. \A j, k \in Nat : k # 0 => j + k \in Nat /\ j + k > j
        OBVIOUS
      <4>3. Len(e) \in Nat /\ Len(e) # 0
        BY <4>1
      <4> QED
        BY <1>3, <4>1, <4>2, <4>3
    <3> QED
      BY <3>1, <3>2
  <2>3. ASSUME NEW k \in 1..Len(p) - 1
        PROVE  SubSeq(p, 1, k) \notin Paths(in)
    <3>1. Len(SubSeq(p, 1, k)) = k
      BY <1>4
    <3>2. k \in Nat /\ ~(k > n)
      BY <1>3, <2>1
    <3> QED
      BY <1>1, <2>2, <3>1, <3>2 DEF Paths
  <2>4. prefixes = {}
    BY <1>5, <2>3
  <2> QED
    BY <1>1, <1>6, <1>7, <2>4
<1>8. CASE ~(Last(root) = Nothing /\ Front(d) = <<>>)
  <2>1. Front(d) \in DOMAIN in.dirs /\ Front(d) \in Seq(DiskNames)
    BY OnDisk
  <2>2. b \o Front(d) = Printed(root, Front(d))
    <3>1. CASE Front(d) = <<>>
      BY <1>3, <1>8, <3>1, ConcatEmptySeq DEF Printed
    <3>2. CASE Front(d) # <<>>
      BY <1>1, <2>1, <3>2, OnDisk, PathProperties
    <3> QED
      BY <3>1, <3>2
  <2>3. SubSeq(p, 1, Len(p) - 1) \in Paths(in) /\ SubSeq(p, 1, Len(p) - 1) # <<Nothing>>
    BY <1>1, <1>4, <2>1, <2>2, PathsNotEmpty DEF Paths
  <2>4. Len(p) - 1 \in 1..Len(p) - 1
    <3>1. CASE n = 0 /\ m = 1
      <4>1. Last(root) # Nothing => Len(root) # 0
        BY <1>1, OnDisk, EmptySeq
      <4>2. Len(Front(d)) = 0 /\ Front(d) \in Seq(DiskNames)
        <5>1. d \in Seq(DiskNames) /\ Len(Front(d)) = Len(d) - 1
          BY OnDisk, FrontProperties
        <5>2. Len(d) = 1 /\ 1 - 1 = 0
          BY <1>2, <3>1
        <5> QED
          BY <2>1, <5>1, <5>2
      <4>3. Front(d) = <<>>
        BY <4>2, EmptySeq
      <4> QED
        BY <1>1, <1>3, <1>8, <3>1, <4>1, <4>3
    <3>2. CASE ~(n = 0 /\ m = 1)
      <4>1. \A j, k \in Nat : k # 0 /\ ~(j = 0 /\ k = 1) => (j + k) - 1 \in 1..(j + k) - 1
        OBVIOUS
      <4> QED
        BY <1>3, <3>2, <4>1
    <3> QED
      BY <3>1, <3>2
  <2>5. Len(p) - 1 \in prefixes /\ Len(p) - 1 \in Nat /\ prefixes \in SUBSET (1..Len(p) - 1)
    BY <1>5, <2>3, <2>4
  <2>6. Max(prefixes) \in prefixes /\ \A i \in prefixes : i <= Max(prefixes)
    <3>1. PICK l \in Nat : l = Len(p) - 1
      BY <2>5
    <3> QED
      BY <2>5, <3>1, MaxOf
  <2>7. Max(prefixes) = Len(p) - 1
    <3>1. PICK l \in Nat : l = Len(p) - 1
      BY <2>5
    <3>2. Max(prefixes) \in 1..l /\ l <= Max(prefixes)
      BY <2>5, <2>6, <3>1
    <3> QED
      BY <3>1, <3>2
  <2> QED
    BY <1>1, <1>4, <1>6, <1>8, <2>2, <2>5, <2>7
<1> QED
  BY <1>7, <1>8

\* Names that strings.Fields leaves alone.
Plain(in) == \A d \in DOMAIN in.dirs : \A k \in DOMAIN d : Shown[d[k]] = d[k]

\* Fields and Join leave such a path as it is.
LEMMA PathShown ==
  ASSUME NEW in, Listed(in), Plain(in), NEW d \in DOMAIN in.dirs
  PROVE  [k \in DOMAIN Printed(in.root, d) |-> Shown[Printed(in.root, d)[k]]]
           = Printed(in.root, d)
<1>1. PICK root : root = in.root /\ root \in Seq(DiskNames) /\ root # <<>> /\ d \in Seq(DiskNames)
  BY OnDisk
<1>2. PICK p : p = Printed(root, d)
  OBVIOUS
<1>3. \A k \in DOMAIN root : Shown[root[k]] = root[k]
  BY <1>1 DEF Listed
<1>4. \A k \in 1..Len(d) : Shown[d[k]] = d[k]
  BY <1>1 DEF Plain
<1>5. CASE d = <<>>
  <2>1. p = root /\ root = [k \in DOMAIN root |-> root[k]]
    BY <1>1, <1>2, <1>5 DEF Printed
  <2> QED
    BY <1>1, <1>2, <1>3, <2>1
<1>6. CASE d # <<>>
  <2>1. PICK b : b = Base(root)
    OBVIOUS
  <2>2. /\ b \in Seq(DiskNames) /\ p = b \o d /\ p \in Seq(DiskNames)
        /\ Last(root) # Nothing => b = root
    BY <1>1, <1>2, <1>6, <2>1, PathProperties
  <2>3. \A k \in 1..Len(b) : Shown[b[k]] = b[k]
    <3>1. CASE Last(root) # Nothing
      BY <1>1, <1>3, <2>2, <3>1
    <3>2. CASE Last(root) = Nothing
      <4>1. b = Front(root) /\ Len(root) \in Nat \ {0} /\ Len(Front(root)) = Len(root) - 1
            /\ \A i \in 1..Len(root) - 1 : Front(root)[i] = root[i]
        BY <1>1, <2>1, <3>2, FrontProperties DEF Base
      <4>2. \A i \in 1..Len(root) - 1 : i \in DOMAIN root
        <5>1. DOMAIN root = 1..Len(root)
          BY <1>1
        <5>2. \A n \in Nat : \A i \in 1..n - 1 : i \in 1..n
          OBVIOUS
        <5> QED
          BY <4>1, <5>1, <5>2
      <4> QED
        BY <1>3, <4>1, <4>2
    <3> QED
      BY <3>1, <3>2
  <2>4. /\ Len(b \o d) = Len(b) + Len(d)
        /\ \A i \in 1..Len(b) + Len(d) : (b \o d)[i] = IF i <= Len(b) THEN b[i] ELSE d[i - Len(b)]
    BY <1>1, <2>2, ConcatProperties
  <2>5. ASSUME NEW k \in DOMAIN p
        PROVE  Shown[p[k]] = p[k]
    <3>1. PICK n : n = Len(b) /\ n \in Nat
      BY <2>2, LenProperties
    <3>2. PICK m : m = Len(d) /\ m \in Nat
      BY <1>1, LenProperties
    <3>3. k \in 1..n + m
      BY <2>2, <2>4, <3>1, <3>2
    <3>4. p[k] = IF k <= n THEN b[k] ELSE d[k - n]
      BY <2>2, <2>4, <3>1, <3>2, <3>3
    <3>5. CASE k <= n
      <4>1. k \in 1..n
        BY <3>1, <3>3, <3>5
      <4> QED
        BY <2>3, <3>1, <3>4, <3>5, <4>1
    <3>6. CASE ~(k <= n)
      <4>1. k - n \in 1..m
        BY <3>1, <3>2, <3>3, <3>6
      <4> QED
        BY <1>4, <3>2, <3>4, <3>6, <4>1
    <3> QED
      BY <3>5, <3>6
  <2>6. p = [k \in DOMAIN p |-> p[k]]
    <3>1. p \in Seq(DiskNames)
      BY <2>2
    <3> QED
      BY ONLY <3>1
  <2> QED
    BY <1>1, <1>2, <2>5, <2>6
<1> QED
  BY <1>5, <1>6

\* The entries name each directory once, with its size.
OnePerDirectory(in, entries) ==
  /\ Len(entries) \in Nat /\ DOMAIN entries = 1..Len(entries)
  /\ \A i \in DOMAIN entries :
       \E d \in DOMAIN in.dirs : /\ entries[i].path = Printed(in.root, d)
                                 /\ entries[i].size = in.dirs[d]
  /\ \A d \in DOMAIN in.dirs : \E i \in DOMAIN entries : entries[i].path = Printed(in.root, d)
  /\ \A i, j \in DOMAIN entries : entries[i].path = entries[j].path => i = j

\* What du prints becomes an entry for each directory.
LEMMA EntriesFound ==
  ASSUME NEW in, Listed(in), Plain(in)
  PROVE  OnePerDirectory(in, Entries(in.out.du))
<1>1. PICK du : du = in.out.du
  OBVIOUS
<1>2. /\ du \in Seq(ToSet(du))
      /\ \A i \in DOMAIN du :
           \E d \in DOMAIN in.dirs : du[i].path = Printed(in.root, d) /\ du[i].size = in.dirs[d]
      /\ \A d \in DOMAIN in.dirs : in.dirs[d] # Bad
      /\ \A d \in DOMAIN in.dirs : \E i \in DOMAIN du : du[i].path = Printed(in.root, d)
      /\ \A i, j \in DOMAIN du : du[i].path = du[j].path => i = j
  BY <1>1 DEF Listed, IsLines
<1>3. PICK at : at = {i \in DOMAIN du : du[i].size # Bad}
  OBVIOUS
<1>4. at = DOMAIN du /\ at \in SUBSET DOMAIN du
  <2>1. \A i \in DOMAIN du : du[i].size # Bad
    BY <1>2
  <2> QED
    BY <1>3, <2>1
<1>5. PICK n, a, sized : n = Cardinality(at) /\ a = Ascending(at) /\ sized = Kept(du, at)
  OBVIOUS
<1>6. /\ n \in Nat /\ DOMAIN sized = 1..n /\ a \in [1..n -> at]
      /\ \A k \in 1..n : sized[k] = du[a[k]]
      /\ \A k, l \in 1..n : k < l => a[k] < a[l]
      /\ \A i \in at : \E k \in 1..n : a[k] = i
  <2>1. du \in Seq(ToSet(du)) /\ at \in SUBSET DOMAIN du
    BY <1>2, <1>4
  <2> QED
    BY <1>5, <2>1, KeptProperties
<1>7. PICK entries : entries = Entries(du)
  OBVIOUS
<1>8. entries = [k \in 1..n |->
                  [size |-> sized[k].size,
                   path |-> [j \in DOMAIN sized[k].path |-> Shown[sized[k].path[j]]]]]
  BY <1>3, <1>5, <1>6, <1>7 DEF Entries
<1>9. ASSUME NEW k \in 1..n
      PROVE  entries[k].size = du[a[k]].size /\ entries[k].path = du[a[k]].path
  <2>1. a[k] \in DOMAIN du /\ sized[k] = du[a[k]]
    BY <1>4, <1>6
  <2>2. PICK d \in DOMAIN in.dirs : du[a[k]].path = Printed(in.root, d)
    BY <1>2, <2>1
  <2>3. [j \in DOMAIN sized[k].path |-> Shown[sized[k].path[j]]] = sized[k].path
    BY <2>1, <2>2, PathShown
  <2> QED
    BY <1>8, <2>1, <2>3
<1>10. DOMAIN entries = 1..n /\ Len(entries) = n
  BY <1>6, <1>8
<1>11. \A k \in 1..n : a[k] \in DOMAIN du
  BY <1>4, <1>6
<1>12. ASSUME NEW k \in 1..n
       PROVE  \E d \in DOMAIN in.dirs : /\ entries[k].path = Printed(in.root, d)
                                        /\ entries[k].size = in.dirs[d]
  BY <1>2, <1>9, <1>11
<1>13. ASSUME NEW d \in DOMAIN in.dirs
       PROVE  \E k \in 1..n : entries[k].path = Printed(in.root, d)
  <2>1. PICK i \in at : du[i].path = Printed(in.root, d)
    BY <1>2, <1>4
  <2>2. PICK k \in 1..n : a[k] = i
    BY <1>6
  <2> QED
    BY <1>9, <2>1, <2>2
<1>14. ASSUME NEW k \in 1..n, NEW l \in 1..n, entries[k].path = entries[l].path
       PROVE  k = l
  <2>1. a[k] = a[l]
    BY <1>2, <1>9, <1>11, <1>14
  <2>2. ~(k < l) /\ ~(l < k)
    <3>1. a[k] \in Int /\ a[l] \in Int
      <4>1. DOMAIN du \subseteq Int
        BY <1>2
      <4> QED
        BY <1>11, <4>1
    <3> QED
      BY <1>6, <2>1, <3>1
  <2> QED
    BY <1>6, <2>2
<1> QED
  BY <1>1, <1>6, <1>7, <1>10, <1>12, <1>13, <1>14, SMTT(30) DEF OnePerDirectory

\* The entries' paths are those of the directories.
LEMMA EntryPaths ==
  ASSUME NEW in, Listed(in), NEW entries, OnePerDirectory(in, entries)
  PROVE  {entries[i].path : i \in DOMAIN entries} = Paths(in)
<1>1. \A i \in DOMAIN entries : entries[i].path \in Paths(in)
  BY DEF OnePerDirectory, Paths
<1>2. \A p \in Paths(in) : \E i \in DOMAIN entries : entries[i].path = p
  BY DEF OnePerDirectory, Paths
<1> QED
  BY <1>1, <1>2

\* Different directories have different paths.
LEMMA SamePath ==
  ASSUME NEW in, Listed(in), NEW d \in DOMAIN in.dirs, NEW e \in DOMAIN in.dirs,
         Printed(in.root, d) = Printed(in.root, e)
  PROVE  d = e
<1>1. /\ in.root \in Seq(DiskNames) /\ in.root # <<>>
      /\ d \in Seq(DiskNames \ {Nothing}) /\ e \in Seq(DiskNames \ {Nothing})
  BY OnDisk
<1> QED
  BY <1>1, PathsDiffer

\* The map of sizes has each directory's.
LEMMA SizesFound ==
  ASSUME NEW in, Listed(in), NEW entries, OnePerDirectory(in, entries)
  PROVE  /\ DOMAIN NodeSizes(entries) = Paths(in)
         /\ \A d \in DOMAIN in.dirs : NodeSizes(entries)[Printed(in.root, d)] = in.dirs[d]
<1>1. PICK sizes : sizes = NodeSizes(entries)
  OBVIOUS
<1>2. DOMAIN sizes = Paths(in)
  BY <1>1, EntryPaths DEF NodeSizes
<1>3. ASSUME NEW d \in DOMAIN in.dirs
      PROVE  sizes[Printed(in.root, d)] = in.dirs[d]
  <2>1. PICK p : p = Printed(in.root, d)
    OBVIOUS
  <2>2. PICK at : at = {i \in DOMAIN entries : entries[i].path = p}
    OBVIOUS
  <2>3. sizes[p] = entries[Max(at)].size
    <3>1. p \in {entries[i].path : i \in DOMAIN entries}
      BY <2>1, EntryPaths DEF Paths
    <3> QED
      BY <1>1, <2>2, <3>1 DEF NodeSizes
  <2>4. PICK n : n \in Nat /\ DOMAIN entries = 1..n
    BY DEF OnePerDirectory
  <2>5. at \in SUBSET (1..n) /\ at # {}
    BY <2>1, <2>2, <2>4 DEF OnePerDirectory
  <2>6. Max(at) \in at
    BY <2>4, <2>5, MaxOf
  <2>7. Max(at) \in DOMAIN entries /\ entries[Max(at)].path = p
    BY <2>2, <2>6
  <2>8. PICK e \in DOMAIN in.dirs : /\ entries[Max(at)].path = Printed(in.root, e)
                                    /\ entries[Max(at)].size = in.dirs[e]
    BY <2>7 DEF OnePerDirectory
  <2>9. e = d
    BY <2>1, <2>7, <2>8, SamePath
  <2> QED
    BY <2>1, <2>3, <2>8, <2>9
<1> QED
  BY <1>1, <1>2, <1>3

\* The directories that the tree shows.
Visible(in) ==
  {d \in DOMAIN in.dirs :
     /\ \A k \in 0..Len(d) : Printed(in.root, SubSeq(d, 1, k)) \in in.readable
     /\ Last(in.root) = Nothing => d = <<>>}

\* A directory is shown if it is readable and the one it is in is shown.
LEMMA VisibleStep ==
  ASSUME NEW in, Listed(in), NEW d \in DOMAIN in.dirs
  PROVE  d \in Visible(in) <=>
           /\ Printed(in.root, d) \in in.readable
           /\ d # <<>> => Last(in.root) # Nothing /\ Front(d) \in Visible(in)
<1>1. d \in Seq(DiskNames)
  BY OnDisk
<1>2. CASE d = <<>>
  <2>1. Len(d) = 0 /\ SubSeq(d, 1, 0) = d
    BY <1>2, SubSeqEmpty
  <2>2. \A k : k \in 0..0 <=> k = 0
    OBVIOUS
  <2> QED
    BY <1>2, <2>1, <2>2 DEF Visible
<1>3. CASE d # <<>>
  <2>1. PICK n : n = Len(d) - 1 /\ n \in Nat /\ Len(d) = n + 1
    <3>1. Len(d) \in Nat \ {0}
      BY <1>1, <1>3, EmptySeq
    <3>2. \A m \in Nat \ {0} : m - 1 \in Nat /\ m = (m - 1) + 1
      OBVIOUS
    <3> QED
      BY <3>1, <3>2
  <2>2. PICK f : f = Front(d) /\ f \in DOMAIN in.dirs /\ f \in Seq(DiskNames)
    BY <1>3, OnDisk
  <2>3. Len(f) = n /\ \A i \in 1..n : f[i] = d[i]
    BY <1>1, <1>3, <2>1, <2>2, FrontProperties
  <2>4. SubSeq(d, 1, Len(d)) = d
    BY <1>1, SubSeqFull
  <2>5. ASSUME NEW k \in 0..n
        PROVE  SubSeq(d, 1, k) = SubSeq(f, 1, k)
    <3>1. \A i \in 1..k : i \in 1..n /\ i \in 1..n + 1
      BY <2>1
    <3>2. \A i \in 1..k : d[i] \in DiskNames
      BY <1>1, <2>1, <3>1, ElementOfSeq
    <3>3. \A i \in 1..k : f[i] \in DiskNames
      BY <2>2, <2>3, <3>1, ElementOfSeq
    <3>4. /\ SubSeq(d, 1, k) \in Seq(DiskNames)
          /\ Len(SubSeq(d, 1, k)) = IF 1 <= k THEN k - 1 + 1 ELSE 0
          /\ \A i \in 1..k - 1 + 1 : SubSeq(d, 1, k)[i] = d[1 + i - 1]
      BY <3>2, SubSeqProperties
    <3>5. /\ SubSeq(f, 1, k) \in Seq(DiskNames)
          /\ Len(SubSeq(f, 1, k)) = IF 1 <= k THEN k - 1 + 1 ELSE 0
          /\ \A i \in 1..k - 1 + 1 : SubSeq(f, 1, k)[i] = f[1 + i - 1]
      BY <3>3, SubSeqProperties
    <3>6. Len(SubSeq(d, 1, k)) = k /\ \A i \in 1..k : SubSeq(d, 1, k)[i] = d[i]
      BY <3>4
    <3>7. Len(SubSeq(f, 1, k)) = k /\ \A i \in 1..k : SubSeq(f, 1, k)[i] = f[i]
      BY <3>5
    <3>8. \A i \in 1..k : SubSeq(d, 1, k)[i] = SubSeq(f, 1, k)[i]
      BY <2>3, <3>1, <3>6, <3>7
    <3> QED
      BY <3>4, <3>5, <3>6, <3>7, <3>8, SeqEqual
  <2>6. \A k : k \in 0..n + 1 <=> k = n + 1 \/ k \in 0..n
    BY <2>1
  <2>7. /\ \A k \in 0..Len(d) : Printed(in.root, SubSeq(d, 1, k)) \in in.readable
        <=> /\ Printed(in.root, d) \in in.readable
            /\ \A k \in 0..n : Printed(in.root, SubSeq(f, 1, k)) \in in.readable
    BY <2>1, <2>4, <2>5, <2>6
  <2>8. f \in Visible(in) <=>
          /\ \A k \in 0..n : Printed(in.root, SubSeq(f, 1, k)) \in in.readable
          /\ Last(in.root) = Nothing => f = <<>>
    BY <2>2, <2>3 DEF Visible
  <2>9. d \in Visible(in) <=>
          /\ \A k \in 0..Len(d) : Printed(in.root, SubSeq(d, 1, k)) \in in.readable
          /\ Last(in.root) # Nothing
    BY <1>3 DEF Visible
  <2> QED
    BY <1>3, <2>2, <2>7, <2>8, <2>9
<1> QED
  BY <1>2, <1>3

\* Filtering keeps the members apart.
LEMMA KeptApart ==
  ASSUME NEW T, NEW q \in Seq(T), NEW at \in SUBSET DOMAIN q,
         \A i, j \in at : q[i] = q[j] => i = j
  PROVE  /\ Kept(q, at) \in Seq(T)
         /\ ToSet(Kept(q, at)) = {q[i] : i \in at}
         /\ \A k, l \in DOMAIN Kept(q, at) : Kept(q, at)[k] = Kept(q, at)[l] => k = l
<1>1. PICK s, n, a : s = Kept(q, at) /\ n = Cardinality(at) /\ a = Ascending(at)
  OBVIOUS
<1>2. /\ s \in Seq(T) /\ DOMAIN s = 1..n /\ n \in Nat /\ a \in [1..n -> at]
      /\ \A k \in 1..n : s[k] = q[a[k]]
      /\ \A k, l \in 1..n : k < l => a[k] < a[l]
      /\ \A i \in at : \E k \in 1..n : a[k] = i
  BY <1>1, KeptProperties
<1>3. ToSet(s) = {q[i] : i \in at}
  <2>1. ToSet(s) = {s[k] : k \in 1..n}
    BY <1>2 DEF ToSet
  <2>2. \A k \in 1..n : \E i \in at : s[k] = q[i]
    BY <1>2
  <2>3. \A i \in at : \E k \in 1..n : s[k] = q[i]
    BY <1>2
  <2> QED
    BY <2>1, <2>2, <2>3
<1>4. ASSUME NEW k \in 1..n, NEW l \in 1..n, s[k] = s[l]
      PROVE  k = l
  <2>1. a[k] = a[l] /\ a[k] \in at /\ a[l] \in at
    BY <1>2, <1>4
  <2>2. a[k] \in Int
    BY <2>1
  <2> QED
    BY <1>2, <2>1, <2>2
<1> QED
  BY <1>1, <1>2, <1>3, <1>4

\* The equation of the filter, whose solution FilterWorldReadable takes.
Filters(f, nodes, root, readable) ==
  f = [p \in nodes |->
         /\ p \in readable
         /\ p = root \/ (ParentPath(p, nodes) # NoParent /\ f[ParentPath(p, nodes)])]

\* The paths that are shown.
Shows(in) == {Printed(in.root, d) : d \in Visible(in)}

\* A path is shown with its directory only.
LEMMA ShownPath ==
  ASSUME NEW in, Listed(in), NEW d \in DOMAIN in.dirs
  PROVE  Printed(in.root, d) \in Shows(in) <=> d \in Visible(in)
<1>1. ASSUME Printed(in.root, d) \in Shows(in)
      PROVE  d \in Visible(in)
  <2>1. PICK e \in Visible(in) : Printed(in.root, d) = Printed(in.root, e)
    BY <1>1 DEF Shows
  <2>2. e \in DOMAIN in.dirs
    BY DEF Visible
  <2> QED
    BY <2>1, <2>2, SamePath
<1> QED
  BY <1>1 DEF Shows

\* Only the root has the root's path, and what a directory below it depends on.
LEMMA FilterStep ==
  ASSUME NEW in, Listed(in), NEW d \in DOMAIN in.dirs, NEW p, p = Printed(in.root, d)
  PROVE  /\ p = in.root <=> d = <<>>
         /\ d # <<>> /\ ParentPath(p, Paths(in)) # NoParent =>
              ParentPath(p, Paths(in)) = Printed(in.root, Front(d))
         /\ d # <<>> /\ ParentPath(p, Paths(in)) = NoParent =>
              Last(in.root) = Nothing /\ Front(d) = <<>>
<1>1. <<>> \in DOMAIN in.dirs /\ Printed(in.root, <<>>) = in.root
  BY DEF Listed, Printed
<1>2. p = in.root <=> d = <<>>
  BY <1>1, SamePath
<1>3. CASE d # <<>>
  <2>1. Front(d) \in DOMAIN in.dirs /\ Printed(in.root, Front(d)) # NoParent
    BY <1>3, OnDisk
  <2> QED
    BY <1>2, <1>3, <2>1, ParentFound
<1> QED
  BY <1>2, <1>3

\* Any solution of the equation is true of what is shown.
LEMMA FilterUnique ==
  ASSUME NEW in, Listed(in), NEW f, Filters(f, Paths(in), in.root, in.readable)
  PROVE  \A d \in DOMAIN in.dirs : f[Printed(in.root, d)] <=> d \in Visible(in)
<1>1. PICK N : N = {n \in Nat : \A d \in DOMAIN in.dirs :
                      Len(d) = n => (f[Printed(in.root, d)] <=> d \in Visible(in))}
  OBVIOUS
<1>2. ASSUME NEW d \in DOMAIN in.dirs
      PROVE  f[Printed(in.root, d)] <=>
               /\ Printed(in.root, d) \in in.readable
               /\ \/ Printed(in.root, d) = in.root
                  \/ /\ ParentPath(Printed(in.root, d), Paths(in)) # NoParent
                     /\ f[ParentPath(Printed(in.root, d), Paths(in))]
  <2>1. Printed(in.root, d) \in Paths(in)
    BY DEF Paths
  <2> QED
    BY <2>1, Zenon DEF Filters
<1>3. ASSUME NEW d \in DOMAIN in.dirs, d = <<>>
      PROVE  f[Printed(in.root, d)] <=> d \in Visible(in)
  BY <1>2, <1>3, FilterStep, VisibleStep
<1>4. ASSUME NEW d \in DOMAIN in.dirs, d # <<>>,
             f[Printed(in.root, Front(d))] <=> Front(d) \in Visible(in)
      PROVE  f[Printed(in.root, d)] <=> d \in Visible(in)
  <2>1. Printed(in.root, d) # in.root
    BY <1>4, FilterStep
  <2>2. CASE ParentPath(Printed(in.root, d), Paths(in)) = NoParent
    <3>1. Last(in.root) = Nothing
      BY <1>4, <2>2, FilterStep
    <3> QED
      BY <1>2, <1>4, <2>1, <2>2, <3>1, VisibleStep
  <2>3. CASE ParentPath(Printed(in.root, d), Paths(in)) # NoParent
    <3>1. ParentPath(Printed(in.root, d), Paths(in)) = Printed(in.root, Front(d))
      BY <1>4, <2>3, FilterStep
    <3>2. CASE Last(in.root) = Nothing
      <4>1. Front(d) # <<>>
        <5>1. Printed(in.root, Front(d)) # NoParent
          BY <1>4, OnDisk
        <5> QED
          BY <1>4, <2>3, <3>2, ParentFound
      <4>2. Front(d) \notin Visible(in)
        BY <3>2, <4>1 DEF Visible
      <4> QED
        BY <1>2, <1>4, <2>1, <2>3, <3>1, <3>2, <4>2, VisibleStep
    <3>3. CASE Last(in.root) # Nothing
      BY <1>2, <1>4, <2>1, <2>3, <3>1, <3>3, VisibleStep
    <3> QED
      BY <3>2, <3>3
  <2> QED
    BY <2>2, <2>3
<1>5. 0 \in N
  <2>1. \A d \in DOMAIN in.dirs : Len(d) = 0 => d = <<>>
    BY OnDisk, EmptySeq
  <2> QED
    BY <1>1, <1>3, <2>1
<1>6. ASSUME NEW n \in Nat, n \in N
      PROVE  n + 1 \in N
  <2> SUFFICES ASSUME NEW d \in DOMAIN in.dirs, Len(d) = n + 1
               PROVE  f[Printed(in.root, d)] <=> d \in Visible(in)
    BY <1>1
  <2>1. d # <<>> /\ d \in Seq(DiskNames)
    BY OnDisk
  <2>2. Len(Front(d)) = n /\ Front(d) \in DOMAIN in.dirs
    <3>1. Len(Front(d)) = Len(d) - 1
      BY <2>1, FrontProperties
    <3> QED
      BY <2>1, <3>1, OnDisk
  <2>3. f[Printed(in.root, Front(d))] <=> Front(d) \in Visible(in)
    BY <1>1, <1>6, <2>2
  <2> QED
    BY <1>4, <2>1, <2>3
<1>7. Nat \subseteq N
  BY <1>5, <1>6, NatSetInduction
<1>8. \A d \in DOMAIN in.dirs : Len(d) \in Nat
  BY OnDisk, LenProperties
<1> QED
  BY <1>1, <1>7, <1>8

\* The filter leaves the directories that are shown.
LEMMA FilterFound ==
  ASSUME NEW in, Listed(in), NEW entries, OnePerDirectory(in, entries)
  PROVE  FilterWorldReadable(entries, in.root, in.readable) = Shows(in)
<1>1. PICK g : g = [p \in Paths(in) |-> p \in Shows(in)]
  OBVIOUS
<1>2. ASSUME NEW p \in Paths(in)
      PROVE  p \in Shows(in) <=>
               /\ p \in in.readable
               /\ p = in.root \/ (ParentPath(p, Paths(in)) # NoParent /\ g[ParentPath(p, Paths(in))])
  <2>1. PICK d \in DOMAIN in.dirs : p = Printed(in.root, d)
    BY DEF Paths
  <2>2. p \in Shows(in) <=> d \in Visible(in)
    BY <2>1, ShownPath
  <2>3. CASE d = <<>>
    BY <2>1, <2>2, <2>3, FilterStep, VisibleStep
  <2>4. CASE d # <<>>
    <3>1. p # in.root
      BY <2>1, <2>4, FilterStep
    <3>2. Front(d) \in DOMAIN in.dirs
      BY <2>4, OnDisk
    <3>3. g[Printed(in.root, Front(d))] <=> Front(d) \in Visible(in)
      <4>1. Printed(in.root, Front(d)) \in Paths(in)
        BY <3>2 DEF Paths
      <4>2. g[Printed(in.root, Front(d))] <=> Printed(in.root, Front(d)) \in Shows(in)
        BY <1>1, <4>1, Zenon
      <4> QED
        BY <3>2, <4>2, ShownPath
    <3>4. CASE Last(in.root) = Nothing /\ Front(d) = <<>>
      <4>1. ParentPath(p, Paths(in)) = NoParent
        BY <2>1, <2>4, <3>4, ParentFound
      <4> QED
        BY <2>1, <2>2, <2>4, <3>1, <3>4, <4>1, VisibleStep
    <3>5. CASE ~(Last(in.root) = Nothing /\ Front(d) = <<>>)
      <4>1. ParentPath(p, Paths(in)) = Printed(in.root, Front(d))
        BY <2>1, <2>4, <3>5, ParentFound
      <4>2. ParentPath(p, Paths(in)) # NoParent
        BY <3>2, <4>1, OnDisk
      <4>3. Last(in.root) = Nothing => Front(d) \notin Visible(in)
        BY <3>5 DEF Visible
      <4> QED
        BY <2>1, <2>2, <2>4, <3>1, <3>3, <4>1, <4>2, <4>3, VisibleStep
    <3> QED
      BY <3>4, <3>5
  <2> QED
    BY <2>3, <2>4
<1>3. Filters(g, Paths(in), in.root, in.readable)
  <2>1. ASSUME NEW p \in Paths(in)
        PROVE  (p \in Shows(in)) =
                 (/\ p \in in.readable
                  /\ p = in.root
                       \/ (ParentPath(p, Paths(in)) # NoParent /\ g[ParentPath(p, Paths(in))]))
    <3>1. PICK parent : parent = ParentPath(p, Paths(in))
      OBVIOUS
    <3>2. p \in Shows(in) <=>
            p \in in.readable /\ (p = in.root \/ (parent # NoParent /\ g[parent]))
      BY <1>2, <3>1, Zenon
    <3>3. (p \in Shows(in)) =
            (p \in in.readable /\ (p = in.root \/ (parent # NoParent /\ g[parent])))
      BY ONLY <3>2, SMT
    <3> QED
      BY <3>1, <3>3, Zenon
  <2>2. g = [p \in Paths(in) |->
               /\ p \in in.readable
               /\ p = in.root
                    \/ (ParentPath(p, Paths(in)) # NoParent /\ g[ParentPath(p, Paths(in))])]
    BY <1>1, <2>1, Zenon
  <2> QED
    BY <2>2 DEF Filters
<1>4. PICK f : /\ f = CHOOSE h : Filters(h, Paths(in), in.root, in.readable)
               /\ Filters(f, Paths(in), in.root, in.readable)
  BY <1>3
<1>5. FilterWorldReadable(entries, in.root, in.readable) = {p \in Paths(in) : f[p]}
  <2>1. FilterWorldReadable(entries, in.root, in.readable) =
          {p \in {entries[i].path : i \in DOMAIN entries} :
             (CHOOSE h : Filters(h, {entries[i].path : i \in DOMAIN entries},
                                 in.root, in.readable))[p]}
    BY DEF FilterWorldReadable, Filters
  <2>2. {entries[i].path : i \in DOMAIN entries} = Paths(in)
    BY EntryPaths
  <2> QED
    BY <1>4, <2>1, <2>2, ZenonT(30)
<1>6. \A p \in Paths(in) : f[p] <=> p \in Shows(in)
  BY <1>4, FilterUnique, ShownPath DEF Paths
<1>7. Shows(in) \subseteq Paths(in)
  BY DEF Shows, Paths, Visible
<1> QED
  BY <1>5, <1>6, <1>7, Zenon

\* Paths that are listed as children: each once, and those whose parent this is.
Wired(in, path, children) ==
  /\ children \in Seq(Paths(in))
  /\ \A k, l \in DOMAIN children : children[k] = children[l] => k = l
  /\ ToSet(children) = {p \in Paths(in) : p # in.root /\ ParentPath(p, Paths(in)) = path}

\* The children of a node, before the filter.
LEMMA ChildrenFound ==
  ASSUME NEW in, Listed(in), NEW entries, OnePerDirectory(in, entries), NEW path
  PROVE  Wired(in, path, Children(path, entries, in.root))
<1>1. PICK n : n \in Nat /\ DOMAIN entries = 1..n
  BY DEF OnePerDirectory
<1>2. PICK q : q = [i \in DOMAIN entries |-> entries[i].path]
  OBVIOUS
<1>3. PICK below : below = {i \in DOMAIN entries :
                              q[i] # in.root /\ ParentPath(q[i], Paths(in)) = path}
  OBVIOUS
<1>4. PICK children : children = Children(path, entries, in.root)
  OBVIOUS
<1>5. children = Kept(q, below)
  <2>1. {entries[i].path : i \in DOMAIN entries} = Paths(in)
    BY EntryPaths
  <2>2. below = {i \in DOMAIN entries : /\ entries[i].path # in.root
                                        /\ ParentPath(entries[i].path, Paths(in)) = path}
    BY <1>2, <1>3
  <2>3. children = Kept(q, {i \in DOMAIN entries :
                              /\ entries[i].path # in.root
                              /\ ParentPath(entries[i].path,
                                            {entries[j].path : j \in DOMAIN entries}) = path})
    BY <1>2, <1>4, Zenon DEF Children
  <2> QED
    BY <2>1, <2>2, <2>3, Zenon
<1>6. q \in Seq(Paths(in)) /\ DOMAIN q = DOMAIN entries
  <2>1. \A i \in 1..n : q[i] \in Paths(in)
    BY <1>1, <1>2, EntryPaths
  <2>2. q \in [1..n -> Paths(in)]
    BY <1>1, <1>2, <2>1
  <2> QED
    BY <1>1, <2>2
<1>7. \A i, j \in below : q[i] = q[j] => i = j
  <2>1. \A i, j \in DOMAIN entries : q[i] = q[j] => i = j
    BY <1>2 DEF OnePerDirectory
  <2> QED
    BY <1>3, <2>1
<1>8. /\ children \in Seq(Paths(in)) /\ ToSet(children) = {q[i] : i \in below}
      /\ \A k, l \in DOMAIN children : children[k] = children[l] => k = l
  <2>1. below \in SUBSET DOMAIN q
    BY <1>3, <1>6
  <2> QED
    BY <1>5, <1>6, <1>7, <2>1, KeptApart
<1>9. {q[i] : i \in below} = {p \in Paths(in) : p # in.root /\ ParentPath(p, Paths(in)) = path}
  <2>1. \A p \in Paths(in) : \E i \in DOMAIN entries : q[i] = p
    BY <1>2, EntryPaths
  <2>2. \A i \in DOMAIN entries : q[i] \in Paths(in)
    BY <1>2, EntryPaths
  <2> QED
    BY <1>3, <2>1, <2>2
<1> QED
  BY <1>4, <1>8, <1>9 DEF Wired

\* The children of a node that are shown.
ChildPaths(in, d) == {Printed(in.root, e) : e \in {f \in Visible(in) : f # <<>> /\ Front(f) = d}}

\* They are what the filter leaves of the node's children.
LEMMA InsideFound ==
  ASSUME NEW in, Listed(in), NEW d \in Visible(in)
  PROVE  {p \in Shows(in) : /\ p # in.root
                            /\ ParentPath(p, Paths(in)) = Printed(in.root, d)} = ChildPaths(in, d)
<1>1. d \in DOMAIN in.dirs
  BY DEF Visible
<1>2. ASSUME NEW p \in Shows(in), p # in.root, ParentPath(p, Paths(in)) = Printed(in.root, d)
      PROVE  p \in ChildPaths(in, d)
  <2>1. PICK f \in Visible(in) : p = Printed(in.root, f)
    BY DEF Shows
  <2>2. f \in DOMAIN in.dirs
    BY DEF Visible
  <2>3. f # <<>>
    BY <1>2, <2>1, <2>2, FilterStep
  <2>4. Front(f) \in DOMAIN in.dirs /\ Printed(in.root, d) # NoParent
    BY <1>1, <2>2, <2>3, OnDisk
  <2>5. Printed(in.root, Front(f)) = Printed(in.root, d)
    BY <1>2, <2>1, <2>2, <2>3, <2>4, ParentFound
  <2>6. Front(f) = d
    BY <1>1, <2>4, <2>5, SamePath
  <2> QED
    BY <2>1, <2>3, <2>6 DEF ChildPaths
<1>3. ASSUME NEW f \in Visible(in), f # <<>>, Front(f) = d
      PROVE  /\ Printed(in.root, f) # in.root
             /\ ParentPath(Printed(in.root, f), Paths(in)) = Printed(in.root, d)
  <2>1. f \in DOMAIN in.dirs
    BY DEF Visible
  <2>2. Last(in.root) # Nothing
    BY <1>3 DEF Visible
  <2>3. Printed(in.root, f) # in.root
    BY <1>3, <2>1, FilterStep
  <2> QED
    BY <1>3, <2>1, <2>2, <2>3, ParentFound
<1> QED
  BY <1>2, <1>3 DEF ChildPaths, Shows

\* The tree of a listing.
LEMMA TreeParsed ==
  ASSUME NEW in, Listed(in), Plain(in)
  PROVE  LET tree == CollectDirTree(in.out.du, in.root, in.readable)
         IN  /\ DOMAIN tree = Shows(in)
             /\ \A d \in Visible(in) :
                  /\ tree[Printed(in.root, d)].size = in.dirs[d]
                  /\ IsInjective(tree[Printed(in.root, d)].children)
                  /\ ToSet(tree[Printed(in.root, d)].children) = ChildPaths(in, d)
<1>1. PICK entries : entries = Entries(in.out.du) /\ OnePerDirectory(in, entries)
  BY EntriesFound
<1>2. PICK sizes : sizes = NodeSizes(entries)
  OBVIOUS
<1>3. /\ DOMAIN sizes = Paths(in)
      /\ \A d \in DOMAIN in.dirs : sizes[Printed(in.root, d)] = in.dirs[d]
  BY <1>1, <1>2, SizesFound
<1>4. in.root \in DOMAIN sizes
  <2>1. <<>> \in DOMAIN in.dirs /\ Printed(in.root, <<>>) = in.root
    BY DEF Listed, Printed
  <2> QED
    BY <1>3, <2>1 DEF Paths
<1>5. PICK kept : kept = FilterWorldReadable(entries, in.root, in.readable) /\ kept = Shows(in)
  BY <1>1, FilterFound
<1>6. PICK tree : tree = CollectDirTree(in.out.du, in.root, in.readable)
  OBVIOUS
<1> DEFINE children(p) == Children(p, entries, in.root)
           shown(p) == Kept(children(p), {i \in DOMAIN children(p) : children(p)[i] \in kept})
<1>7. tree = [p \in kept |-> [size |-> sizes[p], children |-> shown(p)]]
  BY <1>1, <1>2, <1>4, <1>5, <1>6, Zenon DEF CollectDirTree
<1>8. ASSUME NEW d \in Visible(in)
      PROVE  /\ tree[Printed(in.root, d)].size = in.dirs[d]
             /\ IsInjective(tree[Printed(in.root, d)].children)
             /\ ToSet(tree[Printed(in.root, d)].children) = ChildPaths(in, d)
  <2>1. d \in DOMAIN in.dirs
    BY DEF Visible
  <2>2. PICK p : p = Printed(in.root, d) /\ p \in kept
    BY <1>5 DEF Shows
  <2>3. PICK q : q = children(p)
    OBVIOUS
  <2>4. /\ q \in Seq(Paths(in)) /\ \A k, l \in DOMAIN q : q[k] = q[l] => k = l
        /\ ToSet(q) = {c \in Paths(in) : c # in.root /\ ParentPath(c, Paths(in)) = p}
    <3>1. q = Children(p, entries, in.root)
      BY <2>3
    <3> HIDE DEF children, shown
    <3>2. Wired(in, p, q)
      BY <1>1, <3>1, ChildrenFound
    <3> QED
      BY <3>2 DEF Wired
  <2>5. PICK at : at = {i \in DOMAIN q : q[i] \in kept}
    OBVIOUS
  <2>6. PICK s : s = shown(p) /\ s = Kept(q, at)
    BY <2>3, <2>5
  <2>7. tree[p].size = sizes[p] /\ tree[p].children = s
    BY <1>7, <2>2, <2>6
  <2> HIDE DEF children, shown
  <2>8. at \in SUBSET DOMAIN q /\ \A i, j \in at : q[i] = q[j] => i = j
    BY <2>4, <2>5
  <2>9. ToSet(s) = {q[i] : i \in at} /\ \A k, l \in DOMAIN s : s[k] = s[l] => k = l
    BY <2>4, <2>6, <2>8, KeptApart
  <2>10. {q[i] : i \in at} = {c \in ToSet(q) : c \in kept}
    BY <2>5 DEF ToSet
  <2>11. Shows(in) \subseteq Paths(in)
    BY DEF Shows, Paths, Visible
  <2>12. ToSet(s) = {c \in Shows(in) : c # in.root /\ ParentPath(c, Paths(in)) = p}
    BY <1>5, <2>4, <2>9, <2>10, <2>11
  <2>13. ToSet(s) = ChildPaths(in, d)
    BY <2>2, <2>12, InsideFound
  <2>14. IsInjective(s)
    BY <2>9 DEF IsInjective
  <2>15. sizes[p] = in.dirs[d]
    BY <1>3, <2>1, <2>2
  <2> QED
    BY <2>2, <2>7, <2>13, <2>14, <2>15
<1>9. DOMAIN tree = Shows(in)
  BY <1>5, <1>7
<1> HIDE DEF children, shown
<1> QED
  BY <1>6, <1>8, <1>9

=============================================================================
