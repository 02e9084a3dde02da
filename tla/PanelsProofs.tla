---------------------------- MODULE PanelsProofs ----------------------------
(* Proofs about Panels for every set of pages, cap and bound of scans,       *)
(* changes, notices, refreshes, faults and requests in flight.               *)
EXTENDS Panels, FiniteProofs, SequenceTheorems

Requests == [kind : Kinds, answer : {Waiting, Error} \cup Nat, passed : BOOLEAN]
Notices == [kind : Kinds, version : Nat]

\* What PanelsTypeOK says of the results and of the pages, but for the slots and bounds.
PagesTyped ==
  /\ files \in Nat /\ scans \in Nat /\ pool \in Nat \ {0} /\ files <= scans
  /\ es \in [Pages -> {"absent", "connecting", "open", "closed"}]
  /\ inbox \in [Pages -> Seq(Notices)]
  /\ requests \in [Pages -> Seq(Requests)]
  /\ shown \in [Pages -> [Kinds -> Nat]]
  /\ indicator \in [Pages -> [visible : BOOLEAN, error : BOOLEAN]]
  /\ stale \in [Pages -> SUBSET Kinds]

\* The result of a kind that the server gave last, if it has not been shown.
IsLast(r, k) == r.kind = k /\ HasResult(r) /\ ~r.passed

\* The results that the requests of a page wait to show: each is one, ...
Results(q) == \A i \in DOMAIN q : HasResult(q[i]) => q[i].answer > 0
\* ... none is newer than v, ...
UpTo(q, k, v) == \A i \in DOMAIN q : q[i].kind = k /\ HasResult(q[i]) => q[i].answer <= v
\* ... the last is not older than v, ...
From(q, k, v) == \A i \in DOMAIN q : IsLast(q[i], k) => v <= q[i].answer
\* ... and not older than another.
Rising(q, k) ==
  \A i, j \in DOMAIN q :
    IsLast(q[i], k) /\ q[j].kind = k /\ HasResult(q[j]) => q[j].answer <= q[i].answer

\* No result of a kind is newer than this: the cache, or what it held before a restart.
Newest(k) == IF k = "zfs" THEN pool ELSE IF files = 0 THEN scans ELSE files

\* BackOnlyIfOvertaken, for what a page shows and is going to show of a kind.
Ordered(p, k) ==
  /\ shown[p][k] <= Newest(k) /\ UpTo(requests[p], k, Newest(k))
  /\ From(requests[p], k, shown[p][k]) /\ Rising(requests[p], k)

\* IndicatorSettles of a page, whose requests have results to show.
Settles(p) ==
  /\ Results(requests[p])
  /\ es[p] # "absent" /\ ~InFlight(p, "files") =>
       IF indicator[p].visible THEN indicator[p].error ELSE shown[p]["files"] > 0

OrderInv == \A p \in Pages, k \in Kinds : Ordered(p, k)
SettlesInv == \A p \in Pages : Settles(p)

-----------------------------------------------------------------------------
(* Requests *)

\* RemoveAt closes the gap.
LEMMA Removed ==
  ASSUME NEW q \in Seq(Requests), NEW i \in DOMAIN q
  PROVE  /\ RemoveAt(q, i) \in Seq(Requests)
         /\ DOMAIN RemoveAt(q, i) = 1..Len(q) - 1
         /\ \A j \in 1..Len(q) - 1 : (j < i => RemoveAt(q, i)[j] = q[j])
                                    /\ (j >= i => RemoveAt(q, i)[j] = q[j + 1])
<1>1. Len(q) \in Nat /\ i \in 1..Len(q) /\ DOMAIN q = 1..Len(q)
  OBVIOUS
<1> DEFINE a == SubSeq(q, 1, i - 1)
           b == SubSeq(q, i + 1, Len(q))
<1>2. a \in Seq(Requests) /\ Len(a) = i - 1 /\ \A j \in 1..i - 1 : a[j] = q[j]
  BY <1>1
<1>3. b \in Seq(Requests) /\ Len(b) = Len(q) - i /\ \A j \in 1..Len(q) - i : b[j] = q[i + j]
  BY <1>1
<1> HIDE DEF a, b
<1>4. a \o b \in Seq(Requests) /\ DOMAIN (a \o b) = 1..Len(q) - 1
  <2>1. a \o b \in Seq(Requests) /\ Len(a \o b) = Len(a) + Len(b)
    BY <1>2, <1>3, ConcatProperties
  <2>2. Len(a) + Len(b) = Len(q) - 1
    BY <1>1, <1>2, <1>3
  <2> QED
    BY <2>1, <2>2
<1>5. ASSUME NEW j \in 1..Len(q) - 1
      PROVE  /\ j < i => (a \o b)[j] = q[j]
             /\ j >= i => (a \o b)[j] = q[j + 1]
  <2>1. CASE j < i
    BY <1>1, <1>2, <1>3, <2>1
  <2>2. CASE j >= i
    <3>1. j > Len(a) /\ j <= Len(a) + Len(b) /\ j - Len(a) \in 1..Len(q) - i
      BY <1>1, <1>2, <1>3, <2>2
    <3>2. (a \o b)[j] = b[j - Len(a)]
      BY <1>1, <1>2, <1>3, <3>1
    <3>3. i + (j - Len(a)) = j + 1
      BY <1>1, <1>2
    <3>4. (a \o b)[j] = q[i + (j - Len(a))]
      BY <1>3, <3>1, <3>2
    <3>5. (a \o b)[j] = q[j + 1]
      BY <3>3, <3>4
    <3>6. ~(j < i)
      BY <1>1, <2>2
    <3> QED
      BY <3>5, <3>6
  <2> QED
    BY <1>1, <2>1, <2>2
<1> QED
  <2>1. RemoveAt(q, i) = a \o b
    BY DEF RemoveAt, a, b
  <2> QED
    BY <1>4, <1>5, <2>1

\* What is left of the requests when one is removed: where each was, in the same order.
LEMMA Moved ==
  ASSUME NEW q \in Seq(Requests), NEW i \in DOMAIN q
  PROVE  /\ \A j \in DOMAIN RemoveAt(q, i) : \E l \in DOMAIN q \ {i} :
              /\ RemoveAt(q, i)[j] = q[l]
              /\ \A m \in DOMAIN RemoveAt(q, i) : j < m =>
                   \E n \in DOMAIN q \ {i} : l < n /\ RemoveAt(q, i)[m] = q[n]
         /\ \A l \in DOMAIN q \ {i} : \E j \in DOMAIN RemoveAt(q, i) : RemoveAt(q, i)[j] = q[l]
<1> DEFINE r == RemoveAt(q, i)
           At(j) == IF j < i THEN j ELSE j + 1
<1>1. Len(q) \in Nat /\ i \in 1..Len(q) /\ DOMAIN q = 1..Len(q)
  OBVIOUS
<1>2. DOMAIN r = 1..Len(q) - 1 /\ \A j \in 1..Len(q) - 1 : r[j] = q[At(j)]
  <2>1. DOMAIN r = 1..Len(q) - 1
    BY Removed
  <2>2. ASSUME NEW j \in 1..Len(q) - 1
        PROVE  r[j] = q[At(j)]
    <3>1. (j < i => r[j] = q[j]) /\ (j >= i => r[j] = q[j + 1])
      BY Removed
    <3>2. CASE j < i
      BY <3>1, <3>2
    <3>3. CASE ~(j < i)
      <4>1. j >= i
        BY <1>1, <3>3
      <4> QED
        BY <3>1, <3>3, <4>1
    <3> QED
      BY <3>2, <3>3
  <2> QED
    BY <2>1, <2>2
<1> HIDE DEF r
<1>3. \A j \in 1..Len(q) - 1 : At(j) \in (1..Len(q)) \ {i}
  BY <1>1
<1>4. \A j, m \in 1..Len(q) - 1 : j < m => At(j) < At(m)
  BY <1>1
<1>5. ASSUME NEW l \in (1..Len(q)) \ {i}
      PROVE  \E j \in 1..Len(q) - 1 : At(j) = l
  <2>1. CASE l < i
    BY <1>1, <2>1
  <2>2. CASE l > i
    <3>1. l - 1 \in 1..Len(q) - 1 /\ At(l - 1) = l
      BY <1>1, <2>2
    <3> QED
      BY <3>1
  <2> QED
    BY <1>1, <2>1, <2>2
<1> HIDE DEF At
<1>6. \A j \in DOMAIN r : \E l \in DOMAIN q \ {i} :
        r[j] = q[l] /\ \A m \in DOMAIN r : j < m => \E n \in DOMAIN q \ {i} : l < n /\ r[m] = q[n]
  <2> SUFFICES ASSUME NEW j \in DOMAIN r
               PROVE  /\ At(j) \in DOMAIN q \ {i} /\ r[j] = q[At(j)]
                      /\ \A m \in DOMAIN r : j < m =>
                           \E n \in DOMAIN q \ {i} : At(j) < n /\ r[m] = q[n]
    OBVIOUS
  <2> QED
    BY <1>1, <1>2, <1>3, <1>4
<1>7. \A l \in DOMAIN q \ {i} : \E j \in DOMAIN r : r[j] = q[l]
  BY <1>1, <1>2, <1>5
<1> QED
  BY <1>6, <1>7 DEF r

\* The results that requests r wait to show are those of requests q.
Quiet(q, r) == \A i \in DOMAIN r : HasResult(r[i]) => i \in DOMAIN q /\ r[i] = q[i]

\* Then nothing is out of order that was not before.
LEMMA QuietKeeps ==
  ASSUME NEW q, NEW r, Quiet(q, r), NEW k, NEW v
  PROVE  /\ Results(q) => Results(r)
         /\ UpTo(q, k, v) => UpTo(r, k, v)
         /\ From(q, k, v) => From(r, k, v)
         /\ Rising(q, k) => Rising(r, k)
BY DEF Quiet, Results, UpTo, From, Rising, IsLast

\* Request i of q is answered as x, which passes the results of its kind.
Replies(q, i, x, r) ==
  /\ DOMAIN r = DOMAIN q /\ r[i] = x /\ x.kind = q[i].kind /\ ~x.passed
  /\ \A j \in DOMAIN q \ {i} :
       /\ r[j].kind = q[j].kind /\ r[j].answer = q[j].answer
       /\ q[j].passed => r[j].passed
       /\ IF HasResult(x) /\ q[j].kind = x.kind /\ HasResult(q[j]) THEN r[j].passed
          ELSE r[j] = q[j]

\* A request that is answered with the newest result stays in order with the others.
LEMMA AnswerKeeps ==
  ASSUME NEW q, NEW i \in DOMAIN q, NEW x, NEW r, Replies(q, i, x, r),
         NEW k, NEW v, NEW w, UpTo(q, k, v), x.kind = k /\ HasResult(x) => x.answer = v, v <= v
  PROVE  /\ UpTo(r, k, v)
         /\ From(q, k, w) /\ w <= v => From(r, k, w)
         /\ Rising(q, k) => Rising(r, k)
<1>1. /\ DOMAIN r = DOMAIN q /\ r[i] = x
      /\ \A j \in DOMAIN q \ {i} : r[j].kind = q[j].kind /\ r[j].answer = q[j].answer
  BY DEF Replies
<1>2. \A j \in DOMAIN q \ {i} : HasResult(r[j]) => HasResult(q[j])
  BY <1>1 DEF HasResult
<1>3. \A j \in DOMAIN q \ {i} : IsLast(r[j], k) => IsLast(q[j], k) /\ ~(HasResult(x) /\ x.kind = k)
  BY <1>1, <1>2 DEF Replies, IsLast
<1>4. UpTo(r, k, v)
  BY <1>1, <1>2 DEF UpTo
<1>5. From(q, k, w) /\ w <= v => From(r, k, w)
  BY <1>1, <1>3 DEF From, IsLast
<1>6. ASSUME Rising(q, k)
      PROVE  Rising(r, k)
  <2> SUFFICES ASSUME NEW j \in DOMAIN r, NEW m \in DOMAIN r,
                      IsLast(r[j], k), r[m].kind = k, HasResult(r[m])
               PROVE  r[m].answer <= r[j].answer
    BY DEF Rising
  <2>1. CASE j = i
    BY <1>1, <1>4, <2>1 DEF UpTo, IsLast
  <2>2. CASE j # i /\ m = i
    BY <1>1, <1>3, <2>2
  <2>3. CASE j # i /\ m # i
    BY <1>1, <1>2, <1>3, <1>6, <2>3 DEF Rising
  <2> QED
    BY <2>1, <2>2, <2>3
<1> QED
  BY <1>4, <1>5, <1>6

\* Whatever request is removed, the others stay in order, and the last is not older.
LEMMA RemoveKeeps ==
  ASSUME NEW q \in Seq(Requests), NEW i \in DOMAIN q, NEW k, NEW v
  PROVE  LET r == RemoveAt(q, i)
         IN  /\ Results(q) => Results(r)
             /\ UpTo(q, k, v) => UpTo(r, k, v)
             /\ From(q, k, v) => From(r, k, v)
             /\ Rising(q, k) => Rising(r, k)
             /\ Rising(q, k) /\ q[i].kind = k /\ HasResult(q[i]) => From(r, k, q[i].answer)
<1> DEFINE r == RemoveAt(q, i)
<1>1. \A j \in DOMAIN r : \E l \in DOMAIN q : r[j] = q[l]
  BY Moved
<1> HIDE DEF r
<1>2. Results(q) => Results(r)
  BY <1>1 DEF Results
<1>3. (UpTo(q, k, v) => UpTo(r, k, v)) /\ (From(q, k, v) => From(r, k, v))
  BY <1>1 DEF UpTo, From
<1>4. Rising(q, k) => Rising(r, k)
  BY <1>1 DEF Rising
<1>5. Rising(q, k) /\ q[i].kind = k /\ HasResult(q[i]) => From(r, k, q[i].answer)
  BY <1>1 DEF Rising, From
<1> QED
  BY <1>2, <1>3, <1>4, <1>5 DEF r

-----------------------------------------------------------------------------
(* What the steps do *)

\* What loadFiles and loadZFS add are requests that wait.
LEMMA LoadEffect ==
  ASSUME PagesTyped, NEW p \in Pages, NEW kinds \in Seq(Kinds), Load(p, kinds)
  PROVE  /\ requests' \in [Pages -> Seq(Requests)]
         /\ indicator' \in [Pages -> [visible : BOOLEAN, error : BOOLEAN]]
         /\ Quiet(requests[p], requests'[p])
         /\ \A i \in DOMAIN requests[p] : i \in DOMAIN requests'[p] /\ requests'[p][i] = requests[p][i]
         /\ \A i \in DOMAIN kinds : \E j \in DOMAIN requests'[p] :
              requests'[p][j].kind = kinds[i] /\ requests'[p][j].answer = Waiting
         /\ "files" \notin ToSet(kinds) => indicator' = indicator
         /\ \A d \in Pages : d # p => requests'[d] = requests[d] /\ indicator'[d] = indicator[d]
<1> DEFINE q == requests[p]
           new == [i \in DOMAIN kinds |-> Request(kinds[i])]
<1>1. /\ DOMAIN kinds = 1..Len(kinds) /\ Len(kinds) \in Nat
      /\ \A i \in DOMAIN kinds : kinds[i] \in Kinds /\ Request(kinds[i]) \in Requests
  BY DEF Request, Requests
<1>2. new \in Seq(Requests) /\ Len(new) = Len(kinds)
  BY <1>1
<1>3. q \in Seq(Requests) /\ DOMAIN q = 1..Len(q) /\ Len(q) \in Nat
  BY DEF PagesTyped
<1>4. \A i \in 1..Len(kinds) : new[i].kind = kinds[i] /\ new[i].answer = Waiting /\ ~HasResult(new[i])
  BY <1>1 DEF Request, HasResult
<1>5. requests' = [requests EXCEPT ![p] = q \o new]
  BY DEF Load
<1> HIDE DEF q, new
<1>6. /\ q \o new \in Seq(Requests) /\ Len(q \o new) = Len(q) + Len(kinds)
      /\ \A i \in 1..Len(q) + Len(kinds) :
           (q \o new)[i] = IF i <= Len(q) THEN q[i] ELSE new[i - Len(q)]
  <2>1. new \in Seq(Requests) /\ q \in Seq(Requests)
    BY <1>2, <1>3
  <2>2. /\ q \o new \in Seq(Requests) /\ Len(q \o new) = Len(q) + Len(new)
        /\ \A i \in 1..Len(q) + Len(new) :
             (q \o new)[i] = IF i <= Len(q) THEN q[i] ELSE new[i - Len(q)]
    BY ONLY <2>1, ConcatProperties
  <2> QED
    BY ONLY <1>2, <2>2
<1>7. requests' \in [Pages -> Seq(Requests)] /\ requests'[p] = q \o new
      /\ \A d \in Pages : d # p => requests'[d] = requests[d]
  BY <1>5, <1>6 DEF PagesTyped
<1>8. DOMAIN requests'[p] = 1..Len(q) + Len(kinds)
  BY <1>6, <1>7
<1>9. \A i \in DOMAIN q : i \in DOMAIN requests'[p] /\ requests'[p][i] = q[i]
  BY <1>1, <1>3, <1>6, <1>7, <1>8
<1>10. \A i \in 1..Len(kinds) : Len(q) + i \in DOMAIN requests'[p] /\ requests'[p][Len(q) + i] = new[i]
  BY <1>1, <1>3, <1>6, <1>7, <1>8
<1>11. \A i \in DOMAIN requests'[p] : i \in DOMAIN q \/ i - Len(q) \in 1..Len(kinds)
  BY <1>1, <1>3, <1>8
<1>12. Quiet(q, requests'[p])
  <2> SUFFICES ASSUME NEW i \in DOMAIN requests'[p], i \notin DOMAIN q
               PROVE  ~HasResult(requests'[p][i])
    BY <1>9 DEF Quiet
  <2>1. i - Len(q) \in 1..Len(kinds) /\ Len(q) + (i - Len(q)) = i
    BY <1>1, <1>3, <1>8, <1>11
  <2>2. requests'[p][i] = new[i - Len(q)]
    BY <1>10, <2>1
  <2> QED
    BY <1>4, <2>1, <2>2
<1>13. \A i \in DOMAIN kinds : \E j \in DOMAIN requests'[p] :
         requests'[p][j].kind = kinds[i] /\ requests'[p][j].answer = Waiting
  BY <1>1, <1>4, <1>10
<1>14. /\ indicator' \in [Pages -> [visible : BOOLEAN, error : BOOLEAN]]
       /\ "files" \notin ToSet(kinds) => indicator' = indicator
       /\ \A d \in Pages : d # p => indicator'[d] = indicator[d]
  BY DEF Load, PagesTyped
<1> QED
  BY <1>7, <1>9, <1>12, <1>13, <1>14 DEF q

\* One request of p is answered, with the newest result or with an error.
Answered(p, i, x) ==
  /\ requests[p][i].answer = Waiting /\ x \in Requests /\ x.kind = requests[p][i].kind
  /\ HasResult(x) => x.answer = Newest(x.kind) /\ x.answer > 0
  /\ x.kind = "files" /\ files # 0 => x.answer = files
  /\ Replies(requests[p], i, x, requests'[p])

\* The REST handlers answer so.
LEMMA AnswerEffect ==
  ASSUME PagesTyped, NEW p \in Pages, Answer(p)
  PROVE  /\ \E i \in DOMAIN requests[p], x \in Requests : Answered(p, i, x)
         /\ requests' \in [Pages -> Seq(Requests)]
         /\ \A d \in Pages : d # p => requests'[d] = requests[d]
         /\ UNCHANGED <<files, scans, pool, es, inbox, shown, indicator, stale>>
<1>1. PICK i \in DOMAIN requests[p], answer \in 1..(MaxScans + MaxChanges + 1) \cup {Error} :
        LET r == requests[p][i]
            q == IF answer = Error THEN requests[p] ELSE Pass(requests[p], r.kind)
        IN  /\ r.answer = Waiting
            /\ \/ r.kind = "files" /\ HandleFiles(answer) /\ UNCHANGED faults
               \/ r.kind = "zfs" /\ HandleZFS(answer)
            /\ requests' = [requests EXCEPT ![p] =
                 [q EXCEPT ![i] = [kind |-> r.kind, answer |-> answer, passed |-> FALSE]]]
            /\ UNCHANGED <<files, stage, scans, pool, ticks, streamVars, shown, indicator,
                           clicks, stale>>
  BY DEF Answer
<1> DEFINE a == requests[p]
           kind == requests[p][i].kind
           b == IF answer = Error THEN a ELSE Pass(a, kind)
           x == [kind |-> kind, answer |-> answer, passed |-> FALSE]
           c == [b EXCEPT ![i] = x]
<1>2. a \in Seq(Requests) /\ i \in DOMAIN a
  BY DEF PagesTyped
<1>3. DOMAIN a = 1..Len(a) /\ Len(a) \in Nat /\ \A j \in DOMAIN a : a[j] \in Requests
  BY <1>2
<1>4. a[i].answer = Waiting /\ kind \in Kinds /\ answer \in {Waiting, Error} \cup Nat
  BY <1>1, <1>2, <1>3, PanelsBounds DEF Requests
<1>5. x = [kind |-> kind, answer |-> answer, passed |-> FALSE]
  OBVIOUS
<1>6. requests' = [requests EXCEPT ![p] = c]
  BY <1>1
<1> HIDE DEF x
<1>7. x \in Requests /\ x.kind = kind /\ x.answer = answer /\ ~x.passed
  BY <1>4, <1>5 DEF Requests
<1>8. HasResult(x) <=> answer # Error
  BY <1>1, <1>7, PanelsAnswers, PanelsBounds DEF HasResult
<1>9. ASSUME NEW j \in DOMAIN a
      PROVE  /\ b[j] \in Requests /\ b[j].kind = a[j].kind /\ b[j].answer = a[j].answer
             /\ a[j].passed => b[j].passed
             /\ IF answer # Error /\ a[j].kind = kind /\ HasResult(a[j]) THEN b[j].passed
                ELSE b[j] = a[j]
  <2>1. CASE answer = Error
    BY <1>3, <2>1
  <2>2. CASE answer # Error
    <3> DEFINE sends == a[j].kind = kind /\ HasResult(a[j])
    <3>1. PICK e \in BOOLEAN : e = (a[j].passed \/ sends)
      OBVIOUS
    <3>2. b[j] = [a[j] EXCEPT !.passed = a[j].passed \/ sends]
      BY <2>2 DEF Pass
    <3>3. b[j] = [a[j] EXCEPT !.passed = e]
      BY <3>1, <3>2
    <3> HIDE DEF b, a, sends
    <3>4. a[j] \in Requests /\ a[j].passed \in BOOLEAN
      BY <1>3 DEF Requests
    <3>5. /\ b[j] \in Requests /\ b[j].kind = a[j].kind /\ b[j].answer = a[j].answer
          /\ b[j].passed = e
      BY <3>3, <3>4 DEF Requests
    <3>6. CASE sends
      <4>1. e = TRUE
        BY <3>1, <3>6
      <4> QED
        BY <2>2, <3>5, <3>6, <4>1 DEF sends
    <3>7. CASE ~sends
      <4>1. e = a[j].passed
        BY <3>1, <3>4, <3>7
      <4>2. b[j] = a[j]
        BY <3>3, <3>4, <4>1 DEF Requests
      <4> QED
        BY <3>4, <3>7, <4>2 DEF sends
    <3> QED
      BY <3>6, <3>7
  <2> QED
    BY <2>1, <2>2
<1>10. DOMAIN b = DOMAIN a /\ b = [j \in DOMAIN a |-> b[j]]
  <2>1. CASE answer = Error
    BY <1>2, <2>1
  <2>2. CASE answer # Error
    BY <2>2 DEF Pass
  <2> QED
    BY <2>1, <2>2
<1> HIDE DEF a, b
<1>11. DOMAIN c = DOMAIN a /\ c[i] = x /\ \A j \in DOMAIN a \ {i} : c[j] = b[j]
  BY <1>2, <1>10
<1>12. c \in Seq(Requests)
  <2>1. c = [j \in DOMAIN a |-> c[j]]
    BY <1>10
  <2>2. \A j \in DOMAIN a : c[j] \in Requests
    BY <1>7, <1>9, <1>11
  <2> HIDE DEF c
  <2>3. c \in [1..Len(a) -> Requests] /\ Len(a) \in Nat
    BY <1>3, <2>1, <2>2
  <2> QED
    BY ONLY <2>3, SeqDef
<1>13. Replies(a, i, x, c)
  <2> HIDE DEF c
  <2>1. kind = a[i].kind
    BY DEF a
  <2> QED
    BY <1>7, <1>8, <1>9, <1>11, <2>1 DEF Replies
<1> HIDE DEF c
<1>14. /\ requests' \in [Pages -> Seq(Requests)] /\ requests'[p] = c
       /\ \A d \in Pages : d # p => requests'[d] = requests[d]
  BY <1>6, <1>12 DEF PagesTyped
<1>15. HasResult(x) => x.answer = Newest(x.kind) /\ x.answer > 0
  BY <1>1, <1>7, <1>8, PanelsBounds DEF Newest, HandleFiles, HandleZFS, PagesTyped
<1>16. x.kind = "files" /\ files # 0 => x.answer = files
  BY <1>1, <1>7 DEF HandleFiles
<1>17. Answered(p, i, x)
  BY <1>4, <1>7, <1>13, <1>14, <1>15, <1>16 DEF Answered, a
<1>18. UNCHANGED <<files, scans, pool, es, inbox, shown, indicator, stale>>
  BY <1>1 DEF streamVars
<1> QED
  BY <1>7, <1>14, <1>17, <1>18

\* A restart turns requests that wait into errors, and nothing else.
LEMMA RestartEffect ==
  ASSUME PagesTyped, Restart
  PROVE  /\ requests' \in [Pages -> Seq(Requests)]
         /\ \A p \in Pages :
              /\ Quiet(requests[p], requests'[p])
              /\ DOMAIN requests'[p] = DOMAIN requests[p]
              /\ \A i \in DOMAIN requests[p] : requests'[p][i].kind = requests[p][i].kind
<1> DEFINE After(p) == [i \in DOMAIN requests[p] |->
                         IF requests[p][i].answer = Waiting
                         THEN [requests[p][i] EXCEPT !.answer = Error] ELSE requests[p][i]]
<1>1. ASSUME NEW p \in Pages
      PROVE  /\ After(p) \in Seq(Requests) /\ DOMAIN After(p) = DOMAIN requests[p]
             /\ \A i \in DOMAIN requests[p] :
                  /\ After(p)[i].kind = requests[p][i].kind
                  /\ HasResult(After(p)[i]) => After(p)[i] = requests[p][i]
  <2>1. requests[p] \in Seq(Requests)
    BY DEF PagesTyped
  <2>2. /\ DOMAIN requests[p] = 1..Len(requests[p]) /\ Len(requests[p]) \in Nat
        /\ \A i \in DOMAIN requests[p] : requests[p][i] \in Requests
    BY <2>1
  <2>3. ASSUME NEW i \in DOMAIN requests[p]
        PROVE  /\ After(p)[i] \in Requests /\ After(p)[i].kind = requests[p][i].kind
               /\ HasResult(After(p)[i]) => After(p)[i] = requests[p][i]
    BY <2>2 DEF Requests, HasResult
  <2>4. After(p) \in [1..Len(requests[p]) -> Requests]
    BY <2>2, <2>3
  <2>5. After(p) \in Seq(Requests)
    BY ONLY <2>2, <2>4, SeqDef
  <2> QED
    BY <2>3, <2>5
<1>2. requests' = [p \in Pages |-> After(p)]
  BY DEF Restart
<1> HIDE DEF After
<1>3. requests' \in [Pages -> Seq(Requests)] /\ \A p \in Pages : requests'[p] = After(p)
  BY <1>1, <1>2
<1> QED
  BY <1>1, <1>3 DEF Quiet

\* The answer of request i of p is applied.
Applied(p, i) ==
  LET r == requests[p][i]
  IN  /\ r.answer # Waiting
      /\ requests'[p] = RemoveAt(requests[p], i)
      /\ \A k \in Kinds : shown'[p][k] = IF k = r.kind /\ HasResult(r) THEN r.answer ELSE shown[p][k]
      /\ indicator'[p] = IF r.kind = "files" THEN AfterFiles(indicator[p], r.answer)
                         ELSE indicator[p]
      /\ \A k \in Kinds : k \in stale'[p] <=> IF k = r.kind /\ HasResult(r) THEN r.passed
                                              ELSE k \in stale[p]

\* What else applying an answer does.
LEMMA ApplyEffect ==
  ASSUME PagesTyped, NEW p \in Pages, Apply(p)
  PROVE  /\ \E i \in DOMAIN requests[p] : Applied(p, i)
         /\ requests' \in [Pages -> Seq(Requests)]
         /\ shown' \in [Pages -> [Kinds -> Nat]]
         /\ indicator' \in [Pages -> [visible : BOOLEAN, error : BOOLEAN]]
         /\ stale' \in [Pages -> SUBSET Kinds]
         /\ \A d \in Pages : d # p =>
              /\ requests'[d] = requests[d] /\ shown'[d] = shown[d]
              /\ indicator'[d] = indicator[d] /\ stale'[d] = stale[d]
         /\ UNCHANGED <<files, scans, pool, es, inbox>>
<1>1. PICK i \in DOMAIN requests[p] :
        LET r == requests[p][i]
        IN  /\ r.answer # Waiting
            /\ requests' = [requests EXCEPT ![p] = RemoveAt(@, i)]
            /\ shown' = IF r.answer = Error THEN shown
                        ELSE [shown EXCEPT ![p][r.kind] = r.answer]
            /\ indicator' = IF r.kind = "files"
                            THEN [indicator EXCEPT ![p] = AfterFiles(@, r.answer)] ELSE indicator
            /\ stale' = IF r.answer = Error THEN stale
                        ELSE [stale EXCEPT ![p] =
                                IF r.passed THEN @ \cup {r.kind} ELSE @ \ {r.kind}]
            /\ UNCHANGED <<serverVars, streamVars, clicks>>
  BY DEF Apply
<1> DEFINE r == requests[p][i]
<1>2. requests[p] \in Seq(Requests)
  BY DEF PagesTyped
<1>3. r \in Requests /\ i \in Nat /\ DOMAIN requests[p] = 1..Len(requests[p])
  BY <1>2
<1>4. r.kind \in Kinds /\ (r.answer # Waiting /\ r.answer # Error => r.answer \in Nat)
  BY <1>3 DEF Requests
<1> HIDE DEF r
<1>5. RemoveAt(requests[p], i) \in Seq(Requests)
  BY <1>2, Removed
<1>6. /\ requests' \in [Pages -> Seq(Requests)] /\ requests'[p] = RemoveAt(requests[p], i)
      /\ \A d \in Pages : d # p => requests'[d] = requests[d]
  BY <1>1, <1>5 DEF PagesTyped
<1>7. /\ shown' \in [Pages -> [Kinds -> Nat]]
      /\ \A k \in Kinds : shown'[p][k] = IF k = r.kind /\ HasResult(r) THEN r.answer ELSE shown[p][k]
      /\ \A d \in Pages : d # p => shown'[d] = shown[d]
  <2>1. CASE r.answer = Error
    BY <1>1, <2>1 DEF PagesTyped, HasResult, r
  <2>2. CASE r.answer # Error
    <3>1. shown' = [shown EXCEPT ![p][r.kind] = r.answer] /\ HasResult(r) /\ r.answer \in Nat
      BY <1>1, <1>4, <2>2 DEF HasResult, r
    <3> QED
      BY <1>4, <3>1 DEF PagesTyped
  <2> QED
    BY <2>1, <2>2
<1>8. PICK e \in BOOLEAN : e = (r.answer = Error)
  OBVIOUS
<1>9. PICK f \in BOOLEAN : f = (indicator[p].error \/ e)
  OBVIOUS
<1>10. AfterFiles(indicator[p], r.answer) = [visible |-> e, error |-> f]
  BY <1>8, <1>9 DEF AfterFiles
<1>11. /\ indicator' \in [Pages -> [visible : BOOLEAN, error : BOOLEAN]]
       /\ indicator'[p] = IF r.kind = "files" THEN AfterFiles(indicator[p], r.answer)
                          ELSE indicator[p]
       /\ \A d \in Pages : d # p => indicator'[d] = indicator[d]
  <2>1. CASE r.kind = "files"
    <3>1. indicator' = [indicator EXCEPT ![p] = [visible |-> e, error |-> f]]
      BY <1>1, <1>10, <2>1 DEF r
    <3> QED
      BY <1>10, <2>1, <3>1 DEF PagesTyped
  <2>2. CASE r.kind # "files"
    BY <1>1, <2>2 DEF r, PagesTyped
  <2> QED
    BY <2>1, <2>2
<1>12. /\ stale' \in [Pages -> SUBSET Kinds]
       /\ \A k \in Kinds : k \in stale'[p] <=> IF k = r.kind /\ HasResult(r) THEN r.passed
                                               ELSE k \in stale[p]
       /\ \A d \in Pages : d # p => stale'[d] = stale[d]
  <2>1. CASE r.answer = Error
    BY <1>1, <2>1 DEF PagesTyped, HasResult, r
  <2>2. CASE r.answer # Error
    <3>1. PICK t \in SUBSET Kinds : t = IF r.passed THEN stale[p] \cup {r.kind}
                                       ELSE stale[p] \ {r.kind}
      BY <1>4 DEF PagesTyped
    <3>2. stale' = [stale EXCEPT ![p] = t] /\ HasResult(r)
      BY <1>1, <2>2, <3>1 DEF HasResult, r
    <3>3. stale' \in [Pages -> SUBSET Kinds] /\ stale'[p] = t
          /\ \A d \in Pages : d # p => stale'[d] = stale[d]
      BY <3>2 DEF PagesTyped
    <3> QED
      BY <3>1, <3>2, <3>3
  <2> QED
    BY <2>1, <2>2
<1>16. Applied(p, i)
  BY <1>1, <1>6, <1>7, <1>11, <1>12 DEF Applied, r
<1>17. UNCHANGED <<files, scans, pool, es, inbox>>
  BY <1>1 DEF serverVars, streamVars
<1> QED
  BY <1>6, <1>7, <1>11, <1>12, <1>16, <1>17

-----------------------------------------------------------------------------
(* Types *)

\* The types hold before the first page is opened.
LEMMA PanelsTypedInit == PanelsInit => PagesTyped
<1> SUFFICES ASSUME PanelsInit
             PROVE  PagesTyped
  OBVIOUS
<1>1. <<>> \in Seq(Requests) /\ <<>> \in Seq(Notices)
  OBVIOUS
<1>2. requests \in [Pages -> Seq(Requests)] /\ inbox \in [Pages -> Seq(Notices)]
  BY <1>1 DEF PanelsInit
<1> QED
  BY <1>2 DEF PanelsInit, PagesTyped

\* Each notice is one that loadFiles or loadZFS may follow.
LEMMA InboxStep ==
  ASSUME PagesTyped, NEW kind \in Kinds, NEW version \in Nat, Broadcast(kind, version)
  PROVE  inbox' \in [Pages -> Seq(Notices)]
<1>1. [kind |-> kind, version |-> version] \in Notices
  BY DEF Notices
<1> QED
  BY <1>1 DEF Broadcast, PagesTyped

\* Results, pages and requests keep their types.
LEMMA TypedStep ==
  ASSUME PagesTyped, [PanelsNext]_panelsVars
  PROVE  PagesTyped'
<1> USE DEF PagesTyped, serverVars, streamVars, panelVars
<1>0. <<>> \in Seq(Notices)
  OBVIOUS
<1>1. CASE Server
  <2>1. CASE Scan \/ ScanFails \/ Store \/ PoolChanges
    BY <2>1, PanelsBounds DEF Scan, ScanFails, Store, PoolChanges, panelsVars
  <2>2. CASE NotifyFiles \/ NotifyZFS
    <3>1. inbox' \in [Pages -> Seq(Notices)]
      BY <2>2, InboxStep DEF NotifyFiles, NotifyZFS, Kinds
    <3> QED
      BY <2>2, <3>1 DEF NotifyFiles, NotifyZFS
  <2>3. CASE Restart
    <3>1. /\ es' = [p \in Pages |-> IF es[p] = "open" THEN "connecting" ELSE es[p]]
          /\ inbox' = [p \in Pages |-> <<>>] /\ files' = 0
          /\ UNCHANGED <<scans, pool, shown, indicator, stale>>
      BY <2>3 DEF Restart
    <3>2. inbox' \in [Pages -> Seq(Notices)]
      BY <1>0, <3>1
    <3>3. es' \in [Pages -> {"absent", "connecting", "open", "closed"}]
      BY <3>1
    <3> QED
      BY <2>3, <3>1, <3>2, <3>3, RestartEffect
  <2> QED
    BY <1>1, <2>1, <2>2, <2>3 DEF Server
<1>2. ASSUME NEW p \in Pages, Connect(p) \/ Lose(p) \/ HandlerEnds(p)
      PROVE  PagesTyped'
  <2>1. CASE Connect(p) \/ HandlerEnds(p)
    BY <2>1 DEF Connect, HandlerEnds
  <2>2. CASE Lose(p)
    BY <1>0, <2>2 DEF Lose
  <2> QED
    BY <1>2, <2>1, <2>2
<1>3. <<"files", "zfs">> \in Seq(Kinds) /\ \A kind \in Kinds : <<kind>> \in Seq(Kinds)
  BY DEF Kinds
<1>4. ASSUME NEW p \in Pages, Open(p)
      PROVE  PagesTyped'
  BY <1>3, <1>4, LoadEffect DEF Open
<1>5. ASSUME NEW p \in Pages, NEW kind \in Kinds, Click(p, kind)
      PROVE  PagesTyped'
  BY <1>3, <1>5, LoadEffect DEF Click
<1>6. ASSUME NEW p \in Pages, Receive(p)
      PROVE  PagesTyped'
  <2>1. inbox[p] \in Seq(Notices) /\ inbox[p] # <<>>
    BY <1>6 DEF Receive
  <2>2. Head(inbox[p]) \in Notices /\ Tail(inbox[p]) \in Seq(Notices)
    BY ONLY <2>1
  <2>3. Head(inbox[p]).kind \in Kinds /\ Tail(inbox[p]) \in Seq(Notices)
    BY <2>2 DEF Notices
  <2>4. inbox' \in [Pages -> Seq(Notices)]
    BY <1>6, <2>3 DEF Receive
  <2> QED
    BY <1>3, <1>6, <2>3, <2>4, LoadEffect DEF Receive
<1>7. ASSUME NEW p \in Pages, Answer(p)
      PROVE  PagesTyped'
  BY <1>7, AnswerEffect
<1>8. ASSUME NEW p \in Pages, Apply(p)
      PROVE  PagesTyped'
  BY <1>8, ApplyEffect
<1>9. CASE UNCHANGED panelsVars
  BY <1>9 DEF panelsVars
<1> QED
  BY <1>1, <1>2, <1>4, <1>5, <1>6, <1>7, <1>8, <1>9 DEF PanelsNext, Page

-----------------------------------------------------------------------------
(* A panel goes back only by results that were passed *)

\* The page of p keeps what it shows, and its requests their results.
Calm(p) ==
  /\ Quiet(requests[p], requests'[p])
  /\ shown'[p] = shown[p] /\ stale'[p] = stale[p]

\* Only an answer and its application are more than that, and they are those of p.
LEMMA CalmStep ==
  ASSUME PagesTyped, [PanelsNext]_panelsVars, NEW p \in Pages, ~Answer(p), ~Apply(p)
  PROVE  Calm(p)
<1> USE DEF Calm, serverVars, streamVars, panelVars
<1>1. ASSUME UNCHANGED <<requests, shown, stale>>
      PROVE  Calm(p)
  BY <1>1 DEF Quiet
<1>2. CASE Server
  <2>1. CASE Restart
    BY <2>1, RestartEffect DEF Restart
  <2>2. CASE ~Restart
    BY <1>1, <1>2, <2>2 DEF Server, Scan, ScanFails, Store, NotifyFiles, NotifyZFS, PoolChanges,
       panelsVars
  <2> QED
    BY <2>1, <2>2
<1>3. <<"files", "zfs">> \in Seq(Kinds) /\ \A kind \in Kinds : <<kind>> \in Seq(Kinds)
  BY DEF Kinds
<1>4. ASSUME NEW d \in Pages, NEW kinds \in Seq(Kinds), Load(d, kinds), UNCHANGED <<shown, stale>>
      PROVE  Calm(p)
  <2>1. CASE d = p
    BY <1>4, <2>1, LoadEffect
  <2>2. CASE d # p
    <3>1. requests'[p] = requests[p]
      BY <1>4, <2>2, LoadEffect
    <3> QED
      BY <1>4, <3>1 DEF Quiet
  <2> QED
    BY <2>1, <2>2
<1>5. ASSUME NEW d \in Pages, Open(d) \/ Receive(d) \/ \E kind \in Kinds : Click(d, kind)
      PROVE  Calm(p)
  <2>1. CASE Open(d)
    BY <1>3, <1>4, <2>1 DEF Open
  <2>2. ASSUME NEW kind \in Kinds, Click(d, kind)
        PROVE  Calm(p)
    BY <1>3, <1>4, <2>2 DEF Click
  <2>3. CASE Receive(d)
    <3>1. inbox[d] \in Seq(Notices) /\ inbox[d] # <<>>
      BY <2>3 DEF Receive, PagesTyped
    <3>2. Head(inbox[d]) \in Notices
      BY ONLY <3>1
    <3>3. Head(inbox[d]).kind \in Kinds
      BY <3>2 DEF Notices
    <3> QED
      BY <1>3, <1>4, <2>3, <3>3 DEF Receive
  <2> QED
    BY <1>5, <2>1, <2>2, <2>3
<1>6. ASSUME NEW d \in Pages, d # p, Answer(d)
      PROVE  Calm(p)
  BY <1>6, AnswerEffect DEF Quiet
<1>7. ASSUME NEW d \in Pages, d # p, Apply(d)
      PROVE  Calm(p)
  BY <1>7, ApplyEffect DEF Quiet
<1>8. ASSUME NEW d \in Pages, Connect(d) \/ Lose(d) \/ HandlerEnds(d)
      PROVE  Calm(p)
  BY <1>1, <1>8 DEF Connect, Lose, HandlerEnds
<1>9. CASE UNCHANGED panelsVars
  BY <1>1, <1>9 DEF panelsVars
<1> QED
  BY <1>2, <1>5, <1>6, <1>7, <1>8, <1>9 DEF PanelsNext, Page

\* Results only become newer: a restart loses the cache, but scans go on counting.
LEMMA NewestStep ==
  ASSUME PagesTyped, [PanelsNext]_panelsVars, NEW k \in Kinds
  PROVE  Newest(k) \in Nat /\ Newest(k)' \in Nat /\ Newest(k) <= Newest(k)'
<1> USE DEF PagesTyped, serverVars, streamVars, panelVars, Newest
<1>1. ASSUME UNCHANGED <<files, scans, pool>>
      PROVE  Newest(k) \in Nat /\ Newest(k)' \in Nat /\ Newest(k) <= Newest(k)'
  BY <1>1
<1>2. CASE Server
  <2>1. CASE Scan \/ Store \/ PoolChanges \/ Restart
    BY <2>1 DEF Scan, Store, PoolChanges, Restart
  <2>2. CASE ScanFails \/ NotifyFiles \/ NotifyZFS
    BY <1>1, <2>2 DEF ScanFails, NotifyFiles, NotifyZFS, panelsVars
  <2> QED
    BY <1>2, <2>1, <2>2 DEF Server
<1>3. ASSUME NEW p \in Pages, Page(p)
      PROVE  UNCHANGED <<files, scans, pool>>
  BY <1>3, AnswerEffect, ApplyEffect DEF Page, Open, Connect, Lose, HandlerEnds, Receive, Click
<1>4. CASE UNCHANGED panelsVars
  BY <1>1, <1>4 DEF panelsVars
<1> QED
  BY <1>1, <1>2, <1>3, <1>4 DEF PanelsNext

\* What BackOnlyIfOvertaken says of a panel.
MayGoBack(p, k) ==
  shown'[p][k] < shown[p][k] =>
    \E i \in DOMAIN requests[p] :
      /\ requests[p][i].kind = k /\ requests[p][i].passed
      /\ shown'[p][k] = requests[p][i].answer
      /\ requests'[p] = RemoveAt(requests[p], i)

\* A result that is not newer than v is not newer than a later w.
LEMMA UpToMore ==
  ASSUME NEW q \in Seq(Requests), NEW k, NEW v \in Nat, NEW w \in Nat, v <= w, UpTo(q, k, v)
  PROVE  UpTo(q, k, w)
<1> SUFFICES ASSUME NEW i \in DOMAIN q, q[i].kind = k, HasResult(q[i])
             PROVE  q[i].answer <= w
  BY DEF UpTo
<1>1. q[i] \in Requests
  OBVIOUS
<1>2. q[i].answer \in Nat /\ q[i].answer <= v
  BY <1>1 DEF Requests, HasResult, UpTo
<1> QED
  BY <1>2

\* No step brings the order of results into disarray.
LEMMA OrderedStep ==
  ASSUME PagesTyped, PagesTyped', OrderInv, [PanelsNext]_panelsVars, NEW p \in Pages, NEW k \in Kinds
  PROVE  Ordered(p, k)' /\ MayGoBack(p, k)
<1> DEFINE q == requests[p]
           r == requests'[p]
<1>1. Ordered(p, k) /\ q \in Seq(Requests) /\ r \in Seq(Requests)
      /\ shown[p][k] \in Nat /\ shown'[p][k] \in Nat
  BY DEF OrderInv, PagesTyped
<1>2. PICK v, w : v = Newest(k) /\ w = Newest(k)'
  OBVIOUS
<1>3. v \in Nat /\ w \in Nat /\ v <= w
  BY <1>2, NewestStep
<1>4. CASE ~Answer(p) /\ ~Apply(p)
  <2>1. Calm(p)
    BY <1>4, CalmStep
  <2>2. UpTo(r, k, v) /\ shown'[p][k] = shown[p][k] /\ From(r, k, shown'[p][k])
        /\ Rising(r, k)
    BY <1>1, <1>2, <2>1, QuietKeeps DEF Calm, Ordered
  <2>3. UpTo(r, k, w) /\ shown'[p][k] <= w
    <3>1. UpTo(r, k, w)
      BY <1>1, <1>3, <2>2, UpToMore
    <3>2. shown[p][k] <= v
      BY <1>1, <1>2 DEF Ordered
    <3> QED
      BY <1>1, <1>3, <2>2, <3>1, <3>2
  <2>4. MayGoBack(p, k)
    BY <1>1, <2>2 DEF MayGoBack
  <2> QED
    BY <1>2, <2>2, <2>3, <2>4 DEF Ordered
<1>5. CASE Answer(p)
  <2>1. PICK i \in DOMAIN q, x \in Requests : Answered(p, i, x)
    BY <1>5, AnswerEffect
  <2>2. Replies(q, i, x, r)
    BY <2>1 DEF Answered
  <2>3. w = v /\ shown'[p][k] = shown[p][k]
    BY <1>2, <1>5, AnswerEffect DEF Newest
  <2>4. UpTo(q, k, v) /\ (x.kind = k /\ HasResult(x) => x.answer = v) /\ v <= v
    BY <1>1, <1>2, <1>3, <2>1 DEF Ordered, Answered
  <2>5. PICK u : u = shown[p][k]
    OBVIOUS
  <2>6. /\ UpTo(r, k, v)
        /\ From(q, k, u) /\ u <= v => From(r, k, u)
        /\ Rising(q, k) => Rising(r, k)
    BY <2>2, <2>4, AnswerKeeps
  <2>7. u <= v /\ From(q, k, u) /\ Rising(q, k)
    BY <1>1, <1>2, <2>5 DEF Ordered
  <2>8. From(r, k, u) /\ Rising(r, k)
    BY <2>6, <2>7
  <2>9. MayGoBack(p, k)
    BY <1>1, <2>3 DEF MayGoBack
  <2> QED
    BY <1>2, <2>3, <2>5, <2>6, <2>7, <2>8, <2>9 DEF Ordered
<1>6. CASE Apply(p)
  <2>1. PICK i \in DOMAIN q : Applied(p, i)
    BY <1>6, ApplyEffect
  <2>2. r = RemoveAt(q, i) /\ w = v
    BY <1>2, <1>6, <2>1, ApplyEffect DEF Applied, Newest
  <2>3. UpTo(q, k, v) /\ shown[p][k] <= v
        /\ From(q, k, shown[p][k]) /\ Rising(q, k)
    BY <1>1, <1>2 DEF Ordered
  <2>4. UpTo(r, k, v) /\ From(r, k, shown[p][k]) /\ Rising(r, k)
    BY <1>1, <2>2, <2>3, RemoveKeeps
  <2>5. CASE q[i].kind = k /\ HasResult(q[i])
    <3>1. shown'[p][k] = q[i].answer
      BY <2>1, <2>5 DEF Applied
    <3>2. shown'[p][k] <= v
      BY <2>3, <2>5, <3>1 DEF UpTo
    <3>3. ~q[i].passed => shown[p][k] <= shown'[p][k]
      BY <2>3, <2>5, <3>1 DEF From, IsLast
    <3>5. From(r, k, shown'[p][k]) /\ Rising(r, k)
      BY <1>1, <2>2, <2>3, <2>4, <2>5, <3>1, RemoveKeeps
    <3>6. MayGoBack(p, k)
      <4>1. CASE q[i].passed
        BY <2>2, <2>5, <3>1, <4>1 DEF MayGoBack
      <4>2. CASE ~q[i].passed
        BY <1>1, <3>3, <4>2 DEF MayGoBack
      <4> QED
        BY <4>1, <4>2
    <3> QED
      BY <1>2, <2>2, <2>4, <3>2, <3>5, <3>6 DEF Ordered
  <2>6. CASE ~(q[i].kind = k /\ HasResult(q[i]))
    <3>1. shown'[p][k] = shown[p][k]
      BY <2>1, <2>6 DEF Applied
    <3>2. MayGoBack(p, k)
      BY <1>1, <3>1 DEF MayGoBack
    <3> QED
      BY <1>2, <2>2, <2>3, <2>4, <3>1, <3>2 DEF Ordered
  <2> QED
    BY <2>5, <2>6
<1> QED
  BY <1>4, <1>5, <1>6

\* There are no results to begin with.
LEMMA OrderedInit == PanelsInit => OrderInv
<1> SUFFICES ASSUME PanelsInit, NEW p \in Pages, NEW k \in Kinds
             PROVE  Ordered(p, k)
  BY DEF OrderInv
<1>1. shown[p][k] = 0 /\ requests[p] = <<>> /\ Newest(k) \in Nat
  BY DEF PanelsInit, Newest
<1>2. DOMAIN requests[p] = {}
  BY <1>1
<1> QED
  BY <1>1, <1>2 DEF Ordered, UpTo, From, Rising

\* A panel goes back to an older version only by a result after which the server gave a
\* later one for it, for all pages and any number of requests in flight, scans, restarts
\* and lost connections.
THEOREM PanelBackCorrect == PanelsSpec => BackOnlyIfOvertaken
<1> DEFINE Inv == PagesTyped /\ OrderInv
<1>1. PanelsInit => Inv
  <2> SUFFICES ASSUME PanelsInit
               PROVE  Inv
    OBVIOUS
  <2>1. PagesTyped
    BY PanelsTypedInit
  <2> QED
    BY <2>1, OrderedInit
<1>2. Inv /\ [PanelsNext]_panelsVars => Inv'
  BY TypedStep, OrderedStep DEF OrderInv
<1>3. Inv /\ [PanelsNext]_panelsVars =>
        [\A p \in Pages, k \in Kinds : shown'[p][k] < shown[p][k] =>
           \E i \in DOMAIN requests[p] :
             /\ requests[p][i].kind = k /\ requests[p][i].passed
             /\ shown'[p][k] = requests[p][i].answer
             /\ requests'[p] = RemoveAt(requests[p], i)]_panelsVars
  BY TypedStep, OrderedStep DEF MayGoBack
<1> QED
  BY <1>1, <1>2, <1>3, PTL DEF PanelsSpec, BackOnlyIfOvertaken

-----------------------------------------------------------------------------
(* The indicator settles *)

\* Settles is kept by a step after which the same kinds are in flight, the page shows
\* the same and the results are those before.
LEMMA SettlesCalm ==
  ASSUME NEW p \in Pages, Settles(p), Quiet(requests[p], requests'[p]),
         InFlight(p, "files") => InFlight(p, "files")',
         shown'[p]["files"] = shown[p]["files"], indicator'[p] = indicator[p],
         es[p] = "absent" => es'[p] = "absent"
  PROVE  Settles(p)'
<1>1. Results(requests'[p])
  BY QuietKeeps DEF Settles
<1>2. es'[p] # "absent" /\ ~InFlight(p, "files")' =>
        IF indicator'[p].visible THEN indicator'[p].error ELSE shown'[p]["files"] > 0
  BY DEF Settles
<1> QED
  BY <1>1, <1>2 DEF Settles

\* With files in flight nothing is settled yet.
LEMMA SettlesLoading ==
  ASSUME NEW p \in Pages, Settles(p), Quiet(requests[p], requests'[p]), InFlight(p, "files")'
  PROVE  Settles(p)'
BY QuietKeeps DEF Settles

\* loadFiles and loadZFS show the indicator only with a request for files.
LEMMA SettlesLoad ==
  ASSUME PagesTyped, SettlesInv, NEW d \in Pages, NEW kinds \in Seq(Kinds), Load(d, kinds),
         NEW p \in Pages, shown' = shown,
         es[p] = "absent" => es'[p] = "absent" \/ (d = p /\ kinds[1] = "files" /\ kinds # <<>>)
  PROVE  Settles(p)'
<1>1. Settles(p)
  BY DEF SettlesInv
<1>2. CASE d # p
  BY <1>1, <1>2, LoadEffect, SettlesCalm DEF Quiet, InFlight
<1>3. CASE d = p /\ \E i \in DOMAIN kinds : kinds[i] = "files"
  <2>1. PICK i \in DOMAIN kinds : kinds[i] = "files"
    BY <1>3
  <2>2. \E j \in DOMAIN requests'[p] : requests'[p][j].kind = kinds[i]
    BY <1>3, LoadEffect
  <2>3. InFlight(p, "files")'
    BY <2>1, <2>2 DEF InFlight
  <2> QED
    BY <1>1, <1>3, <2>3, LoadEffect, SettlesLoading
<1>4. CASE d = p /\ ~\E i \in DOMAIN kinds : kinds[i] = "files"
  <2>1. "files" \notin ToSet(kinds)
    BY <1>4 DEF ToSet
  <2>2. kinds # <<>> => 1 \in DOMAIN kinds
    OBVIOUS
  <2>3. /\ indicator' = indicator /\ (es[p] = "absent" => es'[p] = "absent")
        /\ Quiet(requests[p], requests'[p])
        /\ InFlight(p, "files") => InFlight(p, "files")'
    BY <1>4, <2>1, <2>2, LoadEffect DEF InFlight
  <2> QED
    BY <1>1, <2>3, SettlesCalm
<1> QED
  BY <1>2, <1>3, <1>4

\* Answers to requests are results or errors, and leave the panels as they are.
LEMMA SettlesAnswer ==
  ASSUME PagesTyped, SettlesInv, NEW d \in Pages, Answer(d), NEW p \in Pages
  PROVE  Settles(p)'
<1>1. PICK i \in DOMAIN requests[d], x \in Requests : Answered(d, i, x)
  BY AnswerEffect
<1>2. Settles(p) /\ shown' = shown /\ indicator' = indicator /\ es' = es
  BY AnswerEffect DEF SettlesInv
<1>3. CASE d # p
  <2>1. requests'[p] = requests[p]
    BY <1>3, AnswerEffect
  <2> QED
    BY <1>2, <2>1, SettlesCalm DEF Quiet, InFlight
<1>4. CASE d = p
  <2> DEFINE q == requests[p]
             r == requests'[p]
  <2>1. /\ DOMAIN r = DOMAIN q /\ r[i] = x /\ x.kind = q[i].kind /\ (HasResult(x) => x.answer > 0)
        /\ \A j \in DOMAIN q : j # i => r[j].kind = q[j].kind /\ r[j].answer = q[j].answer
    BY <1>1, <1>4 DEF Answered, Replies
  <2>2. Results(r)
    BY <1>2, <2>1 DEF Settles, Results, HasResult
  <2>3. InFlight(p, "files")' <=> InFlight(p, "files")
    BY <2>1 DEF InFlight
  <2> QED
    BY <1>2, <2>2, <2>3 DEF Settles
<1> QED
  BY <1>3, <1>4

\* The answer that is applied last decides: data and no indicator, or an error.
LEMMA SettlesApply ==
  ASSUME PagesTyped, SettlesInv, NEW d \in Pages, Apply(d), NEW p \in Pages
  PROVE  Settles(p)'
<1>1. PICK i \in DOMAIN requests[d] : Applied(d, i)
  BY ApplyEffect
<1>2. Settles(p) /\ es' = es
  BY ApplyEffect DEF SettlesInv
<1>3. CASE d # p
  BY <1>2, <1>3, ApplyEffect, SettlesCalm DEF Quiet, InFlight
<1>4. CASE d = p
  <2> DEFINE q == requests[p]
             r == requests'[p]
  <2>1. q \in Seq(Requests) /\ i \in DOMAIN q /\ r = RemoveAt(q, i) /\ q[i].answer # Waiting
    BY <1>1, <1>4 DEF Applied, PagesTyped
  <2>2. Results(q) /\ Results(r)
    BY <1>2, <2>1, RemoveKeeps DEF Settles
  <2>3. CASE q[i].kind = "files"
    <3>1. indicator'[p] = AfterFiles(indicator[p], q[i].answer)
      BY <1>1, <1>4, <2>3 DEF Applied
    <3>2. CASE q[i].answer = Error
      <4>1. (indicator[p].error \/ q[i].answer = Error) = TRUE /\ (q[i].answer = Error) = TRUE
        BY <3>2
      <4>2. indicator'[p] = [visible |-> TRUE, error |-> TRUE]
        BY <3>1, <4>1 DEF AfterFiles
      <4> QED
        BY <2>2, <4>2 DEF Settles
    <3>3. CASE q[i].answer # Error
      <4>1. (q[i].answer = Error) = FALSE
        BY <3>3
      <4> DEFINE f == indicator[p].error \/ q[i].answer = Error
      <4>5. indicator'[p] = [visible |-> FALSE, error |-> f]
        BY <3>1, <4>1 DEF AfterFiles
      <4> HIDE DEF f
      <4>2. ~indicator'[p].visible
        BY <4>5
      <4>3. HasResult(q[i]) /\ shown'[p]["files"] = q[i].answer
        BY <1>1, <1>4, <2>1, <2>3, <3>3 DEF Applied, HasResult, Kinds
      <4>4. shown'[p]["files"] > 0
        BY <2>1, <2>2, <4>3 DEF Results
      <4> QED
        BY <2>2, <4>2, <4>4 DEF Settles
    <3> QED
      BY <3>2, <3>3
  <2>4. CASE q[i].kind # "files"
    <3>1. indicator'[p] = indicator[p] /\ shown'[p]["files"] = shown[p]["files"]
      BY <1>1, <1>4, <2>4 DEF Applied, Kinds
    <3>2. InFlight(p, "files") => InFlight(p, "files")'
      <4> SUFFICES ASSUME NEW l \in DOMAIN q, q[l].kind = "files"
                   PROVE  \E j \in DOMAIN r : r[j].kind = "files"
        BY DEF InFlight
      <4>1. l \in DOMAIN q \ {i}
        BY <2>4
      <4>2. \E j \in DOMAIN r : r[j] = q[l]
        BY <2>1, <4>1, Moved
      <4> QED
        BY <4>2
    <3> QED
      BY <1>2, <2>2, <3>1, <3>2 DEF Settles
  <2> QED
    BY <2>3, <2>4
<1> QED
  BY <1>3, <1>4

\* No step leaves an indicator behind.
LEMMA SettlesStep ==
  ASSUME PagesTyped, SettlesInv, [PanelsNext]_panelsVars, NEW p \in Pages
  PROVE  Settles(p)'
<1> USE DEF serverVars, streamVars, panelVars
<1>1. Settles(p)
  BY DEF SettlesInv
<1>2. ASSUME UNCHANGED <<requests, shown, indicator>>, es[p] = "absent" => es'[p] = "absent"
      PROVE  Settles(p)'
  BY <1>1, <1>2, SettlesCalm DEF Quiet, InFlight
<1>3. CASE Server
  <2>1. CASE Restart
    <3>1. /\ Quiet(requests[p], requests'[p])
          /\ InFlight(p, "files") => InFlight(p, "files")'
      BY <2>1, RestartEffect DEF InFlight
    <3>2. shown' = shown /\ indicator' = indicator /\ (es[p] = "absent" => es'[p] = "absent")
      BY <2>1 DEF Restart
    <3> QED
      BY <1>1, <3>1, <3>2, SettlesCalm
  <2>2. CASE ~Restart
    BY <1>2, <1>3, <2>2 DEF Server, Scan, ScanFails, Store, NotifyFiles, NotifyZFS, PoolChanges,
       panelsVars
  <2> QED
    BY <2>1, <2>2
<1>4. ASSUME NEW d \in Pages, Connect(d) \/ Lose(d) \/ HandlerEnds(d)
      PROVE  Settles(p)'
  <2>1. UNCHANGED <<requests, shown, indicator>>
    BY <1>4 DEF Connect, Lose, HandlerEnds
  <2>2. es[p] = "absent" => es'[p] = "absent"
    BY <1>4 DEF Connect, Lose, HandlerEnds, PagesTyped
  <2> QED
    BY <1>2, <2>1, <2>2
<1>5. ASSUME NEW d \in Pages, Open(d)
      PROVE  Settles(p)'
  <2> DEFINE kinds == <<"files", "zfs">>
  <2>1. kinds \in Seq(Kinds) /\ kinds # <<>> /\ kinds[1] = "files"
    BY DEF Kinds
  <2>2. Load(d, kinds) /\ shown' = shown /\ (es[p] = "absent" => es'[p] = "absent" \/ d = p)
    BY <1>5 DEF Open, PagesTyped
  <2> HIDE DEF kinds
  <2> QED
    BY <2>1, <2>2, SettlesLoad
<1>6. ASSUME NEW d \in Pages, NEW kind \in Kinds, Load(d, <<kind>>), shown' = shown, es' = es
      PROVE  Settles(p)'
  <2>1. <<kind>> \in Seq(Kinds)
    OBVIOUS
  <2> QED
    BY <1>6, <2>1, SettlesLoad
<1>7. ASSUME NEW d \in Pages, NEW kind \in Kinds, Click(d, kind)
      PROVE  Settles(p)'
  BY <1>6, <1>7 DEF Click
<1>8. ASSUME NEW d \in Pages, Receive(d)
      PROVE  Settles(p)'
  <2>1. inbox[d] \in Seq(Notices) /\ inbox[d] # <<>>
    BY <1>8 DEF Receive, PagesTyped
  <2>2. Head(inbox[d]) \in Notices
    BY ONLY <2>1
  <2>3. Head(inbox[d]).kind \in Kinds
    BY <2>2 DEF Notices
  <2> QED
    BY <1>6, <1>8, <2>3 DEF Receive
<1>9. CASE UNCHANGED panelsVars
  BY <1>2, <1>9 DEF panelsVars
<1> QED
  BY <1>3, <1>4, <1>5, <1>7, <1>8, <1>9, SettlesAnswer, SettlesApply DEF PanelsNext, Page

\* The scanning indicator never outlives the requests: whatever the order of answers and
\* however many there are, a page with none in flight shows data or an error.
THEOREM IndicatorCorrect == PanelsSpec => []IndicatorSettles
<1> DEFINE Inv == PagesTyped /\ SettlesInv
<1>1. PanelsInit => Inv
  <2> SUFFICES ASSUME PanelsInit
               PROVE  Inv
    OBVIOUS
  <2>1. PagesTyped
    BY PanelsTypedInit
  <2>2. ASSUME NEW p \in Pages
        PROVE  Settles(p)
    <3>1. es[p] = "absent" /\ requests[p] = <<>>
      BY DEF PanelsInit
    <3>2. DOMAIN requests[p] = {}
      BY <3>1
    <3> QED
      BY <3>1, <3>2 DEF Settles, Results
  <2> QED
    BY <2>1, <2>2 DEF SettlesInv
<1>2. Inv /\ [PanelsNext]_panelsVars => Inv'
  BY TypedStep, SettlesStep DEF SettlesInv
<1>3. Inv => IndicatorSettles
  BY DEF SettlesInv, Settles, IndicatorSettles
<1> QED
  BY <1>1, <1>2, <1>3, PTL DEF PanelsSpec

-----------------------------------------------------------------------------
(* A page with nothing in flight is current *)

\* What a page has been told of: never more than was scanned, and of the latest scan
\* only while it is cached.
Told(p) ==
  /\ heard[p] <= scans
  /\ \A i \in DOMAIN inbox[p] : inbox[p][i].kind = "files" =>
       inbox[p][i].version <= scans /\ (inbox[p][i].version = scans => files = scans)
ToldInv ==
  /\ heard \in [Pages -> Nat]
  /\ stage = "notify" => files = scans
  /\ \A p \in Pages : Told(p)

\* A page that was told of the latest scan has still to be answered, ...
Asking(p) ==
  \E i \in DOMAIN requests[p] : requests[p][i].kind = "files" /\ requests[p][i].answer = Waiting
\* ... or the server gave it that scan last, which the page has to show, or shows unless
\* another result came after it.
Fresh(p) ==
  /\ \A i \in DOMAIN requests[p] : IsLast(requests[p][i], "files") => requests[p][i].answer = scans
  /\ \/ "files" \in stale[p] \/ shown[p]["files"] = scans
     \/ \E i \in DOMAIN requests[p] : IsLast(requests[p][i], "files")
Current(p) ==
  heard[p] = scans /\ scans > 0 => files = scans /\ (Asking(p) \/ Fresh(p))
CurrentInv == \A p \in Pages : Current(p)

\* A notice goes to the end of the streams that are open.
LEMMA ToldNotice ==
  ASSUME PagesTyped, NEW kind \in Kinds, NEW version \in Nat, Broadcast(kind, version),
         kind = "files" => version = scans /\ files = scans,
         NEW p \in Pages, Told(p), UNCHANGED <<files, scans, heard>>
  PROVE  Told(p)'
<1> DEFINE q == inbox[p]
           m == [kind |-> kind, version |-> version]
<1>1. q \in Seq(Notices) /\ m \in Notices
  BY DEF PagesTyped, Notices
<1>2. inbox'[p] = q \/ inbox'[p] = Append(q, m)
  BY DEF Broadcast
<1> HIDE DEF q
<1>3. CASE inbox'[p] = Append(q, m)
  <2>1. /\ DOMAIN Append(q, m) = 1..Len(q) + 1 /\ Len(q) \in Nat /\ DOMAIN q = 1..Len(q)
        /\ \A i \in 1..Len(q) : Append(q, m)[i] = q[i]
        /\ Append(q, m)[Len(q) + 1] = m
    BY <1>1
  <2>2. ASSUME NEW i \in DOMAIN inbox'[p], inbox'[p][i].kind = "files"
        PROVE  /\ inbox'[p][i].version <= scans'
               /\ inbox'[p][i].version = scans' => files' = scans'
    <3>1. CASE i \in 1..Len(q)
      BY <1>3, <2>1, <2>2, <3>1 DEF Told, q
    <3>2. CASE i = Len(q) + 1
      BY <1>3, <2>1, <2>2, <3>2 DEF PagesTyped
    <3> QED
      BY <1>3, <2>1, <2>2, <3>1, <3>2
  <2> QED
    BY <2>2 DEF Told
<1>4. CASE inbox'[p] = q
  BY <1>4 DEF Told, q
<1> QED
  BY <1>2, <1>3, <1>4

\* What is left of the notices after one is handled are those behind it.
LEMMA ToldReceive ==
  ASSUME PagesTyped, ToldInv, NEW d \in Pages, Receive(d), NEW p \in Pages
  PROVE  /\ Told(p)' /\ heard' \in [Pages -> Nat]
         /\ p # d \/ Head(inbox[d]).kind # "files" => heard'[p] = heard[p]
         /\ Head(inbox[d]).kind = "files" => heard'[d] = Head(inbox[d]).version
                                            /\ (heard'[d] = scans => files = scans)
<1> DEFINE q == inbox[d]
<1>1. q \in Seq(Notices) /\ q # <<>> /\ inbox' = [inbox EXCEPT ![d] = Tail(q)]
      /\ UNCHANGED <<files, scans>>
  BY DEF Receive, PagesTyped, serverVars
<1> HIDE DEF q
<1>2. /\ DOMAIN q = 1..Len(q) /\ Len(q) \in Nat \ {0} /\ Head(q) = q[1] /\ q[1] \in Notices
      /\ DOMAIN Tail(q) = 1..Len(q) - 1
      /\ \A i \in 1..Len(q) - 1 : Tail(q)[i] = q[i + 1]
  BY ONLY <1>1
<1>3. q[1].version \in Nat /\ 1 \in DOMAIN q
  BY <1>2 DEF Notices
<1>4. heard' = IF q[1].kind = "files" THEN [heard EXCEPT ![d] = q[1].version] ELSE heard
  BY <1>2 DEF Receive, q
<1>5. Told(d)
  BY DEF ToldInv
<1>6. q[1].kind = "files" => q[1].version <= scans /\ (q[1].version = scans => files = scans)
  BY <1>3, <1>5 DEF Told, q
<1>7. heard' \in [Pages -> Nat] /\ (p # d \/ q[1].kind # "files" => heard'[p] = heard[p])
      /\ (q[1].kind = "files" => heard'[d] = q[1].version)
  BY <1>3, <1>4 DEF ToldInv
<1>8. heard'[p] <= scans'
  BY <1>1, <1>6, <1>7 DEF ToldInv, Told
<1>9. ASSUME NEW i \in DOMAIN inbox'[p], inbox'[p][i].kind = "files"
      PROVE  inbox'[p][i].version <= scans' /\ (inbox'[p][i].version = scans' => files' = scans')
  <2>1. CASE p = d
    <3>1. inbox'[p] = Tail(q)
      BY <1>1, <2>1 DEF PagesTyped
    <3>2. i + 1 \in DOMAIN q /\ inbox'[p][i] = q[i + 1]
      BY <1>2, <1>9, <3>1
    <3> QED
      BY <1>1, <1>5, <1>9, <3>2 DEF Told, q
  <2>2. CASE p # d
    <3>1. inbox'[p] = inbox[p]
      BY <1>1, <2>2 DEF PagesTyped
    <3> QED
      BY <1>1, <1>9, <3>1 DEF ToldInv, Told
  <2> QED
    BY <2>1, <2>2
<1>10. Told(p)'
  BY <1>8, <1>9 DEF Told
<1> QED
  BY <1>2, <1>6, <1>7, <1>10 DEF q

\* Notices are sent after the cache is filled, and a restart takes both away.
LEMMA ToldStep ==
  ASSUME PagesTyped, ToldInv, [PanelsNext]_panelsVars
  PROVE  ToldInv'
<1> USE DEF serverVars, streamVars, panelVars
<1>1. ASSUME UNCHANGED <<files, scans, stage, heard, inbox>>
      PROVE  ToldInv'
  BY <1>1 DEF ToldInv, Told
<1>2. CASE Scan
  <2>1. scans' = scans + 1 /\ stage' = "store" /\ UNCHANGED <<files, heard, inbox>>
    BY <1>2 DEF Scan, StageAfter
  <2>2. ASSUME NEW p \in Pages
        PROVE  Told(p)'
    <3>1. inbox[p] \in Seq(Notices) /\ heard[p] \in Nat /\ scans \in Nat
      BY DEF PagesTyped, ToldInv
    <3>2. \A i \in DOMAIN inbox[p] : inbox[p][i] \in Notices
      BY ONLY <3>1
    <3>3. \A i \in DOMAIN inbox[p] : inbox[p][i].version \in Nat
      BY <3>2 DEF Notices
    <3> QED
      BY <2>1, <3>1, <3>3 DEF ToldInv, Told
  <2> QED
    BY <2>1, <2>2 DEF ToldInv
<1>3. CASE Store
  BY <1>3 DEF Store, StageAfter, ToldInv, Told
<1>4. CASE NotifyFiles
  <2>1. /\ stage' = "idle" /\ UNCHANGED <<files, scans, heard>> /\ files = scans
        /\ Broadcast("files", scans)
    BY <1>4 DEF NotifyFiles, StageAfter, ToldInv
  <2> QED
    BY <2>1, ToldNotice DEF ToldInv, PagesTyped, Kinds
<1>5. CASE NotifyZFS
  <2>1. UNCHANGED <<files, scans, stage, heard>> /\ Broadcast("zfs", pool)
    BY <1>5 DEF NotifyZFS
  <2> QED
    BY <2>1, ToldNotice DEF ToldInv, PagesTyped, Kinds
<1>6. CASE Restart
  <2>1. stage' = "idle" /\ heard' = [p \in Pages |-> 0] /\ inbox' = [p \in Pages |-> <<>>]
        /\ scans' = scans
    BY <1>6 DEF Restart
  <2>2. \A p \in Pages : DOMAIN inbox'[p] = {} /\ heard'[p] = 0
    BY <2>1
  <2> QED
    BY <2>1, <2>2 DEF ToldInv, Told, PagesTyped
<1>7. CASE ScanFails \/ PoolChanges
  BY <1>1, <1>7 DEF ScanFails, PoolChanges, panelsVars
<1>8. ASSUME NEW d \in Pages, Connect(d) \/ HandlerEnds(d) \/ Open(d)
                              \/ \E kind \in Kinds : Click(d, kind)
      PROVE  ToldInv'
  BY <1>1, <1>8 DEF Connect, HandlerEnds, Open, Click
<1>9. ASSUME NEW d \in Pages, Lose(d)
      PROVE  ToldInv'
  <2>1. inbox' = [inbox EXCEPT ![d] = <<>>] /\ UNCHANGED <<files, scans, stage, heard>>
    BY <1>9 DEF Lose
  <2>2. \A p \in Pages : DOMAIN inbox'[p] = {} \/ inbox'[p] = inbox[p]
    BY <2>1 DEF PagesTyped
  <2> QED
    BY <2>1, <2>2 DEF ToldInv, Told
<1>10. ASSUME NEW d \in Pages, Receive(d)
       PROVE  ToldInv'
  <2>1. UNCHANGED <<files, scans, stage>>
    BY <1>10 DEF Receive
  <2>2. heard' \in [Pages -> Nat] /\ \A p \in Pages : Told(p)'
    BY <1>10, ToldReceive
  <2> QED
    BY <2>1, <2>2 DEF ToldInv
<1>11. ASSUME NEW d \in Pages, Answer(d) \/ Apply(d)
       PROVE  ToldInv'
  BY <1>1, <1>11 DEF Answer, Apply
<1>12. CASE UNCHANGED panelsVars
  BY <1>1, <1>12 DEF panelsVars
<1> QED
  BY <1>2, <1>3, <1>4, <1>5, <1>6, <1>7, <1>8, <1>9, <1>10, <1>11, <1>12
     DEF PanelsNext, Page, Server

\* Current is kept while no request for the latest scan gets lost.
LEMMA CurrentCalm ==
  ASSUME NEW p \in Pages, Current(p), UNCHANGED <<files, scans>>, heard'[p] = heard[p],
         Asking(p) => Asking(p)', Fresh(p) => Fresh(p)'
  PROVE  Current(p)'
BY DEF Current

\* Requests that are added wait, and those in flight stay.
LEMMA FreshLoad ==
  ASSUME NEW p \in Pages, UNCHANGED <<scans, shown, stale>>,
         Quiet(requests[p], requests'[p]),
         \A i \in DOMAIN requests[p] : i \in DOMAIN requests'[p] /\ requests'[p][i] = requests[p][i]
  PROVE  (Asking(p) => Asking(p)') /\ (Fresh(p) => Fresh(p)')
<1>1. Asking(p) => Asking(p)'
  BY DEF Asking
<1>2. \A i \in DOMAIN requests'[p] : IsLast(requests'[p][i], "files") =>
        i \in DOMAIN requests[p] /\ requests'[p][i] = requests[p][i]
  BY DEF Quiet, IsLast
<1>3. Fresh(p) => Fresh(p)'
  BY <1>2 DEF Fresh
<1> QED
  BY <1>1, <1>3

\* Requests are added behind those in flight.
LEMMA CurrentLoad ==
  ASSUME PagesTyped, CurrentInv, NEW d \in Pages, NEW kinds \in Seq(Kinds), Load(d, kinds),
         NEW p \in Pages, UNCHANGED <<files, scans, heard, shown, stale>>
  PROVE  Current(p)'
<1>1. /\ Quiet(requests[p], requests'[p])
      /\ \A i \in DOMAIN requests[p] : i \in DOMAIN requests'[p] /\ requests'[p][i] = requests[p][i]
  BY LoadEffect DEF Quiet
<1>2. (Asking(p) => Asking(p)') /\ (Fresh(p) => Fresh(p)')
  BY <1>1, FreshLoad
<1> QED
  BY <1>2, CurrentCalm DEF CurrentInv

\* A notice of the latest scan makes the page ask again.
LEMMA CurrentReceive ==
  ASSUME PagesTyped, ToldInv, CurrentInv, NEW d \in Pages, Receive(d), NEW p \in Pages
  PROVE  Current(p)'
<1> DEFINE k == Head(inbox[d]).kind
<1>1. inbox[d] \in Seq(Notices) /\ inbox[d] # <<>>
  BY DEF Receive, PagesTyped
<1>2. Head(inbox[d]) \in Notices
  BY ONLY <1>1
<1>3. k \in Kinds /\ <<k>> \in Seq(Kinds) /\ Load(d, <<k>>)
      /\ UNCHANGED <<files, scans, shown, stale>>
  BY <1>2 DEF Notices, Receive, serverVars
<1> HIDE DEF k
<1>4. CASE p # d \/ k # "files"
  <2>1. heard'[p] = heard[p]
    BY <1>4, ToldReceive DEF k
  <2>2. /\ Quiet(requests[p], requests'[p])
        /\ \A i \in DOMAIN requests[p] : i \in DOMAIN requests'[p] /\ requests'[p][i] = requests[p][i]
    BY <1>3, LoadEffect DEF Quiet
  <2>3. (Asking(p) => Asking(p)') /\ (Fresh(p) => Fresh(p)')
    BY <1>3, <2>2, FreshLoad
  <2> QED
    BY <1>3, <2>1, <2>3, CurrentCalm DEF CurrentInv
<1>5. CASE p = d /\ k = "files"
  <2>1. heard'[p] = scans => files = scans
    BY <1>5, ToldReceive DEF k
  <2>2. DOMAIN <<k>> = {1} /\ <<k>>[1] = k
    OBVIOUS
  <2>5. \A i \in DOMAIN <<k>> : \E j \in DOMAIN requests'[p] :
           requests'[p][j].kind = <<k>>[i] /\ requests'[p][j].answer = Waiting
    BY <1>3, <1>5, LoadEffect
  <2>3. PICK j \in DOMAIN requests'[p] : requests'[p][j].kind = "files" /\ requests'[p][j].answer = Waiting
    BY <1>5, <2>2, <2>5
  <2>4. Asking(p)'
    BY <2>3 DEF Asking
  <2> QED
    BY <1>3, <2>1, <2>4 DEF Current
<1> QED
  BY <1>4, <1>5

\* While the latest scan is cached, a request for files is answered with it, and that
\* passes what was answered before.
LEMMA CurrentAnswer ==
  ASSUME PagesTyped, CurrentInv, NEW d \in Pages, Answer(d), NEW p \in Pages, heard' = heard
  PROVE  Current(p)'
<1>1. PICK i \in DOMAIN requests[d], x \in Requests : Answered(d, i, x)
  BY AnswerEffect
<1>2. UNCHANGED <<files, scans, shown, stale>> /\ Current(p)
  BY AnswerEffect DEF CurrentInv
<1>3. CASE p # d
  <2>1. requests'[p] = requests[p]
    BY <1>3, AnswerEffect
  <2> QED
    BY <1>2, <2>1, CurrentCalm DEF Asking, Fresh
<1>4. CASE p = d
  <2> DEFINE q == requests[p]
             r == requests'[p]
  <2>1. /\ Replies(q, i, x, r) /\ i \in DOMAIN q
        /\ x.kind = "files" /\ files # 0 => x.answer = files
    BY <1>1, <1>4 DEF Answered
  <2>2. /\ DOMAIN r = DOMAIN q /\ r[i] = x /\ x.kind = q[i].kind /\ ~x.passed
        /\ \A j \in DOMAIN q : j # i =>
             /\ r[j].kind = q[j].kind /\ r[j].answer = q[j].answer
             /\ IF HasResult(x) /\ q[j].kind = x.kind /\ HasResult(q[j]) THEN r[j].passed
                ELSE r[j] = q[j]
    BY <2>1 DEF Replies
  <2> SUFFICES ASSUME heard'[p] = scans', scans' > 0
               PROVE  files' = scans' /\ (Asking(p)' \/ Fresh(p)')
    BY DEF Current
  <2>3. files = scans /\ scans \in Nat /\ scans # 0 /\ (Asking(p) \/ Fresh(p))
    BY <1>2 DEF Current, PagesTyped
  <2>4. CASE x.kind = "files"
    <3>1. x.answer = scans /\ HasResult(x)
      BY <2>1, <2>3, <2>4, PanelsAnswers DEF HasResult
    <3>2. IsLast(r[i], "files")
      BY <2>2, <2>4, <3>1 DEF IsLast
    <3>3. \A j \in DOMAIN r : IsLast(r[j], "files") => j = i
      BY <2>2, <2>4, <3>1 DEF IsLast, HasResult
    <3>4. Fresh(p)'
      BY <1>2, <2>1, <2>2, <3>1, <3>2, <3>3 DEF Fresh
    <3> QED
      BY <1>2, <2>3, <3>4
  <2>5. CASE x.kind # "files"
    <3>1. \A j \in DOMAIN q : q[j].kind = "files" => j # i /\ r[j].kind = "files" /\ r[j] = q[j]
      BY <2>2, <2>5
    <3>2. \A j \in DOMAIN q : r[j].kind = "files" => q[j].kind = "files"
      BY <2>2, <2>5
    <3>3. Asking(p) => Asking(p)'
      BY <2>2, <3>1 DEF Asking
    <3>4. Fresh(p) => Fresh(p)'
      BY <1>2, <2>2, <3>1, <3>2 DEF Fresh, IsLast
    <3> QED
      BY <1>2, <2>3, <3>3, <3>4
  <2> QED
    BY <2>4, <2>5
<1> QED
  BY <1>3, <1>4

\* What is applied is the latest scan, or was passed, or leaves that scan coming.
LEMMA CurrentApply ==
  ASSUME PagesTyped, CurrentInv, NEW d \in Pages, Apply(d), NEW p \in Pages, heard' = heard
  PROVE  Current(p)'
<1>1. PICK i \in DOMAIN requests[d] : Applied(d, i)
  BY ApplyEffect
<1>2. UNCHANGED <<files, scans>> /\ Current(p)
  BY ApplyEffect DEF CurrentInv
<1>3. CASE p # d
  <2>1. requests'[p] = requests[p] /\ stale'[p] = stale[p] /\ shown'[p] = shown[p]
    BY <1>3, ApplyEffect
  <2> QED
    BY <1>2, <2>1, CurrentCalm DEF Asking, Fresh
<1>4. CASE p = d
  <2> DEFINE q == requests[p]
             r == requests'[p]
  <2>1. /\ q \in Seq(Requests) /\ i \in DOMAIN q /\ r = RemoveAt(q, i) /\ q[i].answer # Waiting
        /\ shown'[p]["files"] = IF q[i].kind = "files" /\ HasResult(q[i]) THEN q[i].answer
                                ELSE shown[p]["files"]
        /\ "files" \in stale'[p] <=> IF q[i].kind = "files" /\ HasResult(q[i]) THEN q[i].passed
                                     ELSE "files" \in stale[p]
    BY <1>1, <1>4 DEF Applied, PagesTyped, Kinds
  <2>2. /\ \A j \in DOMAIN r : \E l \in DOMAIN q \ {i} : r[j] = q[l]
        /\ \A l \in DOMAIN q \ {i} : \E j \in DOMAIN r : r[j] = q[l]
    BY <2>1, Moved
  <2>3. Asking(p) => Asking(p)'
    <3> SUFFICES ASSUME NEW l \in DOMAIN q, q[l].kind = "files", q[l].answer = Waiting
                 PROVE  \E j \in DOMAIN r : r[j].kind = "files" /\ r[j].answer = Waiting
      BY DEF Asking
    <3>1. l \in DOMAIN q \ {i}
      BY <2>1
    <3> QED
      BY <2>2, <3>1
  <2>4. ASSUME Fresh(p)
        PROVE  Fresh(p)'
    <3>1. \A j \in DOMAIN r : IsLast(r[j], "files") => r[j].answer = scans
      BY <2>2, <2>4 DEF Fresh
    <3>2. CASE q[i].kind = "files" /\ HasResult(q[i])
      <4>1. "files" \in stale'[p] \/ shown'[p]["files"] = scans
        BY <2>1, <2>4, <3>2 DEF Fresh, IsLast
      <4> QED
        BY <1>2, <3>1, <4>1 DEF Fresh
    <3>3. CASE ~(q[i].kind = "files" /\ HasResult(q[i]))
      <4>1. ("files" \in stale'[p] <=> "files" \in stale[p])
            /\ shown'[p]["files"] = shown[p]["files"]
        BY <2>1, <3>3
      <4>2. (\E l \in DOMAIN q : IsLast(q[l], "files")) => \E j \in DOMAIN r : IsLast(r[j], "files")
        <5> SUFFICES ASSUME NEW l \in DOMAIN q, IsLast(q[l], "files")
                     PROVE  \E j \in DOMAIN r : IsLast(r[j], "files")
          OBVIOUS
        <5>1. l \in DOMAIN q \ {i}
          BY <3>3 DEF IsLast
        <5> QED
          BY <2>2, <5>1
      <4> QED
        BY <1>2, <2>4, <3>1, <4>1, <4>2 DEF Fresh
    <3> QED
      BY <3>2, <3>3
  <2> QED
    BY <1>2, <2>3, <2>4, CurrentCalm
<1> QED
  BY <1>3, <1>4

\* No step takes the latest scan from a page that was told of it.
LEMMA CurrentStep ==
  ASSUME PagesTyped, ToldInv, CurrentInv, [PanelsNext]_panelsVars, NEW p \in Pages
  PROVE  Current(p)'
<1> USE DEF serverVars, streamVars, panelVars
<1>1. ASSUME UNCHANGED <<files, scans, heard, requests, shown, stale>>
      PROVE  Current(p)'
  BY <1>1, CurrentCalm DEF Asking, Fresh, CurrentInv
<1>2. CASE Scan
  BY <1>2 DEF Scan, ToldInv, Told, Current, PagesTyped
<1>3. CASE Store
  <2>1. files' = scans /\ UNCHANGED <<scans, heard, requests, shown, stale>>
    BY <1>3 DEF Store
  <2> QED
    BY <2>1 DEF Current, CurrentInv, Asking, Fresh
<1>4. CASE Restart
  <2>1. heard'[p] = 0
    BY <1>4 DEF Restart
  <2> QED
    BY <2>1 DEF Current
<1>5. CASE ScanFails \/ NotifyFiles \/ NotifyZFS \/ PoolChanges
  BY <1>1, <1>5 DEF ScanFails, NotifyFiles, NotifyZFS, PoolChanges, panelsVars
<1>6. <<"files", "zfs">> \in Seq(Kinds) /\ \A kind \in Kinds : <<kind>> \in Seq(Kinds)
  BY DEF Kinds
<1>7. ASSUME NEW d \in Pages, Open(d)
      PROVE  Current(p)'
  BY <1>6, <1>7, CurrentLoad DEF Open
<1>8. ASSUME NEW d \in Pages, NEW kind \in Kinds, Click(d, kind)
      PROVE  Current(p)'
  BY <1>6, <1>8, CurrentLoad DEF Click
<1>9. ASSUME NEW d \in Pages, Connect(d) \/ Lose(d) \/ HandlerEnds(d)
      PROVE  Current(p)'
  BY <1>1, <1>9 DEF Connect, Lose, HandlerEnds
<1>10. ASSUME NEW d \in Pages, Answer(d) \/ Apply(d)
       PROVE  Current(p)'
  <2>1. heard' = heard
    BY <1>10 DEF Answer, Apply
  <2> QED
    BY <1>10, <2>1, CurrentAnswer, CurrentApply
<1>11. CASE UNCHANGED panelsVars
  BY <1>1, <1>11 DEF panelsVars
<1> QED
  BY <1>2, <1>3, <1>4, <1>5, <1>7, <1>8, <1>9, <1>10, <1>11, CurrentReceive
     DEF PanelsNext, Page, Server

\* A page that handled the notice of the latest scan and has nothing in flight shows it,
\* unless its last answer had been passed: for all pages, scans, refreshes and faults.
THEOREM QuietCorrect == PanelsSpec => []QuietMeansCurrent
<1> DEFINE Inv == PagesTyped /\ ToldInv /\ CurrentInv
<1>1. PanelsInit => Inv
  <2> SUFFICES ASSUME PanelsInit
               PROVE  Inv
    OBVIOUS
  <2>1. PagesTyped
    BY PanelsTypedInit
  <2>2. /\ heard \in [Pages -> Nat] /\ stage = "idle" /\ scans = 0
        /\ \A p \in Pages : heard[p] = 0 /\ DOMAIN inbox[p] = {}
    BY DEF PanelsInit
  <2>3. ToldInv /\ CurrentInv
    BY <2>2 DEF ToldInv, Told, CurrentInv, Current
  <2> QED
    BY <2>1, <2>3
<1>2. Inv /\ [PanelsNext]_panelsVars => Inv'
  BY TypedStep, ToldStep, CurrentStep DEF CurrentInv
<1>3. Inv => QuietMeansCurrent
  BY DEF CurrentInv, Current, Asking, Fresh, IsLast, InFlight, QuietMeansCurrent
<1> QED
  BY <1>1, <1>2, <1>3, PTL DEF PanelsSpec

-----------------------------------------------------------------------------
(* The slots of the broker, and the bounds *)

\* The bounds that PanelsTypeOK has on what is counted.
BoundsInv ==
  /\ scans <= MaxScans /\ pool <= MaxChanges + 1 /\ ticks \in 0..MaxTicks
  /\ stage \in {"idle", "store", "notify"} /\ faults \subseteq Faults
  /\ clicks \in [Pages -> 0..MaxClicks]

\* A page whose stream is open has a handler, which alone fills its inbox, and there
\* are no more handlers than slots.
StreamsInv ==
  /\ handlers \in [Pages -> Nat] /\ Slots <= MaxClients
  /\ \A p \in Pages : (es[p] = "open" => handlers[p] > 0) /\ (inbox[p] # <<>> => es[p] = "open")

\* No step counts past its bound.
LEMMA BoundsStep ==
  ASSUME PagesTyped, BoundsInv, [PanelsNext]_panelsVars
  PROVE  BoundsInv'
<1> USE PanelsBounds DEF serverVars, streamVars, panelVars, BoundsInv, PagesTyped
<1>1. CASE Scan
  BY <1>1 DEF Scan, StageAfter
<1>2. CASE Store
  BY <1>2 DEF Store, StageAfter
<1>3. CASE NotifyFiles
  BY <1>3 DEF NotifyFiles, StageAfter
<1>4. CASE NotifyZFS
  BY <1>4 DEF NotifyZFS
<1>5. CASE PoolChanges
  BY <1>5 DEF PoolChanges
<1>6. CASE Restart
  BY <1>6 DEF Restart, Fault, Faults
<1>7. ASSUME NEW p \in Pages, Connect(p) \/ HandlerEnds(p) \/ Receive(p) \/ Open(p) \/ Apply(p)
      PROVE  BoundsInv'
  BY <1>7 DEF Connect, HandlerEnds, Receive, Open, Apply
<1>8. ASSUME NEW p \in Pages, Lose(p)
      PROVE  BoundsInv'
  BY <1>8 DEF Lose, Fault, Faults
<1>9. ASSUME NEW p \in Pages, Answer(p)
      PROVE  BoundsInv'
  BY <1>9 DEF Answer, HandleZFS, Fault, Faults
<1>10. ASSUME NEW p \in Pages, NEW kind \in Kinds, Click(p, kind)
       PROVE  BoundsInv'
  BY <1>10 DEF Click
<1>11. CASE ScanFails \/ UNCHANGED panelsVars
  BY <1>11 DEF ScanFails, panelsVars
<1> QED
  BY <1>1, <1>2, <1>3, <1>4, <1>5, <1>6, <1>7, <1>8, <1>9, <1>10, <1>11
     DEF PanelsNext, Page, Server

\* The count of slots follows the handlers of the page that changes.
LEMMA SlotsChange ==
  ASSUME handlers \in [Pages -> Nat], NEW p \in Pages, NEW n \in Nat,
         handlers' = [handlers EXCEPT ![p] = n]
  PROVE  /\ handlers' \in [Pages -> Nat] /\ Slots \in Nat
         /\ Slots' = Slots + n - handlers[p]
<1> DEFINE g == handlers
           h == [handlers EXCEPT ![p] = n]
<1>1. /\ IsFiniteSet(Pages) /\ \A x \in Pages : g[x] \in Int
      /\ \A x \in Pages \ {p} : h[x] = g[x]
      /\ h[p] = n /\ h[p] \in Int
  BY PanelsBounds
<1>2. \A x \in Pages : g[x] \in Nat
  OBVIOUS
<1> HIDE DEF g, h
<1>3. SumFunctionOnSet(h, Pages) = SumFunctionOnSet(g, Pages) + h[p] - g[p]
  BY <1>1, SumChanges
<1>4. SumFunctionOnSet(g, Pages) \in Nat
  BY <1>1, <1>2, SumNat
<1>5. Slots = SumFunctionOnSet(g, Pages) /\ Slots' = SumFunctionOnSet(h, Pages)
  BY DEF Slots, g, h
<1> QED
  BY <1>1, <1>3, <1>4, <1>5 DEF g

\* There are no slots in use where there are no handlers.
LEMMA SlotsNone ==
  ASSUME NEW h, h = [p \in Pages |-> 0]
  PROVE  SumFunctionOnSet(h, Pages) = 0
<1> QED
  BY PanelsBounds, SumZero

\* A slot is taken only while one is free, and given back by the handler that had it.
LEMMA StreamsStep ==
  ASSUME PagesTyped, StreamsInv, [PanelsNext]_panelsVars
  PROVE  StreamsInv'
<1> USE DEF serverVars, streamVars, panelVars
<1>1. ASSUME UNCHANGED <<handlers, es, inbox>>
      PROVE  StreamsInv'
  BY <1>1 DEF StreamsInv, Slots
<1>2. CASE Scan \/ ScanFails \/ Store \/ PoolChanges
  BY <1>1, <1>2 DEF Scan, ScanFails, Store, PoolChanges, panelsVars
<1>3. CASE NotifyFiles \/ NotifyZFS
  <2>1. /\ UNCHANGED <<handlers, es>>
        /\ \A p \in Pages : inbox'[p] = inbox[p] \/ es[p] = "open"
    BY <1>3 DEF NotifyFiles, NotifyZFS, Broadcast
  <2> QED
    BY <2>1 DEF StreamsInv, Slots
<1>4. CASE Restart
  <2>1. /\ handlers' = [p \in Pages |-> 0] /\ inbox' = [p \in Pages |-> <<>>]
        /\ \A p \in Pages : es'[p] # "open"
    BY <1>4 DEF Restart, PagesTyped
  <2>2. Slots' = 0
    BY <2>1, SlotsNone DEF Slots
  <2> QED
    BY <2>1, <2>2, PanelsBounds DEF StreamsInv
<1>5. ASSUME NEW p \in Pages, Connect(p)
      PROVE  StreamsInv'
  <2>1. es[p] = "connecting" /\ inbox' = inbox /\ inbox[p] = <<>>
    BY <1>5 DEF Connect, StreamsInv
  <2>2. CASE Slots < MaxClients /\ es' = [es EXCEPT ![p] = "open"]
             /\ handlers' = [handlers EXCEPT ![p] = @ + 1]
    <3>1. handlers[p] + 1 \in Nat /\ handlers[p] \in Nat /\ handlers \in [Pages -> Nat]
      BY DEF StreamsInv
    <3>2. handlers' \in [Pages -> Nat] /\ Slots \in Nat
          /\ Slots' = Slots + (handlers[p] + 1) - handlers[p]
      BY <2>2, <3>1, SlotsChange
    <3>3. Slots' <= MaxClients
      BY <2>2, <3>1, <3>2, PanelsBounds
    <3>4. \A d \in Pages : IF d = p THEN handlers'[d] > 0
                           ELSE es'[d] = es[d] /\ handlers'[d] = handlers[d]
      BY <2>2, <3>1 DEF PagesTyped
    <3> QED
      BY <2>1, <3>2, <3>3, <3>4 DEF StreamsInv
  <2>3. CASE es' = [es EXCEPT ![p] = "closed"] /\ UNCHANGED handlers
    BY <2>1, <2>3 DEF StreamsInv, Slots, PagesTyped
  <2> QED
    BY <1>5, <2>2, <2>3 DEF Connect
<1>6. ASSUME NEW p \in Pages, HandlerEnds(p)
      PROVE  StreamsInv'
  <2>1. /\ handlers[p] \in Nat /\ handlers[p] > 0 /\ (es[p] = "open" => handlers[p] > 1)
        /\ handlers' = [handlers EXCEPT ![p] = @ - 1] /\ UNCHANGED <<es, inbox>>
    BY <1>6 DEF HandlerEnds, StreamsInv
  <2>2. PICK n \in Nat : n = handlers[p] - 1 /\ (es[p] = "open" => n > 0)
    BY <2>1
  <2>3. handlers' = [handlers EXCEPT ![p] = n]
    BY <2>1, <2>2
  <2>4. handlers' \in [Pages -> Nat] /\ Slots \in Nat /\ Slots' = Slots + n - handlers[p]
    BY <2>3, SlotsChange DEF StreamsInv
  <2>5. Slots' <= MaxClients
    BY <2>1, <2>2, <2>4, PanelsBounds DEF StreamsInv
  <2>6. \A d \in Pages : es[d] = "open" => handlers'[d] > 0
    BY <2>2, <2>3 DEF StreamsInv
  <2> QED
    BY <2>1, <2>4, <2>5, <2>6 DEF StreamsInv
<1>7. ASSUME NEW p \in Pages, Lose(p)
      PROVE  StreamsInv'
  BY <1>7 DEF Lose, StreamsInv, Slots, PagesTyped
<1>8. ASSUME NEW p \in Pages, Receive(p)
      PROVE  StreamsInv'
  <2>1. \A d \in Pages : inbox'[d] = inbox[d] \/ inbox[d] # <<>>
    BY <1>8 DEF Receive, PagesTyped
  <2> QED
    BY <1>8, <2>1 DEF Receive, StreamsInv, Slots
<1>9. ASSUME NEW p \in Pages, Open(p)
      PROVE  StreamsInv'
  BY <1>9 DEF Open, StreamsInv, Slots, PagesTyped
<1>10. ASSUME NEW p \in Pages, Answer(p) \/ Apply(p) \/ \E kind \in Kinds : Click(p, kind)
       PROVE  StreamsInv'
  BY <1>1, <1>10 DEF Answer, Apply, Click
<1>11. CASE UNCHANGED panelsVars
  BY <1>1, <1>11 DEF panelsVars
<1> QED
  BY <1>2, <1>3, <1>4, <1>5, <1>6, <1>7, <1>8, <1>9, <1>10, <1>11
     DEF PanelsNext, Page, Server

\* The cap of the broker holds on the handlers of each page, as on all.
LEMMA SlotsOfPage ==
  ASSUME StreamsInv
  PROVE  handlers \in [Pages -> 0..MaxClients]
<1>1. \A p \in Pages : handlers[p] \in Nat
  BY DEF StreamsInv
<1>2. \A p \in Pages : handlers[p] <= SumFunctionOnSet(handlers, Pages)
  BY <1>1, PanelsBounds, SumNat
<1>3. SumFunctionOnSet(handlers, Pages) \in Nat
  BY <1>1, PanelsBounds, SumNat
<1>4. \A p \in Pages : handlers[p] \in 0..MaxClients
  BY <1>1, <1>2, <1>3, PanelsBounds DEF StreamsInv, Slots
<1> QED
  BY <1>4 DEF StreamsInv

\* Every variable keeps its type: among them, no more streams hold slots than the broker
\* has, a page that counts as connected has one, and notices reach only such a page.
THEOREM PanelsTypeCorrect == PanelsSpec => []PanelsTypeOK
<1> DEFINE Inv == PagesTyped /\ ToldInv /\ BoundsInv /\ StreamsInv
<1>1. PanelsInit => Inv
  <2> SUFFICES ASSUME PanelsInit
               PROVE  Inv
    OBVIOUS
  <2>1. PagesTyped
    BY PanelsTypedInit
  <2>2. /\ heard \in [Pages -> Nat] /\ stage = "idle" /\ scans = 0
        /\ \A p \in Pages : heard[p] = 0 /\ DOMAIN inbox[p] = {}
    BY DEF PanelsInit
  <2>3. ToldInv
    BY <2>2 DEF ToldInv, Told
  <2>4. BoundsInv
    BY PanelsBounds DEF PanelsInit, BoundsInv
  <2>5. /\ handlers = [p \in Pages |-> 0]
        /\ \A p \in Pages : es[p] = "absent" /\ inbox[p] = <<>> /\ handlers[p] = 0
    BY DEF PanelsInit
  <2>6. Slots = 0
    BY <2>5, SlotsNone DEF Slots
  <2>7. StreamsInv
    BY <2>5, <2>6, PanelsBounds DEF StreamsInv
  <2> QED
    BY <2>1, <2>3, <2>4, <2>7
<1>2. Inv /\ [PanelsNext]_panelsVars => Inv'
  BY TypedStep, ToldStep, BoundsStep, StreamsStep
<1>3. Inv => PanelsTypeOK
  <2> SUFFICES ASSUME Inv
               PROVE  PanelsTypeOK
    OBVIOUS
  <2>1. handlers \in [Pages -> 0..MaxClients] /\ Slots <= MaxClients
    BY SlotsOfPage DEF StreamsInv
  <2>2. heard \in [Pages -> 0..MaxScans]
    <3>1. \A p \in Pages : heard[p] \in 0..MaxScans
      BY PanelsBounds DEF ToldInv, Told, BoundsInv, PagesTyped
    <3> QED
      BY <3>1 DEF ToldInv
  <2>3. /\ files \in 0..scans /\ scans \in 0..MaxScans /\ pool \in 1..MaxChanges + 1
        /\ ticks \in 0..MaxTicks /\ stage \in {"idle", "store", "notify"}
        /\ faults \subseteq Faults /\ clicks \in [Pages -> 0..MaxClicks]
    BY PanelsBounds DEF BoundsInv, PagesTyped
  <2>4. \A p \in Pages :
          /\ es[p] = "open" => handlers[p] > 0
          /\ inbox[p] # <<>> => es[p] = "open"
          /\ inbox[p] \in Seq([kind : Kinds, version : Nat])
          /\ requests[p] \in Seq([kind : Kinds, answer : {Waiting, Error} \cup Nat, passed : BOOLEAN])
    BY DEF StreamsInv, PagesTyped, Requests, Notices
  <2> QED
    BY <2>1, <2>2, <2>3, <2>4 DEF PanelsTypeOK, PagesTyped
<1> QED
  BY <1>1, <1>2, <1>3, PTL DEF PanelsSpec

=============================================================================
