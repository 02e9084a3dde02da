---------------------------- MODULE EventsProofs ----------------------------
(* Proofs about Events for every number of connections and sources, cap,   *)
(* buffer, window and number of collections and refreshes.                 *)
EXTENDS Events, BrokerProofs, FiniteProofs

\* The message of the latest collection, on its way to c or still owed to it.
IsUpdate(m, v) == m.src = Smart /\ m.seq = v
Coming(c) == Unsettled(c) \/ \E i \in DOMAIN queue[c] : IsUpdate(queue[c][i], cache)
UpToDate(c, v) == v = cache \/ Coming(c)

\* The points of a page: none is drawn before its reading was taken.
Charts == Seq({p \in Point : p.of <= p.ts})

\* The stages of collectSmart: the call of Broadcast for a collection is the last, and
\* there is no reading of version 0.
CollectInv ==
  /\ cache \in Versions
  /\ rows \subseteq 1..MaxBroadcasts
  /\ smartPc \in {"wait", "insert", "prune", "publish"}
  /\ smartPc = "wait" => sent[Smart] = cache
  /\ smartPc # "wait" => sent[Smart] + 1 = cache /\ srcPc[Smart] = "idle"

\* What EventsTypeOK says of the page but for its chart, and that the history of an
\* answer is such a chart.
Answers == [stage : {"none", "disks", "sent", "shown"}, disks : Versions, history : Charts]
PageTyped ==
  /\ phase \in [Conns -> {"start", "read", "stream"}]
  /\ disks \in [Conns -> Versions]
  /\ view \in [Conns -> Versions]
  /\ snap \in [Conns -> Versions]
  /\ stale \subseteq Conns
  /\ asked \in [Conns -> 0..MaxRefreshes]
  /\ fresh \in [Conns -> SUBSET Refreshes]
  /\ answer \in [Conns -> [Refreshes -> Answers]]

\* A handler is past Register before it reads the snapshot, and its channel is
\* empty until then.
HandlerInv ==
  \A c \in Conns :
    /\ phase[c] # "start" => connPc[c] \notin {"new", "over", "adding", "refused"}
    /\ connPc[c] \in {"new", "over", "adding"} => queue[c] = <<>>

\* An older message in a channel has the latest one behind it.
QueueInv(c) ==
  \A i \in DOMAIN queue[c] :
    queue[c][i].src = Smart /\ queue[c][i].seq # cache =>
      Unsettled(c) \/ \E j \in DOMAIN queue[c] : j > i /\ IsUpdate(queue[c][j], cache)

\* Whatever the page of a client shows or is about to show is the latest collection,
\* or that is coming; what a refresh has read counts until an event is shown.
HasRead(c, v) == \E r \in fresh[c] : answer[c][r].disks = v
Shown(c) ==
  /\ QueueInv(c)
  /\ phase[c] = "read" => UpToDate(c, disks[c])
  /\ phase[c] = "stream" /\ c \notin stale => UpToDate(c, view[c])
  /\ phase[c] = "stream" => \A v : HasRead(c, v) => UpToDate(c, v)
ShownInv == \A c \in clients : Shown(c)

BaseInv == IInv /\ RoundInv /\ CollectInv /\ PageTyped /\ HandlerInv

-----------------------------------------------------------------------------
(* Events and the broker *)

\* Every step of the live stream is a step of the broker or leaves it alone.
LEMMA BrokerStep ==
  ASSUME [EventsNext]_eventVars
  PROVE  [Next]_vars
<1>1. ASSUME NEW c \in Conns, Handler(c)
      PROVE  ConnStep(c) \/ UNCHANGED vars
  BY <1>1 DEF Handler, Call, ReadDisks, SendInit, Forward, EndStream, ConnStep
<1>2. ASSUME NEW c \in Conns, Refresh(c)
      PROVE  UNCHANGED vars
  BY <1>2 DEF Refresh, AskHardware, AnswerHardware, ShowHardware
<1>3. ASSUME NEW s \in Sources, Fan(s)
      PROVE  SourceStep(s)
  BY <1>3 DEF Fan
<1>4. ASSUME Poll
      PROVE  SourceStep(Smart) \/ UNCHANGED vars
  BY <1>4 DEF Poll, SmartCache, SmartInsert, SmartPrune, SmartBroadcast, SourceStep
<1>5. CASE EventsHalted
  BY <1>5 DEF EventsHalted, Next
<1>6. CASE UNCHANGED eventVars
  BY <1>6 DEF eventVars
<1> QED
  BY <1>1, <1>2, <1>3, <1>4, <1>5, <1>6, SmartAssumption DEF EventsNext, Next

\* The broker under the live stream is the broker: its theorems hold in Events, for
\* the SMART poller and the handlers only call it.
THEOREM ImplementsBroker == EventsSpec => Spec
<1>1. EventsInit => Init
  BY DEF EventsInit
<1>2. [EventsNext]_eventVars => [Next]_vars
  BY BrokerStep
<1> QED
  BY <1>1, <1>2, PTL DEF EventsSpec, Spec

-----------------------------------------------------------------------------
(* What a step does to one channel *)

\* A registered client's channel is open.
LEMMA RegisteredOpen ==
  ASSUME TypeOK, ChannelLifecycle, NEW c \in clients
  PROVE  c \in Conns /\ c \notin closed /\ connPc[c] \in {"in", "exit"}
BY DEF TypeOK, ChannelLifecycle

\* A handler's call changes no channel but for its receive, and adds at most itself.
LEMMA CallEffect ==
  ASSUME TypeOK, NEW d \in Conns, Call(d) \/ EndStream(d), NEW c \in Conns
  PROVE  /\ UNCHANGED <<queue, todo, slow, srcPc, sent, cache, smartPc>>
         /\ c \in clients' => c \in clients \/ (RegisterInsert(c) /\ c = d)
<1>1. CASE RegisterInsert(d)
  BY <1>1 DEF TypeOK, Call, EndStream, RegisterInsert, srcVars, pollVars
<1>2. CASE ~RegisterInsert(d)
  BY <1>2 DEF Call, EndStream, RegisterCount, RegisterUndo, Return, UnregisterGone,
     UnregisterClose, UnregisterDone, Close, srcVars, pollVars
<1> QED
  BY <1>1, <1>2

\* Nothing happens to a client that stays, or its channel is given the message.
OwedTo(c) == c \in todo[Smart] \cup slow[Smart]
GivenTo(s, c) ==
  \/ queue'[c] = queue[c] /\ (OwedTo(c) => OwedTo(c)')
  \/ /\ queue'[c] = Append(queue[c], [src |-> s, seq |-> sent[s]])
     /\ srcPc[s] = "send"
     /\ s # Smart => (OwedTo(c) => OwedTo(c)')

\* What a step of a Broadcast does to a client that stays.
LEMMA FanEffect ==
  ASSUME TypeOK, ChannelLifecycle, NEW s \in Sources, SourceStep(s),
         s = Smart => srcPc[s] # "idle", NEW c \in clients'
  PROVE  c \in clients /\ GivenTo(s, c)
<1> USE SmartAssumption DEF TypeOK, AtSrc
<1>1. CASE Broadcast(s)
  BY <1>1 DEF Broadcast, GivenTo, OwedTo
<1>2. CASE SendsDone(s) \/ DropLock(s) \/ DropCount(s) \/ DropUnlock(s)
  BY <1>2 DEF SendsDone, DropLock, DropCount, DropUnlock, GivenTo, OwedTo
<1>3. ASSUME NEW d \in Conns, Send(s, d)
      PROVE  c \in clients /\ GivenTo(s, c)
  <2>1. c \in clients /\ todo' = [todo EXCEPT ![s] = @ \ {d}] /\ srcPc[s] = "send"
    BY <1>3 DEF Send
  <2>2. CASE SendOk(s, d)
    BY <2>1, <2>2 DEF SendOk, GivenTo, OwedTo
  <2>3. CASE SendFull(s, d)
    BY <2>1, <2>3 DEF SendFull, GivenTo, OwedTo
  <2>4. CASE SendClosed(d)
    <3>1. c # d
      BY <2>1, <2>4, RegisteredOpen DEF SendClosed
    <3> QED
      BY <2>1, <2>4, <3>1 DEF SendClosed, GivenTo, OwedTo
  <2> QED
    BY <1>3, <2>2, <2>3, <2>4 DEF Send
<1>4. ASSUME NEW d \in Conns, Drop(s, d)
      PROVE  c \in clients /\ GivenTo(s, c)
  <2>1. c \in clients /\ c # d
    BY <1>4 DEF Drop, Close
  <2> QED
    BY <1>4, <2>1 DEF Drop, GivenTo, OwedTo
<1> QED
  BY <1>1, <1>2, <1>3, <1>4, Zenon DEF SourceStep

\* A message is appended behind those that are there.
LEMMA Pushed ==
  ASSUME NEW q \in Seq(Message), NEW m
  PROVE  /\ DOMAIN Append(q, m) = 1..Len(q) + 1
         /\ \A i \in DOMAIN q : i \in 1..Len(q) /\ Append(q, m)[i] = q[i]
         /\ Append(q, m)[Len(q) + 1] = m
         /\ Len(q) \in Nat
OBVIOUS

\* What is left after a receive has moved up by one.
LEMMA Popped ==
  ASSUME NEW q \in Seq(Message), q # <<>>
  PROVE  /\ DOMAIN q = 1..Len(q) /\ Len(q) \in Nat \ {0} /\ Head(q) = q[1]
         /\ DOMAIN Tail(q) = 1..Len(q) - 1
         /\ \A i \in 1..Len(q) - 1 : Tail(q)[i] = q[i + 1]
OBVIOUS

-----------------------------------------------------------------------------
(* What is up to date stays so *)

\* A client that is owed the message of the collection under way is unsettled.
LEMMA Pending ==
  ASSUME NEW c, smartPc # "wait" \/ OwedTo(c)
  PROVE  QueueInv(c) /\ \A v : UpToDate(c, v)
BY DEF OwedTo, QueueInv, UpToDate, Coming, Unsettled

\* A step that does not touch the channel of c leaves c as it is.
LEMMA KeptCalm ==
  ASSUME NEW c, queue'[c] = queue[c], UNCHANGED <<cache, smartPc>>, OwedTo(c) => OwedTo(c)'
  PROVE  /\ QueueInv(c) => QueueInv(c)'
         /\ \A v : UpToDate(c, v) => UpToDate(c, v)'
BY DEF QueueInv, UpToDate, Coming, Unsettled, OwedTo, IsUpdate

\* A message given to c settles it if it is the latest, and hides no other.
LEMMA KeptPush ==
  ASSUME BaseInv, NEW s \in Sources, NEW c \in Conns, UNCHANGED <<cache, smartPc>>,
         queue'[c] = Append(queue[c], [src |-> s, seq |-> sent[s]]),
         srcPc[s] = "send", s # Smart => (OwedTo(c) => OwedTo(c)')
  PROVE  /\ QueueInv(c) => QueueInv(c)'
         /\ \A v : UpToDate(c, v) => UpToDate(c, v)'
<1> DEFINE m == [src |-> s, seq |-> sent[s]]
           q == queue[c]
<1>1. q \in Seq(Message)
  BY DEF BaseInv, IInv, TypeOK
<1>2. /\ DOMAIN queue'[c] = 1..Len(q) + 1 /\ Len(q) \in Nat /\ DOMAIN q = 1..Len(q)
      /\ \A i \in DOMAIN q : queue'[c][i] = q[i]
      /\ queue'[c][Len(q) + 1] = m
  BY <1>1, Pushed
<1>3. CASE s = Smart
  <2>1. smartPc = "wait" /\ sent[s] = cache
    BY <1>3 DEF BaseInv, CollectInv
  <2>2. Len(q) + 1 \in DOMAIN queue'[c] /\ IsUpdate(queue'[c][Len(q) + 1], cache)
    BY <1>2, <1>3, <2>1 DEF IsUpdate
  <2>3. \A v : UpToDate(c, v)'
    BY <2>2 DEF UpToDate, Coming
  <2>4. \A i \in DOMAIN queue'[c] : i < Len(q) + 1 \/ i = Len(q) + 1
    BY <1>2
  <2>5. \A i \in DOMAIN queue'[c] :
          queue'[c][i].seq # cache => \E j \in DOMAIN queue'[c] : j > i /\ IsUpdate(queue'[c][j], cache)
    <3> SUFFICES ASSUME NEW i \in DOMAIN queue'[c], queue'[c][i].seq # cache
                 PROVE  Len(q) + 1 > i
      BY <2>2
    <3>1. i # Len(q) + 1
      BY <1>2, <2>1
    <3> QED
      BY <1>2, <3>1
  <2>6. QueueInv(c)'
    BY <2>5 DEF QueueInv, IsUpdate
  <2> QED
    BY <2>3, <2>6
<1>4. CASE s # Smart
  <2>1. OwedTo(c) => OwedTo(c)'
    BY <1>4
  <2>2. \A i \in DOMAIN q : i \in DOMAIN queue'[c] /\ (IsUpdate(q[i], cache) => IsUpdate(queue'[c][i], cache))
    BY <1>2 DEF IsUpdate
  <2>3. Unsettled(c) => Unsettled(c)'
    BY <2>1 DEF Unsettled, OwedTo
  <2>4. \A v : UpToDate(c, v) => UpToDate(c, v)'
    BY <2>2, <2>3 DEF UpToDate, Coming
  <2>5. ASSUME QueueInv(c), NEW i \in DOMAIN queue'[c],
               queue'[c][i].src = Smart, queue'[c][i].seq # cache
        PROVE  Unsettled(c)' \/ \E j \in DOMAIN queue'[c] : j > i /\ IsUpdate(queue'[c][j], cache)
    <3>1. i # Len(q) + 1
      BY <1>2, <1>4, <2>5
    <3>2. i \in DOMAIN q /\ q[i].src = Smart /\ q[i].seq # cache
      BY <1>2, <2>5, <3>1
    <3>3. Unsettled(c) \/ \E j \in DOMAIN q : j > i /\ IsUpdate(q[j], cache)
      BY <2>5, <3>2 DEF QueueInv
    <3> QED
      BY <2>2, <2>3, <3>3
  <2>6. QueueInv(c) => QueueInv(c)'
    BY <2>5 DEF QueueInv, IsUpdate
  <2> QED
    BY <2>4, <2>6
<1> QED
  BY <1>3, <1>4

\* A message received that is not the latest has the latest behind it.
LEMMA KeptPop ==
  ASSUME BaseInv, NEW c \in Conns, Recv(c), UNCHANGED <<cache, smartPc>>, QueueInv(c)
  PROVE  /\ QueueInv(c)'
         /\ Head(queue[c]).src = Smart => \A v : v = Head(queue[c]).seq => UpToDate(c, v)'
         /\ Head(queue[c]).src # Smart => \A v : UpToDate(c, v) => UpToDate(c, v)'
<1> DEFINE q == queue[c]
           r == queue'[c]
<1>1. q \in Seq(Message) /\ q # <<>> /\ r = Tail(q) /\ UNCHANGED srcVars
  BY DEF BaseInv, IInv, TypeOK, Recv
<1>2. /\ DOMAIN q = 1..Len(q) /\ Len(q) \in Nat \ {0} /\ Head(q) = q[1]
      /\ DOMAIN r = 1..Len(q) - 1
      /\ \A i \in 1..Len(q) - 1 : r[i] = q[i + 1]
  BY <1>1, Popped
<1>3. Unsettled(c) => Unsettled(c)'
  BY <1>1 DEF srcVars, Unsettled
<1> HIDE DEF q, r
<1>4. ASSUME NEW j \in DOMAIN q, j > 1, IsUpdate(q[j], cache)
      PROVE  j - 1 \in DOMAIN r /\ IsUpdate(r[j - 1], cache)
  <2>1. j - 1 \in 1..Len(q) - 1 /\ (j - 1) + 1 = j
    BY <1>2, <1>4
  <2>2. r[j - 1] = q[j]
    BY <1>2, <2>1
  <2> QED
    BY <1>2, <1>4, <2>1, <2>2 DEF IsUpdate
<1>5. ASSUME NEW i \in DOMAIN r, r[i].src = Smart, r[i].seq # cache
      PROVE  Unsettled(c)' \/ \E j \in DOMAIN r : j > i /\ IsUpdate(r[j], cache)
  <2>1. i \in Nat /\ i >= 1 /\ i + 1 \in DOMAIN q /\ r[i] = q[i + 1]
    BY <1>2, <1>5
  <2>2. Unsettled(c) \/ \E j \in DOMAIN q : j > i + 1 /\ IsUpdate(q[j], cache)
    BY <1>5, <2>1 DEF QueueInv, q
  <2>3. ASSUME NEW j \in DOMAIN q, j > i + 1, IsUpdate(q[j], cache)
        PROVE  j - 1 \in DOMAIN r /\ j - 1 > i /\ IsUpdate(r[j - 1], cache)
    <3>1. j \in Nat /\ j > 1 /\ j - 1 > i
      BY <1>2, <2>1, <2>3
    <3> QED
      BY <1>4, <2>3, <3>1
  <2> QED
    BY <1>3, <2>2, <2>3
<1>6. QueueInv(c)'
  BY <1>5 DEF QueueInv, IsUpdate, r
<1>7. 1 \in DOMAIN q
  BY <1>2
<1>8. ASSUME q[1].src = Smart, NEW v, v = q[1].seq
      PROVE  UpToDate(c, v)'
  <2>1. CASE v = cache
    BY <2>1 DEF UpToDate
  <2>2. CASE v # cache
    <3>1. Unsettled(c) \/ \E j \in DOMAIN q : j > 1 /\ IsUpdate(q[j], cache)
      BY <1>7, <1>8, <2>2 DEF QueueInv, q
    <3> QED
      BY <1>3, <1>4, <3>1 DEF UpToDate, Coming, r
  <2> QED
    BY <2>1, <2>2
<1>9. ASSUME q[1].src # Smart, NEW v, UpToDate(c, v)
      PROVE  UpToDate(c, v)'
  <2>1. \A j \in DOMAIN q : IsUpdate(q[j], cache) => j > 1
    BY <1>2, <1>9 DEF IsUpdate
  <2>2. (\E j \in DOMAIN q : IsUpdate(q[j], cache)) => \E j \in DOMAIN r : IsUpdate(r[j], cache)
    BY <1>4, <2>1
  <2> QED
    BY <1>3, <1>9, <2>2 DEF UpToDate, Coming, q, r
<1>10. Head(q) = q[1]
  BY <1>2
<1> QED
  BY <1>6, <1>8, <1>9, <1>10 DEF q

-----------------------------------------------------------------------------
(* The invariants below the page *)

\* The collections that were broadcast are those that collectSmart is through with.
LEMMA CollectStep ==
  ASSUME BaseInv, [EventsNext]_eventVars
  PROVE  CollectInv'
<1> USE SmartAssumption, MaxBroadcastsAssumption DEF BaseInv, IInv, CollectInv, Versions
<1>1. ASSUME UNCHANGED <<cache, rows, smartPc, sent, srcPc>>
      PROVE  CollectInv'
  BY <1>1
<1>2. ASSUME NEW c \in Conns, Handler(c) \/ Refresh(c)
      PROVE  CollectInv'
  <2>1. CASE Call(c) \/ EndStream(c)
    BY <1>1, <2>1, CallEffect DEF Call, EndStream, pollVars
  <2>2. CASE ~(Call(c) \/ EndStream(c))
    BY <1>1, <1>2, <2>2 DEF Handler, ReadDisks, SendInit, Forward, Recv, Refresh, AskHardware,
       AnswerHardware, ShowHardware, pollVars, vars, srcVars
  <2> QED
    BY <2>1, <2>2
<1>3. ASSUME NEW s \in Sources, Fan(s)
      PROVE  CollectInv'
  <2>1. UNCHANGED <<cache, rows, smartPc>> /\ SourceStep(s) /\ (s = Smart => srcPc[s] # "idle")
    BY <1>3 DEF Fan, pollVars
  <2>2. sent'[Smart] = sent[Smart]
    BY <2>1 DEF SourceStep, Broadcast, Send, SendsDone, Drop, DropLock, DropCount,
       DropUnlock, AtSrc, TypeOK
  <2>3. s # Smart => srcPc'[Smart] = srcPc[Smart]
    BY <2>1 DEF SourceStep, Broadcast, Send, SendsDone, Drop, DropLock, DropCount,
       DropUnlock, GoSrc, TypeOK
  <2> QED
    BY <2>1, <2>2, <2>3
<1>4. CASE SmartCache
  <2>1. cache' = cache + 1 /\ cache < MaxBroadcasts /\ smartPc = "wait" /\ smartPc' = "insert"
        /\ srcPc' = srcPc /\ srcPc[Smart] = "idle" /\ sent' = sent /\ rows' = rows
    BY <1>4 DEF SmartCache, GoSmart, AtSrc, vars
  <2> QED
    BY <2>1
<1>5. CASE SmartInsert \/ SmartPrune
  <2>1. cache' = cache /\ smartPc # "wait" /\ sent' = sent /\ srcPc' = srcPc
        /\ smartPc' \in {"prune", "publish"} /\ rows' \subseteq rows \cup {cache}
    BY <1>5 DEF SmartInsert, SmartPrune, GoSmart, vars, srcVars
  <2>2. cache \in 1..MaxBroadcasts
    BY <2>1 DEF TypeOK
  <2> QED
    BY <2>1, <2>2
<1>6. CASE SmartBroadcast
  <2>1. cache' = cache /\ rows' = rows /\ smartPc = "publish" /\ smartPc' = "wait"
        /\ sent'[Smart] = sent[Smart] + 1
    BY <1>6 DEF SmartBroadcast, GoSmart, Broadcast, TypeOK
  <2> QED
    BY <2>1
<1>7. CASE EventsHalted \/ UNCHANGED eventVars
  BY <1>1, <1>7 DEF EventsHalted, Halted, eventVars, vars, pollVars
<1> QED
  BY <1>2, <1>3, <1>4, <1>5, <1>6, <1>7 DEF EventsNext, Poll

\* No handler is on the stream before it registered, and nothing is sent to it.
LEMMA HandlerStep ==
  ASSUME BaseInv, [EventsNext]_eventVars
  PROVE  HandlerInv'
<1> USE DEF BaseInv, IInv, HandlerInv, TypeOK, PageTyped
<1>1. ASSUME UNCHANGED <<phase, connPc, queue>>
      PROVE  HandlerInv'
  BY <1>1
<1>2. ASSUME NEW c \in Conns, Call(c) \/ EndStream(c)
      PROVE  HandlerInv'
  <2>1. queue' = queue /\ phase' = phase
    BY <1>2, CallEffect DEF Call, EndStream, pageVars
  <2> QED
    BY <1>2, <2>1 DEF Call, EndStream, RegisterCount, RegisterUndo, RegisterInsert, Return,
       UnregisterGone, UnregisterClose, UnregisterDone, At, Go
<1>3. ASSUME NEW c \in Conns, ReadDisks(c)
      PROVE  HandlerInv'
  BY <1>3 DEF ReadDisks, At, vars
<1>4. ASSUME NEW c \in Conns, NEW h \in Histories, SendInit(c, h)
      PROVE  HandlerInv'
  BY <1>4 DEF SendInit, At, vars
<1>5. ASSUME NEW c \in Conns, Forward(c)
      PROVE  HandlerInv'
  BY <1>5 DEF Forward, Recv, At
<1>6. ASSUME NEW c \in Conns, Refresh(c)
      PROVE  HandlerInv'
  BY <1>1, <1>6 DEF Refresh, AskHardware, AnswerHardware, ShowHardware, vars
<1>7. ASSUME NEW s \in Sources, SourceStep(s), phase' = phase
      PROVE  HandlerInv'
  <2>1. connPc' = connPc
    BY <1>7 DEF SourceStep, Broadcast, Send, SendsDone, Drop, DropLock, DropCount,
       DropUnlock, connVars
  <2>2. ASSUME NEW c \in Conns, queue'[c] # queue[c]
        PROVE  c \in clients \cup closed
    <3>1. PICK d \in Conns : Send(s, d) /\ SendOk(s, d)
      BY <1>7, <2>2 DEF SourceStep, Broadcast, Send, SendFull, SendClosed, SendsDone, Drop,
         DropLock, DropCount, DropUnlock
    <3>2. c = d
      BY <2>2, <3>1 DEF SendOk
    <3> QED
      BY <3>1, <3>2 DEF Send, RoundInv
  <2>3. \A c \in Conns : connPc[c] \in {"new", "over", "adding"} => c \notin clients \cup closed
    BY DEF ChannelLifecycle
  <2> QED
    BY <1>7, <2>1, <2>2, <2>3
<1>8. CASE Poll
  <2>1. CASE SmartBroadcast
    BY <1>7, <2>1, SmartAssumption DEF SmartBroadcast, SourceStep, pageVars
  <2>2. CASE SmartCache \/ SmartInsert \/ SmartPrune
    BY <1>1, <2>2 DEF SmartCache, SmartInsert, SmartPrune, pageVars, vars
  <2> QED
    BY <1>8, <2>1, <2>2 DEF Poll
<1>9. ASSUME NEW s \in Sources, Fan(s)
      PROVE  HandlerInv'
  BY <1>7, <1>9 DEF Fan, pageVars
<1>10. CASE EventsHalted \/ UNCHANGED eventVars
  BY <1>1, <1>10 DEF EventsHalted, Halted, eventVars, vars, pageVars
<1> QED
  BY <1>2, <1>3, <1>4, <1>5, <1>6, <1>8, <1>9, <1>10 DEF EventsNext, Handler

\* The reading is on the chart.
Drawn(r, ch) == \E i \in DOMAIN ch : ch[i].of = r

\* The stored history is a chart of every reading of the window.
LEMMA HistoryCharts ==
  ASSUME rows \subseteq 1..MaxBroadcasts, cache \in Versions
  PROVE  /\ History \in Charts
         /\ \A r \in rows : r + Window > cache => Drawn(r, History)
<1> USE MaxBroadcastsAssumption, WindowAssumption
<1>1. PICK recent : recent = {r \in rows : r + Window > cache}
  OBVIOUS
<1>2. recent \in SUBSET (1..MaxBroadcasts)
  BY <1>1
<1>3. PICK at : at = Ascending(recent)
  OBVIOUS
<1>4. PICK n \in Nat : at \in [1..n -> recent] /\ \A r \in recent : \E k \in 1..n : at[k] = r
  <2>1. /\ Cardinality(recent) \in Nat
        /\ Ascending(recent) \in [1..Cardinality(recent) -> recent]
        /\ \A r \in recent : \E k \in 1..Cardinality(recent) : Ascending(recent)[k] = r
    BY <1>2, AscendingProperties
  <2> QED
    BY <1>3, <2>1
<1>5. History = [k \in 1..n |-> [of |-> at[k], ts |-> at[k]]]
  BY <1>1, <1>3, <1>4 DEF History
<1>6. \A k \in 1..n : [of |-> at[k], ts |-> at[k]] \in {p \in Point : p.of <= p.ts}
  <2> TAKE k \in 1..n
  <2>1. at[k] \in Versions /\ at[k] # 0 /\ at[k] <= at[k]
    <3>1. at[k] \in recent
      BY <1>4
    <3>2. \A r \in recent : r \in Versions /\ r # 0 /\ r <= r
      BY <1>2 DEF Versions
    <3> QED
      BY <3>1, <3>2
  <2> QED
    BY <2>1 DEF Point
<1>7. History \in Charts
  BY <1>5, <1>6 DEF Charts
<1>8. \A r \in recent : Drawn(r, History)
  BY <1>4, <1>5 DEF Drawn
<1> QED
  BY <1>1, <1>7, <1>8

\* So is what a read that fails on the way returns of it.
LEMMA HistoriesCharts ==
  ASSUME rows \subseteq 1..MaxBroadcasts, cache \in Versions, NEW h \in Histories
  PROVE  h \in Charts
<1>1. PICK all : all = History
  OBVIOUS
<1>2. all \in Charts
  BY <1>1, HistoryCharts
<1>3. PICK k \in 0..Len(all) : h = SubSeq(all, 1, k)
  BY <1>1 DEF Histories
<1> QED
  BY <1>2, <1>3 DEF Charts

\* An answer and its parts.
LEMMA AnswerParts ==
  ASSUME NEW stage \in {"none", "disks", "sent", "shown"}, NEW v \in Versions, NEW h \in Charts
  PROVE  /\ Answer(stage, v, h) \in Answers
         /\ Answer(stage, v, h).stage = stage
         /\ Answer(stage, v, h).disks = v
         /\ Answer(stage, v, h).history = h
BY DEF Answer, Answers

\* Nothing is read or sent yet, or all is shown.
LEMMA NoAnswerParts ==
  0 \in Versions /\ <<>> \in Charts
BY MaxBroadcastsAssumption DEF Versions, Charts

\* One answer changes.
LEMMA AnswerSet ==
  ASSUME PageTyped, NEW c \in Conns, NEW r \in Refreshes, NEW a \in Answers, SetAnswer(c, r, a)
  PROVE  /\ answer' \in [Conns -> [Refreshes -> Answers]]
         /\ answer'[c][r] = a
         /\ \A q \in Refreshes : q # r => answer'[c][q] = answer[c][q]
         /\ \A d \in Conns : d # c => answer'[d] = answer[d]
BY DEF PageTyped, SetAnswer

\* An answer that was read is there for any request made before.
LEMMA AnswerTyped ==
  ASSUME PageTyped, NEW c \in Conns, NEW r \in Refreshes
  PROVE  /\ answer[c][r] \in Answers
         /\ answer[c][r].stage \in {"none", "disks", "sent", "shown"}
         /\ answer[c][r].disks \in Versions
         /\ answer[c][r].history \in Charts
<1>1. answer[c][r] \in Answers
  BY DEF PageTyped
<1> QED
  BY <1>1 DEF Answers

\* The refresh that is asked for next.
LEMMA NextRefresh ==
  ASSUME PageTyped, NEW c \in Conns, asked[c] < MaxRefreshes
  PROVE  /\ asked[c] \in Nat /\ asked[c] + 1 \in Refreshes
         /\ [asked EXCEPT ![c] = @ + 1] \in [Conns -> 0..MaxRefreshes]
BY RefreshesAssumption DEF PageTyped, Refreshes

\* The variables of the page but for its chart keep their types.
LEMMA PageStep ==
  ASSUME BaseInv, [EventsNext]_eventVars
  PROVE  PageTyped'
<1> USE DEF BaseInv, PageTyped
<1>1. ASSUME UNCHANGED <<phase, disks, view, snap, refreshVars>>
      PROVE  PageTyped'
  BY <1>1 DEF refreshVars
<1>2. cache \in Versions /\ rows \subseteq 1..MaxBroadcasts
  BY DEF CollectInv
<1>3. ASSUME NEW c \in Conns, Overtake(c)
      PROVE  /\ asked' = asked /\ answer' = answer
             /\ fresh' \in [Conns -> SUBSET Refreshes]
  BY <1>3 DEF Overtake
<1>4. ASSUME NEW c \in Conns, Call(c) \/ EndStream(c)
      PROVE  PageTyped'
  BY <1>1, <1>4 DEF Call, EndStream, pageVars
<1>5. ASSUME NEW c \in Conns, ReadDisks(c)
      PROVE  PageTyped'
  BY <1>2, <1>5 DEF ReadDisks, refreshVars
<1>6. ASSUME NEW c \in Conns, NEW h, SendInit(c, h)
      PROVE  PageTyped'
  <2>1. disks[c] \in Versions
    OBVIOUS
  <2> QED
    BY <1>3, <1>6, <2>1 DEF SendInit
<1>7. ASSUME NEW c \in Conns, Forward(c)
      PROVE  PageTyped'
  <2>1. queue[c] \in Seq(Message) /\ queue[c] # <<>>
    BY <1>7 DEF Forward, Recv, IInv, TypeOK
  <2>2. Head(queue[c]) \in Message
    BY <2>1
  <2>3. Head(queue[c]).seq \in Versions
    BY <2>2, MaxBroadcastsAssumption DEF Message, Versions
  <2>4. CASE Head(queue[c]).src = Smart
    BY <1>3, <1>7, <2>3, <2>4 DEF Forward
  <2>5. CASE Head(queue[c]).src # Smart
    BY <1>1, <1>7, <2>5 DEF Forward, refreshVars
  <2> QED
    BY <2>4, <2>5
<1>8. ASSUME NEW c \in Conns, AskHardware(c)
      PROVE  PageTyped'
  <2>1. asked[c] + 1 \in Refreshes /\ asked' \in [Conns -> 0..MaxRefreshes]
    BY <1>8, NextRefresh DEF AskHardware
  <2>2. answer' \in [Conns -> [Refreshes -> Answers]]
    BY <1>2, <1>8, <2>1, NoAnswerParts, AnswerParts, AnswerSet DEF AskHardware
  <2> QED
    BY <1>8, <2>1, <2>2 DEF AskHardware
<1>9. ASSUME NEW c \in Conns, NEW r \in Refreshes, NEW h \in Charts, AnswerHardware(c, r, h)
      PROVE  PageTyped'
  <2>1. answer' \in [Conns -> [Refreshes -> Answers]]
    BY <1>9, AnswerTyped, AnswerParts, AnswerSet DEF AnswerHardware
  <2> QED
    BY <1>9, <2>1 DEF AnswerHardware
<1>10. ASSUME NEW c \in Conns, NEW r \in Refreshes, ShowHardware(c, r)
       PROVE  PageTyped'
  <2>1. answer' \in [Conns -> [Refreshes -> Answers]]
    BY <1>10, NoAnswerParts, AnswerParts, AnswerSet DEF ShowHardware
  <2>2. answer[c][r].disks \in Versions
    BY AnswerTyped
  <2> QED
    BY <1>10, <2>1, <2>2 DEF ShowHardware
<1>11. ASSUME NEW s \in Sources, Fan(s)
       PROVE  PageTyped'
  BY <1>1, <1>11 DEF Fan, pageVars
<1>12. CASE Poll
  BY <1>1, <1>12 DEF Poll, SmartCache, SmartInsert, SmartPrune, SmartBroadcast, pageVars
<1>13. CASE EventsHalted \/ UNCHANGED eventVars
  BY <1>1, <1>13 DEF EventsHalted, eventVars, pageVars
<1>14. History \in Charts /\ <<>> \in Charts
  BY <1>2, HistoryCharts, NoAnswerParts
<1> QED
  BY <1>4, <1>5, <1>6, <1>7, <1>8, <1>9, <1>10, <1>11, <1>12, <1>13, <1>14
     DEF EventsNext, Handler, Refresh

\* BaseInv holds initially and is kept.
LEMMA BaseInit == EventsInit => BaseInv
<1> SUFFICES ASSUME EventsInit
             PROVE  BaseInv
  OBVIOUS
<1>1. IInv /\ RoundInv
  BY InitIInv, RoundInit DEF EventsInit
<1>2. CollectInv /\ HandlerInv
  BY SmartAssumption, MaxBroadcastsAssumption
     DEF EventsInit, Init, CollectInv, HandlerInv, Versions
<1>3. PageTyped
  <2>1. Answer("none", 0, <<>>) \in Answers
    BY NoAnswerParts, AnswerParts
  <2> QED
    BY <2>1, NoAnswerParts, RefreshesAssumption DEF EventsInit, PageTyped
<1> QED
  BY <1>1, <1>2, <1>3 DEF BaseInv

\* See BaseInit.
LEMMA BaseStep == BaseInv /\ [EventsNext]_eventVars => BaseInv'
<1> SUFFICES ASSUME BaseInv, [EventsNext]_eventVars
             PROVE  BaseInv'
  OBVIOUS
<1>1. [Next]_vars
  BY BrokerStep
<1>2. IInv'
  BY <1>1, NextIInv DEF BaseInv
<1>3. RoundInv'
  BY <1>1, RoundStep DEF BaseInv, IInv
<1> QED
  BY <1>2, <1>3, CollectStep, HandlerStep, PageStep DEF BaseInv

-----------------------------------------------------------------------------
(* No update is missed *)
\* Shown(c) after a step, for the values that the page of c then has.
LEMMA ShownBy ==
  ASSUME NEW c, QueueInv(c)', NEW d, NEW w,
         disks'[c] = d, view'[c] = w,
         phase'[c] = "read" => UpToDate(c, d)',
         phase'[c] = "stream" /\ c \notin stale' => UpToDate(c, w)',
         phase'[c] = "stream" => \A v : HasRead(c, v)' => UpToDate(c, v)'
  PROVE  Shown(c)'
<1>1. phase'[c] = "read" => UpToDate(c, disks[c])'
  BY DEF UpToDate
<1>2. phase'[c] = "stream" /\ c \notin stale' => UpToDate(c, view[c])'
  BY DEF UpToDate
<1> QED
  BY <1>1, <1>2 DEF Shown

\* What the refreshes in flight have read stays as it is.
LEMMA ReadKept ==
  ASSUME NEW c, answer'[c] = answer[c], fresh'[c] = fresh[c]
  PROVE  \A v : HasRead(c, v)' <=> HasRead(c, v)
BY DEF HasRead

\* A client stays served as long as neither page nor channel lose anything.
LEMMA ShownKept ==
  ASSUME NEW c, Shown(c), phase'[c] = phase[c], disks'[c] = disks[c], view'[c] = view[c],
         \A v : HasRead(c, v)' => HasRead(c, v), (c \in stale) <=> (c \in stale'),
         QueueInv(c) => QueueInv(c)',
         \A v : UpToDate(c, v) => UpToDate(c, v)'
  PROVE  Shown(c)'
<1>1. PICK d, w : d = disks[c] /\ w = view[c]
  OBVIOUS
<1>2. /\ phase[c] = "read" => UpToDate(c, d)
      /\ phase[c] = "stream" /\ c \notin stale => UpToDate(c, w)
      /\ phase[c] = "stream" => \A v : HasRead(c, v) => UpToDate(c, v)
  BY <1>1 DEF Shown
<1>3. /\ phase'[c] = "read" => UpToDate(c, d)'
      /\ phase'[c] = "stream" /\ c \notin stale' => UpToDate(c, w)'
      /\ phase'[c] = "stream" => \A v : HasRead(c, v)' => UpToDate(c, v)'
  BY <1>2
<1>4. QueueInv(c)'
  BY DEF Shown
<1> QED
  BY <1>1, <1>3, <1>4, ShownBy
\* A step that changes neither the page of c nor its channel.
LEMMA ShownCalm ==
  ASSUME NEW c, Shown(c), phase'[c] = phase[c], disks'[c] = disks[c], view'[c] = view[c],
         answer'[c] = answer[c], fresh'[c] = fresh[c], (c \in stale) <=> (c \in stale'),
         queue'[c] = queue[c], UNCHANGED <<cache, smartPc, todo, slow>>
  PROVE  Shown(c)'
<1>1. OwedTo(c) => OwedTo(c)'
  BY DEF OwedTo
<1> QED
  BY <1>1, KeptCalm, ReadKept, ShownKept

\* The calls of the handlers.  A client that has just registered has an empty channel
\* and nothing on its page yet.
LEMMA ShownCall ==
  ASSUME BaseInv, ShownInv, NEW d \in Conns, Call(d) \/ EndStream(d),
         NEW c \in Conns, c \in clients'
  PROVE  Shown(c)'
<1>1. UNCHANGED <<queue, todo, slow, cache, smartPc>>
  BY CallEffect DEF BaseInv, IInv
<1>2. UNCHANGED <<phase, disks, view, answer, fresh, stale>>
  BY DEF Call, EndStream, pageVars, refreshVars
<1>3. CASE c \in clients
  BY <1>1, <1>2, <1>3, ShownCalm DEF ShownInv
<1>4. CASE RegisterInsert(c)
  <2>1. queue[c] = <<>> /\ phase[c] = "start"
    BY <1>4 DEF RegisterInsert, At, BaseInv, HandlerInv, PageTyped
  <2>2. DOMAIN queue'[c] = {}
    BY <1>1, <2>1
  <2>3. QueueInv(c)'
    BY <2>2 DEF QueueInv
  <2> QED
    BY <1>2, <2>1, <2>3 DEF Shown
<1> QED
  BY <1>3, <1>4, CallEffect DEF BaseInv, IInv

\* What is shown overtakes the refreshes in flight.
LEMMA Overtaken ==
  ASSUME PageTyped, NEW c \in Conns, Overtake(c)
  PROVE  /\ UNCHANGED <<asked, answer>> /\ fresh'[c] = {}
         /\ \A d \in Conns : d # c => fresh'[d] = fresh[d]
         /\ \A v : ~HasRead(c, v)'
<1>1. UNCHANGED <<asked, answer>> /\ fresh'[c] = {}
      /\ \A d \in Conns : d # c => fresh'[d] = fresh[d]
  BY DEF PageTyped, Overtake
<1> QED
  BY <1>1 DEF HasRead

\* The snapshot is the cache when it is read, and it is shown as it was read.
LEMMA ShownSnapshot ==
  ASSUME BaseInv, ShownInv, NEW d \in Conns, NEW h, ReadDisks(d) \/ SendInit(d, h),
         NEW c \in Conns, c \in clients'
  PROVE  Shown(c)'
<1>1. UNCHANGED <<queue, todo, slow, cache, smartPc>> /\ c \in clients
  BY DEF ReadDisks, SendInit, vars, srcVars, pollVars
<1>2. Shown(c)
  BY <1>1 DEF ShownInv
<1>3. QueueInv(c)' /\ \A v : UpToDate(c, v) => UpToDate(c, v)'
  <2>1. OwedTo(c) => OwedTo(c)'
    BY <1>1 DEF OwedTo
  <2> QED
    BY <1>1, <1>2, <2>1, KeptCalm DEF Shown
<1>4. CASE c # d
  BY <1>1, <1>2, <1>4, ShownCalm, Overtaken DEF ReadDisks, SendInit, refreshVars, BaseInv, PageTyped
<1>5. CASE c = d /\ ReadDisks(d)
  <2>1. disks'[c] = cache' /\ phase'[c] = "read"
    BY <1>1, <1>5 DEF ReadDisks, BaseInv, PageTyped
  <2>2. UpToDate(c, disks[c])'
    BY <2>1 DEF UpToDate
  <2> QED
    BY <1>3, <2>1, <2>2 DEF Shown
<1>6. CASE c = d /\ SendInit(d, h)
  <2>1. phase[c] = "read" /\ phase'[c] = "stream" /\ view'[c] = disks[c]
    BY <1>6 DEF SendInit, BaseInv, PageTyped
  <2>3. \A v : ~HasRead(c, v)'
    BY <1>6, Overtaken DEF SendInit, BaseInv
  <2>4. PICK v : v = disks[c]
    OBVIOUS
  <2>5. UpToDate(c, v)'
    BY <1>2, <1>3, <2>1, <2>4 DEF Shown
  <2>6. UpToDate(c, view[c])'
    BY <2>1, <2>4, <2>5 DEF UpToDate
  <2> QED
    BY <1>3, <2>1, <2>3, <2>6 DEF Shown
<1> QED
  BY <1>4, <1>5, <1>6

\* A message is shown: it is the latest, or that is still to come.
LEMMA ShownForward ==
  ASSUME BaseInv, ShownInv, NEW d \in Conns, Forward(d), NEW c \in Conns, c \in clients'
  PROVE  Shown(c)'
<1>1. UNCHANGED <<todo, slow, cache, smartPc, phase, disks, stale>> /\ c \in clients
  BY DEF Forward, Recv, srcVars, pollVars
<1>2. Shown(c)
  BY <1>1 DEF ShownInv
<1>3. CASE c # d
  BY <1>1, <1>2, <1>3, ShownCalm, Overtaken DEF Forward, Recv, BaseInv, PageTyped, IInv, TypeOK
<1>4. CASE c = d
  <2>1. Recv(c) /\ phase[c] = "stream" /\ QueueInv(c)
    BY <1>2, <1>4 DEF Forward, Shown
  <2>2. /\ QueueInv(c)'
        /\ Head(queue[c]).src = Smart => \A v : v = Head(queue[c]).seq => UpToDate(c, v)'
        /\ Head(queue[c]).src # Smart => \A v : UpToDate(c, v) => UpToDate(c, v)'
    BY <1>1, <2>1, KeptPop
  <2>3. CASE Head(queue[c]).src = Smart
    <3>1. view'[c] = Head(queue[c]).seq
      BY <1>4, <2>3 DEF Forward, BaseInv, PageTyped
    <3>3. \A v : ~HasRead(c, v)'
      BY <1>4, <2>3, Overtaken DEF Forward, BaseInv
    <3>4. PICK v : v = Head(queue[c]).seq
      OBVIOUS
    <3>5. UpToDate(c, v)'
      BY <2>2, <2>3, <3>4
    <3>6. UpToDate(c, view[c])'
      BY <3>1, <3>4, <3>5 DEF UpToDate
    <3> QED
      BY <1>1, <2>1, <2>2, <3>3, <3>6 DEF Shown
  <2>4. CASE Head(queue[c]).src # Smart
    <3>1. view' = view /\ answer' = answer /\ fresh' = fresh
      BY <1>4, <2>4 DEF Forward
    <3> QED
      BY <1>1, <1>2, <2>2, <2>4, <3>1, ReadKept, ShownKept
  <2> QED
    BY <2>3, <2>4
<1> QED
  BY <1>3, <1>4

\* A refresh asks, is answered or is shown.
LEMMA RefreshCases ==
  ASSUME CollectInv, NEW c \in Conns, Refresh(c)
  PROVE  \/ AskHardware(c)
         \/ \E r \in Refreshes, h \in Charts : AnswerHardware(c, r, h) /\ h \in {History, <<>>}
         \/ \E r \in Refreshes : ShowHardware(c, r)
<1>1. History \in Charts /\ <<>> \in Charts
  BY HistoryCharts, NoAnswerParts DEF CollectInv
<1> QED
  BY <1>1 DEF Refresh

\* The request reads the cache and is in flight from then on.
LEMMA AskEffect ==
  ASSUME PageTyped, CollectInv, NEW c \in Conns, AskHardware(c)
  PROVE  /\ asked[c] + 1 \in Refreshes /\ asked'[c] = asked[c] + 1
         /\ fresh'[c] = fresh[c] \cup {asked[c] + 1}
         /\ answer'[c][asked[c] + 1].stage = "disks"
         /\ answer'[c][asked[c] + 1].disks = cache
         /\ \A q \in Refreshes : q # asked[c] + 1 => answer'[c][q] = answer[c][q]
         /\ \A d \in Conns : d # c => answer'[d] = answer[d] /\ fresh'[d] = fresh[d]
                                       /\ asked'[d] = asked[d]
<1>1. asked[c] + 1 \in Refreshes /\ asked'[c] = asked[c] + 1
  BY NextRefresh DEF AskHardware, PageTyped
<1>2. PICK a : a = Answer("disks", cache, <<>>)
  OBVIOUS
<1>3. a \in Answers /\ a.stage = "disks" /\ a.disks = cache
  BY <1>2, NoAnswerParts, AnswerParts DEF CollectInv
<1>4. SetAnswer(c, asked[c] + 1, a)
  BY <1>2 DEF AskHardware
<1>5. /\ answer'[c][asked[c] + 1] = a
      /\ \A q \in Refreshes : q # asked[c] + 1 => answer'[c][q] = answer[c][q]
      /\ \A d \in Conns : d # c => answer'[d] = answer[d]
  BY <1>1, <1>3, <1>4, AnswerSet
<1>6. /\ fresh'[c] = fresh[c] \cup {asked[c] + 1}
      /\ \A d \in Conns : d # c => fresh'[d] = fresh[d] /\ asked'[d] = asked[d]
  BY DEF AskHardware, PageTyped
<1> QED
  BY <1>1, <1>3, <1>5, <1>6

\* Its answer adds the history to what was read before.
LEMMA AnswerEffect ==
  ASSUME PageTyped, NEW c \in Conns, NEW r \in Refreshes, NEW h \in Charts, AnswerHardware(c, r, h)
  PROVE  /\ asked' = asked /\ fresh' = fresh
         /\ answer[c][r].stage = "disks" /\ answer'[c][r].stage = "sent"
         /\ answer'[c][r].disks = answer[c][r].disks
         /\ answer'[c][r].history = h
         /\ \A q \in Refreshes : q # r => answer'[c][q] = answer[c][q]
         /\ \A d \in Conns : d # c => answer'[d] = answer[d]
<1>1. PICK a : a = Answer("sent", answer[c][r].disks, h)
  OBVIOUS
<1>2. a \in Answers /\ a.stage = "sent" /\ a.disks = answer[c][r].disks /\ a.history = h
  BY <1>1, AnswerTyped, AnswerParts
<1>3. SetAnswer(c, r, a)
  BY <1>1 DEF AnswerHardware
<1> QED
  BY <1>2, <1>3, AnswerSet DEF AnswerHardware

\* What the fresh requests of the page have read, after a request and after an answer.
LEMMA AskFresh ==
  ASSUME PageTyped, CollectInv, NEW c \in Conns, AskHardware(c)
  PROVE  \A q \in fresh'[c] :
           \/ q \in fresh[c] /\ answer'[c][q] = answer[c][q]
           \/ answer'[c][q].stage = "disks" /\ answer'[c][q].disks = cache
<1>1. PICK n : n = asked[c] + 1
  OBVIOUS
<1>2. /\ fresh'[c] = fresh[c] \cup {n}
      /\ answer'[c][n].stage = "disks" /\ answer'[c][n].disks = cache
      /\ \A q \in Refreshes : q # n => answer'[c][q] = answer[c][q]
  BY <1>1, AskEffect
<1>3. fresh[c] \subseteq Refreshes
  BY DEF PageTyped
<1> QED
  BY <1>2, <1>3

\* See AskFresh.
LEMMA AnswerFresh ==
  ASSUME PageTyped, NEW c \in Conns, NEW r \in Refreshes, NEW h \in Charts, AnswerHardware(c, r, h)
  PROVE  \A q \in fresh'[c] :
           /\ q \in fresh[c] /\ answer'[c][q].disks = answer[c][q].disks
           /\ answer'[c][q].history = h \/ answer'[c][q] = answer[c][q]
<1>1. fresh[c] \subseteq Refreshes
  BY DEF PageTyped
<1> QED
  BY <1>1, AnswerEffect

\* What is shown is in flight no more.
LEMMA ShowEffect ==
  ASSUME PageTyped, NEW c \in Conns, NEW r \in Refreshes, ShowHardware(c, r)
  PROVE  /\ asked' = asked
         /\ answer[c][r].stage = "sent" /\ answer'[c][r].stage = "shown"
         /\ fresh'[c] = fresh[c] \ {r}
         /\ \A q \in Refreshes : q # r => answer'[c][q] = answer[c][q]
         /\ \A d \in Conns : d # c => answer'[d] = answer[d] /\ fresh'[d] = fresh[d]
<1>1. PICK a : a = Answer("shown", 0, <<>>)
  OBVIOUS
<1>2. a \in Answers /\ a.stage = "shown"
  BY <1>1, NoAnswerParts, AnswerParts
<1>3. SetAnswer(c, r, a)
  BY <1>1 DEF ShowHardware
<1>4. fresh'[c] = fresh[c] \ {r} /\ \A d \in Conns : d # c => fresh'[d] = fresh[d]
  BY DEF ShowHardware, PageTyped
<1> QED
  BY <1>2, <1>3, <1>4, AnswerSet DEF ShowHardware

\* The refreshes of one page do not touch another.
LEMMA RefreshEffect ==
  ASSUME PageTyped, CollectInv, NEW d \in Conns, Refresh(d), NEW c \in Conns, c # d
  PROVE  /\ answer'[c] = answer[c] /\ fresh'[c] = fresh[c] /\ asked'[c] = asked[c]
         /\ view'[c] = view[c] /\ snap'[c] = snap[c]
         /\ (c \in stale) <=> (c \in stale')
         /\ (c \in whole) <=> (c \in whole')
<1>1. CASE AskHardware(d)
  BY <1>1, AskEffect DEF AskHardware
<1>2. ASSUME NEW r \in Refreshes, NEW h \in Charts, AnswerHardware(d, r, h)
      PROVE  /\ UNCHANGED <<view, snap, stale, whole>>
             /\ answer'[c] = answer[c] /\ fresh'[c] = fresh[c] /\ asked'[c] = asked[c]
  BY <1>2, AnswerEffect DEF AnswerHardware
<1>3. ASSUME NEW r \in Refreshes, ShowHardware(d, r)
      PROVE  /\ view'[c] = view[c] /\ snap'[c] = snap[c]
             /\ (c \in stale) <=> (c \in stale')
             /\ (c \in whole) <=> (c \in whole')
             /\ answer'[c] = answer[c] /\ fresh'[c] = fresh[c] /\ asked'[c] = asked[c]
  <2>1. answer'[c] = answer[c] /\ fresh'[c] = fresh[c] /\ asked'[c] = asked[c]
    BY <1>3, ShowEffect
  <2>2. view'[c] = view[c] /\ snap'[c] = snap[c]
    BY <1>3 DEF ShowHardware, PageTyped
  <2>3. /\ stale' = stale \ {d} \/ stale' = stale \cup {d}
        /\ whole' = whole \ {d} \/ whole' = whole \cup {d}
    BY <1>3 DEF ShowHardware
  <2> QED
    BY <2>1, <2>2, <2>3
<1> QED
  BY <1>1, <1>2, <1>3, RefreshCases

\* A refresh reads the cache; its answer is shown, current unless an event was.
LEMMA ShownRefresh ==
  ASSUME BaseInv, ShownInv, NEW d \in Conns, Refresh(d), NEW c \in Conns, c \in clients'
  PROVE  Shown(c)'
<1>1. UNCHANGED <<queue, todo, slow, cache, smartPc, phase, disks>> /\ c \in clients
  BY DEF Refresh, AskHardware, AnswerHardware, ShowHardware, vars, srcVars, pollVars
<1>2. Shown(c)
  BY <1>1 DEF ShownInv
<1>3. QueueInv(c)' /\ \A v : UpToDate(c, v) => UpToDate(c, v)'
  <2>1. OwedTo(c) => OwedTo(c)'
    BY <1>1 DEF OwedTo
  <2> QED
    BY <1>1, <1>2, <2>1, KeptCalm DEF Shown
<1>4. CASE c # d
  BY <1>1, <1>2, <1>4, RefreshEffect, ShownCalm DEF BaseInv
<1>5. PICK u, v : u = disks[c] /\ v = view[c]
  OBVIOUS
<1>6. /\ phase[c] = "read" => UpToDate(c, u)
      /\ phase[c] = "stream" /\ c \notin stale => UpToDate(c, v)
      /\ phase[c] = "stream" => \A w : HasRead(c, w) => UpToDate(c, w)
  BY <1>2, <1>5 DEF Shown
<1>7. CASE c = d /\ AskHardware(d)
  <2>1. view'[c] = view[c] /\ stale' = stale
    BY <1>7 DEF AskHardware
  <2>2. PICK z : z = cache
    OBVIOUS
  <2>3. \A w : HasRead(c, w)' => HasRead(c, w) \/ w = z
    BY <1>7, <2>2, AskFresh DEF BaseInv, HasRead
  <2>4. UpToDate(c, z)'
    BY <1>1, <2>2 DEF UpToDate
  <2>5. phase'[c] = "stream" => \A w : HasRead(c, w)' => UpToDate(c, w)'
    BY <1>1, <1>3, <1>6, <2>3, <2>4
  <2> QED
    BY <1>1, <1>3, <1>5, <1>6, <2>1, <2>5, ShownBy
<1>8. ASSUME c = d, NEW r \in Refreshes, NEW h \in Charts, AnswerHardware(d, r, h)
      PROVE  Shown(c)'
  <2>1. view'[c] = view[c] /\ stale' = stale
    BY <1>8 DEF AnswerHardware
  <2>2. \A w : HasRead(c, w)' => HasRead(c, w)
    BY <1>8, AnswerFresh DEF BaseInv, HasRead
  <2> QED
    BY <1>1, <1>2, <1>3, <2>1, <2>2, ShownKept
<1>9. ASSUME c = d, NEW r \in Refreshes, ShowHardware(d, r)
      PROVE  Shown(c)'
  <2>1. PICK w : w = answer[c][r].disks
    OBVIOUS
  <2>2. view'[c] = w /\ (c \notin stale' => HasRead(c, w))
    BY <1>9, <2>1 DEF ShowHardware, HasRead, BaseInv, PageTyped
  <2>3. \A x : HasRead(c, x)' => HasRead(c, x)
    BY <1>9, ShowEffect DEF BaseInv, HasRead, PageTyped
  <2> QED
    BY <1>1, <1>3, <1>5, <1>6, <2>2, <2>3, ShownBy
<1>10. CASE c = d
  BY <1>7, <1>8, <1>9, <1>10, RefreshCases DEF BaseInv
<1> QED
  BY <1>4, <1>10

\* Broadcasts append to a channel or leave it alone.
LEMMA ShownFan ==
  ASSUME BaseInv, ShownInv, NEW s \in Sources, Fan(s), NEW c \in Conns, c \in clients'
  PROVE  Shown(c)'
<1>1. UNCHANGED <<cache, smartPc, phase, disks, view, answer, fresh, stale>>
  BY DEF Fan, pollVars, pageVars, refreshVars
<1>2. c \in clients /\ GivenTo(s, c)
  BY FanEffect DEF Fan, BaseInv, IInv
<1>3. Shown(c)
  BY <1>2 DEF ShownInv
<1>4. CASE queue'[c] = queue[c] /\ (OwedTo(c) => OwedTo(c)')
  BY <1>1, <1>3, <1>4, KeptCalm, ReadKept, ShownKept
<1>5. CASE ~(queue'[c] = queue[c] /\ (OwedTo(c) => OwedTo(c)'))
  BY <1>1, <1>2, <1>3, <1>5, KeptPush, ReadKept, ShownKept DEF GivenTo
<1> QED
  BY <1>4, <1>5

\* During a collection, and once its Broadcast has begun, its message is coming.
LEMMA ShownPoll ==
  ASSUME BaseInv, ShownInv, Poll, NEW c \in Conns, c \in clients'
  PROVE  Shown(c)'
<1>1. smartPc' # "wait" \/ OwedTo(c)'
  BY SmartAssumption DEF Poll, SmartCache, SmartInsert, SmartPrune, SmartBroadcast, GoSmart,
     Broadcast, OwedTo, BaseInv, IInv, TypeOK
<1>2. Unsettled(c)'
  BY <1>1 DEF OwedTo, Unsettled
<1> QED
  BY <1>2 DEF Shown, QueueInv, UpToDate, Coming

\* No step of the system leaves a registered client behind.
LEMMA ShownStep ==
  ASSUME BaseInv, BaseInv', ShownInv, [EventsNext]_eventVars
  PROVE  ShownInv'
<1> SUFFICES ASSUME NEW c \in clients'
             PROVE  Shown(c)'
  BY DEF ShownInv
<1>1. c \in Conns /\ c \in clients'
  BY DEF BaseInv, IInv, TypeOK
<1>2. ASSUME NEW d \in Conns, Handler(d)
      PROVE  Shown(c)'
  BY <1>1, <1>2, ShownCall, ShownSnapshot, ShownForward DEF Handler
<1>3. CASE EventsHalted \/ UNCHANGED eventVars
  <2>1. /\ UNCHANGED <<queue, todo, slow, cache, smartPc, phase, disks, view, answer, fresh, stale>>
        /\ c \in clients
    BY <1>3 DEF EventsHalted, Halted, eventVars, vars, srcVars, pollVars, pageVars, refreshVars
  <2> QED
    BY <2>1, ShownCalm DEF ShownInv
<1> QED
  BY <1>1, <1>2, <1>3, ShownRefresh, ShownFan, ShownPoll DEF EventsNext

\* A client that is served shows the latest collection or it is still to come: for every
\* number of pages, sources, collections and refreshes and every cap and buffer, no
\* update is lost between the snapshot of handleEvents and its stream.
THEOREM MissedCorrect == EventsSpec => []NoMissedUpdate
<1> DEFINE Inv == BaseInv /\ ShownInv
<1>1. EventsInit => Inv
  BY BaseInit DEF EventsInit, Init, ShownInv
<1>2. Inv /\ [EventsNext]_eventVars => Inv'
  BY BaseStep, ShownStep
<1>3. Inv => NoMissedUpdate
  <2> SUFFICES ASSUME Inv, NEW c \in Conns, Served(c), c \notin stale
               PROVE  view[c] = cache \/ cache \in Queued(c) \/ Unsettled(c)
    BY DEF NoMissedUpdate
  <2>1. UpToDate(c, view[c])
    BY DEF Served, ShownInv, Shown
  <2>2. ASSUME NEW i \in DOMAIN queue[c], IsUpdate(queue[c][i], cache)
        PROVE  cache \in Queued(c)
    BY <2>2 DEF Queued, IsUpdate
  <2> QED
    BY <2>1, <2>2 DEF UpToDate, Coming
<1> QED
  BY <1>1, <1>2, <1>3, PTL DEF EventsSpec
-----------------------------------------------------------------------------
(* The table goes back only for the reasons named *)

\* The versions in a channel rise, from above one and to below another.
Rising(q) ==
  \A i, j \in DOMAIN q :
    q[i].src = Smart /\ q[j].src = Smart /\ i < j => q[i].seq < q[j].seq
Above(q, v) == \A i \in DOMAIN q : q[i].src = Smart => q[i].seq > v
Below(q, v) == \A i \in DOMAIN q : q[i].src = Smart => q[i].seq < v

\* The least version that may still be put into the channel of c.
Due(c) == IF c \in todo[Smart] THEN sent[Smart] ELSE sent[Smart] + 1

\* The page shows an event, not its last snapshot.
Past(c) == view[c] # snap[c]

\* Refreshes read the cache in the order of their numbers; what one has read is not
\* older than what the page shows unless an event or a later answer was shown.
InFlight(c, r) == answer[c][r].stage \in {"disks", "sent"}
WasShown(c, r) == answer[c][r].stage = "shown"
LaterShown(c, r) == \E q \in Refreshes : q > r /\ WasShown(c, q)
Refreshing(c) ==
  /\ \A r \in Refreshes : answer[c][r].stage # "none" => r <= asked[c]
  /\ \A r \in Refreshes : InFlight(c, r) => answer[c][r].disks <= cache
  /\ \A q, r \in Refreshes :
       InFlight(c, q) /\ InFlight(c, r) /\ q < r => answer[c][q].disks <= answer[c][r].disks
  /\ \A r \in fresh[c] :
       InFlight(c, r) /\ (view[c] <= answer[c][r].disks \/ LaterShown(c, r))

\* What is in the channel is newer than what the page shows, once that is an event, and
\* older than what may still be sent; before the init event the page shows nothing but
\* what a refresh brought.
Ordered(c) ==
  /\ Rising(queue[c]) /\ Below(queue[c], Due(c))
  /\ view[c] <= cache /\ disks[c] <= cache
  /\ phase[c] # "stream" => view[c] = 0 \/ \E r \in Refreshes : WasShown(c, r)
  /\ Past(c) => Above(queue[c], view[c]) /\ view[c] < Due(c)
  /\ Refreshing(c)
OrderInv == \A c \in Conns : Ordered(c)

\* Versions are natural numbers.
LEMMA Numbers ==
  ASSUME BaseInv, NEW c \in Conns
  PROVE  /\ cache \in Nat /\ sent[Smart] \in Nat /\ sent[Smart] <= cache
         /\ view[c] \in Nat /\ disks[c] \in Nat /\ snap[c] \in Nat
         /\ \A r \in Refreshes : answer[c][r].disks \in Nat /\ r \in Nat
         /\ fresh[c] \subseteq Refreshes /\ asked[c] \in Nat
         /\ Due(c) \in Nat /\ sent[Smart] <= Due(c) /\ Due(c) <= sent[Smart] + 1
         /\ queue[c] \in Seq(Message)
         /\ \A i \in DOMAIN queue[c] : queue[c][i].seq \in Nat
<1> USE SmartAssumption, MaxBroadcastsAssumption DEF BaseInv, CollectInv, Versions, PageTyped, IInv,
        TypeOK
<1>1. cache \in Nat /\ sent[Smart] \in Nat
  OBVIOUS
<1>2. sent[Smart] <= cache
  BY <1>1
<1>3. view[c] \in Nat /\ disks[c] \in Nat /\ snap[c] \in Nat
  <2>1. /\ view[c] \in 0..MaxBroadcasts /\ disks[c] \in 0..MaxBroadcasts
        /\ snap[c] \in 0..MaxBroadcasts
    OBVIOUS
  <2> QED
    BY <2>1
<1>7. ASSUME NEW r \in Refreshes
      PROVE  answer[c][r].disks \in Nat /\ r \in Nat
  <2>1. answer[c][r].disks \in 0..MaxBroadcasts
    BY AnswerTyped
  <2> QED
    BY <2>1, RefreshesAssumption DEF Refreshes
<1>8. fresh[c] \subseteq Refreshes /\ asked[c] \in Nat
  BY RefreshesAssumption
<1>4. Due(c) \in Nat /\ sent[Smart] <= Due(c) /\ Due(c) <= sent[Smart] + 1
  BY <1>1 DEF Due
<1>5. queue[c] \in Seq(Message)
  OBVIOUS
<1>6. ASSUME NEW i \in DOMAIN queue[c]
      PROVE  queue[c][i].seq \in Nat
  <2>1. queue[c][i] \in Message
    BY <1>5
  <2> QED
    BY <2>1 DEF Message
<1> QED
  BY <1>1, <1>2, <1>3, <1>4, <1>5, <1>6, <1>7, <1>8

\* A message that is not older than what may still be sent goes behind the others.
LEMMA RisingAppend ==
  ASSUME NEW q \in Seq(Message), NEW m, NEW due \in Nat, NEW more \in Nat,
         \A i \in DOMAIN q : q[i].seq \in Nat, Rising(q), Below(q, due), due <= more,
         m.src = Smart => m.seq = due /\ due < more
  PROVE  Rising(Append(q, m)) /\ Below(Append(q, m), more)
<1> DEFINE r == Append(q, m)
<1>1. /\ DOMAIN r = 1..Len(q) + 1 /\ Len(q) \in Nat /\ DOMAIN q = 1..Len(q)
      /\ \A i \in DOMAIN q : r[i] = q[i]
      /\ r[Len(q) + 1] = m
  BY Pushed
<1> HIDE DEF r
<1>2. Rising(r)
  <2> SUFFICES ASSUME NEW i \in DOMAIN r, NEW j \in DOMAIN r,
                      r[i].src = Smart, r[j].src = Smart, i < j
               PROVE  r[i].seq < r[j].seq
    BY DEF Rising
  <2>1. i \in DOMAIN q /\ r[i] = q[i]
    BY <1>1
  <2>2. CASE j \in DOMAIN q
    BY <1>1, <2>1, <2>2 DEF Rising
  <2>3. CASE j = Len(q) + 1
    BY <1>1, <2>1, <2>3 DEF Below
  <2> QED
    BY <1>1, <2>2, <2>3
<1>3. Below(r, more)
  <2> SUFFICES ASSUME NEW i \in DOMAIN r, r[i].src = Smart
               PROVE  r[i].seq < more
    BY DEF Below
  <2>1. CASE i \in DOMAIN q
    <3>1. q[i].seq \in Nat /\ q[i].seq < due
      BY <1>1, <2>1 DEF Below
    <3> QED
      BY <1>1, <2>1, <3>1
  <2>2. CASE i = Len(q) + 1
    BY <1>1, <2>2
  <2> QED
    BY <1>1, <2>1, <2>2
<1> QED
  BY <1>2, <1>3 DEF r

\* So does one that a channel above some version is given.
LEMMA AboveAppend ==
  ASSUME NEW q \in Seq(Message), NEW m, NEW v, Above(q, v), m.src = Smart => m.seq > v
  PROVE  Above(Append(q, m), v)
BY Pushed DEF Above

\* What a receive leaves keeps its order, and is above what was received.
LEMMA RisingTail ==
  ASSUME NEW q \in Seq(Message), q # <<>>, Rising(q), NEW v
  PROVE  /\ Rising(Tail(q))
         /\ Below(q, v) => Below(Tail(q), v)
         /\ Above(q, v) => Above(Tail(q), v)
         /\ Head(q).src = Smart => Above(Tail(q), Head(q).seq)
         /\ Head(q).src = Smart /\ Below(q, v) => Head(q).seq < v
         /\ Head(q).src = Smart /\ Above(q, v) => Head(q).seq > v
<1> DEFINE r == Tail(q)
<1>1. /\ DOMAIN q = 1..Len(q) /\ Len(q) \in Nat \ {0} /\ Head(q) = q[1]
      /\ DOMAIN r = 1..Len(q) - 1
      /\ \A i \in 1..Len(q) - 1 : r[i] = q[i + 1]
  BY Popped
<1> HIDE DEF r
<1>2. \A i \in DOMAIN r : i + 1 \in DOMAIN q /\ 1 < i + 1 /\ i \in Nat /\ r[i] = q[i + 1]
  BY <1>1
<1>3. 1 \in DOMAIN q
  BY <1>1
<1>4. Rising(r)
  <2> SUFFICES ASSUME NEW i \in DOMAIN r, NEW j \in DOMAIN r,
                      r[i].src = Smart, r[j].src = Smart, i < j
               PROVE  r[i].seq < r[j].seq
    BY DEF Rising
  <2>1. i + 1 < j + 1
    BY <1>2
  <2> QED
    BY <1>2, <2>1 DEF Rising
<1>5. (Below(q, v) => Below(r, v)) /\ (Above(q, v) => Above(r, v))
  BY <1>2 DEF Below, Above
<1>6. q[1].src = Smart => Above(r, q[1].seq)
  <2> SUFFICES ASSUME q[1].src = Smart, NEW i \in DOMAIN r, r[i].src = Smart
               PROVE  r[i].seq > q[1].seq
    BY DEF Above
  <2>1. q[1].seq < q[i + 1].seq
    BY <1>2, <1>3 DEF Rising
  <2> QED
    BY <1>2, <2>1
<1>7. q[1].src = Smart => (Below(q, v) => q[1].seq < v) /\ (Above(q, v) => q[1].seq > v)
  BY <1>3 DEF Below, Above
<1> QED
  BY <1>1, <1>4, <1>5, <1>6, <1>7 DEF r
\* A channel stays in order while nothing is added to it and the bound does not fall.
LEMMA BelowMore ==
  ASSUME NEW q, NEW due \in Nat, NEW more \in Nat, due <= more,
         \A i \in DOMAIN q : q[i].seq \in Nat, Below(q, due)
  PROVE  Below(q, more)
BY DEF Below

\* The refreshes of a page stay in order while there is no other, and when an event
\* is shown there are none that are fresh.
LEMMA RefreshingKept ==
  ASSUME BaseInv, NEW c \in Conns, Refreshing(c), answer'[c] = answer[c], asked'[c] = asked[c],
         fresh'[c] = {} \/ (fresh'[c] = fresh[c] /\ view'[c] = view[c]),
         cache' \in Nat, cache <= cache'
  PROVE  Refreshing(c)'
<1>1. \A r : /\ InFlight(c, r)' <=> InFlight(c, r)
             /\ WasShown(c, r)' <=> WasShown(c, r)
             /\ LaterShown(c, r)' <=> LaterShown(c, r)
             /\ answer'[c][r] = answer[c][r]
  BY DEF InFlight, WasShown, LaterShown
<1>2. \A r \in Refreshes : answer'[c][r].stage # "none" => r <= asked'[c]
  BY <1>1 DEF Refreshing
<1>3. \A r \in Refreshes : InFlight(c, r)' => answer'[c][r].disks <= cache'
  BY <1>1, Numbers DEF Refreshing
<1>4. \A q, r \in Refreshes :
        InFlight(c, q)' /\ InFlight(c, r)' /\ q < r => answer'[c][q].disks <= answer'[c][r].disks
  BY <1>1 DEF Refreshing
<1>5. \A r \in fresh'[c] :
        InFlight(c, r)' /\ (view'[c] <= answer'[c][r].disks \/ LaterShown(c, r)')
  BY <1>1 DEF Refreshing
<1> QED
  BY <1>2, <1>3, <1>4, <1>5 DEF Refreshing

\* What was shown stays shown.
LEMMA ShownStays ==
  ASSUME NEW c, answer'[c] = answer[c]
  PROVE  (\E r \in Refreshes : WasShown(c, r)) => (\E r \in Refreshes : WasShown(c, r)')
BY DEF WasShown

\* Ordered is kept by a step that gives c nothing and changes nothing of its page.
LEMMA OrderedCalm ==
  ASSUME BaseInv, NEW c \in Conns, Ordered(c), queue'[c] = queue[c], phase'[c] = phase[c],
         disks'[c] = disks[c], view'[c] = view[c], snap'[c] = snap[c], answer'[c] = answer[c],
         asked'[c] = asked[c], fresh'[c] = fresh[c], cache' \in Nat, cache <= cache',
         sent'[Smart] \in Nat, Due(c) <= Due(c)'
  PROVE  Ordered(c)'
<1>1. Due(c)' \in Nat
  BY DEF Due
<1>2. PICK more : more = Due(c)'
  OBVIOUS
<1>3. Below(queue[c], more) /\ (view[c] < Due(c) => view[c] < more)
  BY <1>1, <1>2, Numbers, BelowMore DEF Ordered
<1>4. Rising(queue'[c]) /\ Below(queue'[c], more)
  BY <1>3 DEF Ordered
<1>5. view'[c] <= cache' /\ disks'[c] <= cache'
  BY Numbers DEF Ordered
<1>6. Past(c)' => Above(queue'[c], view'[c]) /\ view'[c] < more
  BY <1>3 DEF Ordered, Past
<1>7. Refreshing(c)'
  BY RefreshingKept DEF Ordered
<1>8. phase'[c] # "stream" => view'[c] = 0 \/ \E r \in Refreshes : WasShown(c, r)'
  BY ShownStays DEF Ordered
<1> QED
  BY <1>2, <1>4, <1>5, <1>6, <1>7, <1>8 DEF Ordered

\* The same of the channel, sent and todo; then Due is that before the step.
LEMMA OrderedQuiet ==
  ASSUME BaseInv, NEW c \in Conns, Ordered(c), queue'[c] = queue[c], phase'[c] = phase[c],
         disks'[c] = disks[c], view'[c] = view[c], snap'[c] = snap[c], answer'[c] = answer[c],
         asked'[c] = asked[c], fresh'[c] = fresh[c], UNCHANGED <<cache, sent, todo>>
  PROVE  Ordered(c)'
<1>1. Due(c)' = Due(c)
  BY DEF Due
<1> QED
  BY <1>1, Numbers, OrderedCalm

\* What a Broadcast does to one channel: only the next version to be sent is added to it.
LEMMA FanOrder ==
  ASSUME TypeOK, NEW s \in Sources, SourceStep(s), s = Smart => srcPc[s] # "idle",
         NEW c \in Conns
  PROVE  /\ sent'[Smart] = sent[Smart]
         /\ \/ queue'[c] = queue[c] /\ todo'[Smart] \subseteq todo[Smart]
            \/ /\ queue'[c] = Append(queue[c], [src |-> s, seq |-> sent[s]])
               /\ s = Smart => c \in todo[Smart] /\ c \notin todo'[Smart]
               /\ todo'[Smart] \subseteq todo[Smart]
<1> USE SmartAssumption DEF TypeOK, AtSrc
<1>1. CASE Broadcast(s)
  BY <1>1 DEF Broadcast
<1>2. CASE SendsDone(s) \/ DropLock(s) \/ DropCount(s) \/ DropUnlock(s)
  BY <1>2 DEF SendsDone, DropLock, DropCount, DropUnlock
<1>3. ASSUME NEW d \in Conns, Send(s, d)
      PROVE  /\ sent' = sent /\ todo'[Smart] \subseteq todo[Smart]
             /\ \/ queue'[c] = queue[c]
                \/ /\ queue'[c] = Append(queue[c], [src |-> s, seq |-> sent[s]])
                   /\ s = Smart => c \in todo[Smart] /\ c \notin todo'[Smart]
  <2>1. d \in todo[s] /\ todo' = [todo EXCEPT ![s] = @ \ {d}] /\ sent' = sent
    BY <1>3 DEF Send
  <2>2. CASE SendOk(s, d)
    BY <2>1, <2>2 DEF SendOk
  <2>3. CASE SendFull(s, d) \/ SendClosed(d)
    BY <2>1, <2>3 DEF SendFull, SendClosed
  <2> QED
    BY <1>3, <2>1, <2>2, <2>3 DEF Send
<1>4. ASSUME NEW d \in Conns, Drop(s, d)
      PROVE  UNCHANGED <<sent, todo, queue>>
  BY <1>4 DEF Drop
<1> QED
  BY <1>1, <1>2, <1>3, <1>4 DEF SourceStep
\* What BackOnlyFromSnapshot says of the page of c.
MayGoBack(c) ==
  view'[c] < view[c] =>
    \/ TakesMessage(c) /\ view[c] = snap[c]
    \/ GetsInit(c) /\ \E r \in Refreshes : answer[c][r].stage = "shown"
    \/ \E r \in Refreshes :
         /\ GetsAnswer(c, r)
         /\ r \notin fresh[c] \/ \E q \in Refreshes : q > r /\ answer[c][q].stage = "shown"

\* A view that stays does not go back.
LEMMA StaysPut ==
  ASSUME BaseInv, NEW c \in Conns, view'[c] = view[c]
  PROVE  MayGoBack(c)
BY Numbers DEF MayGoBack

\* The snapshot is not newer than the cache, and it is what the page then shows.
LEMMA OrderedSnapshot ==
  ASSUME BaseInv, OrderInv, NEW d \in Conns, NEW h, ReadDisks(d) \/ SendInit(d, h),
         NEW c \in Conns
  PROVE  Ordered(c)' /\ MayGoBack(c)
<1>1. UNCHANGED <<queue, todo, sent, cache>> /\ Ordered(c)
  BY DEF ReadDisks, SendInit, vars, srcVars, pollVars, OrderInv
<1>2. Due(c)' = Due(c)
  BY <1>1 DEF Due
<1>3. CASE c # d
  BY <1>1, <1>3, OrderedQuiet, StaysPut, Overtaken DEF ReadDisks, SendInit, refreshVars,
     BaseInv, PageTyped
<1>4. CASE c = d /\ ReadDisks(d)
  <2>1. /\ disks'[c] = cache /\ phase[c] # "stream" /\ view' = view /\ snap' = snap
        /\ answer' = answer /\ asked' = asked /\ fresh' = fresh
    BY <1>4 DEF ReadDisks, BaseInv, PageTyped, refreshVars
  <2>2. disks'[c] <= cache'
    BY <1>1, <2>1, Numbers
  <2>3. Refreshing(c)' /\ Past(c)' = Past(c)
    BY <1>1, <2>1, Numbers, RefreshingKept DEF Past, Ordered
  <2>4. view'[c] = 0 \/ \E r \in Refreshes : WasShown(c, r)'
    BY <1>1, <2>1, ShownStays DEF Ordered
  <2>5. MayGoBack(c)
    BY <2>1, StaysPut
  <2> QED
    BY <1>1, <1>2, <2>1, <2>2, <2>3, <2>4, <2>5 DEF Ordered
<1>5. CASE c = d /\ SendInit(d, h)
  <2>1. /\ view'[c] = disks[c] /\ snap'[c] = disks[c] /\ disks'[c] = disks[c]
        /\ phase[c] = "read" /\ phase'[c] = "stream"
    BY <1>5 DEF SendInit, BaseInv, PageTyped
  <2>2. Refreshing(c)'
    BY <1>1, <1>5, Overtaken, Numbers, RefreshingKept DEF SendInit, BaseInv, Ordered
  <2>3. ~Past(c)'
    BY <2>1 DEF Past
  <2>4. MayGoBack(c)
    <3>1. CASE view[c] = 0
      BY <2>1, <3>1, Numbers DEF MayGoBack
    <3>2. CASE view[c] # 0
      BY <1>1, <2>1, <3>2 DEF MayGoBack, Ordered, GetsInit, WasShown
    <3> QED
      BY <3>1, <3>2
  <2> QED
    BY <1>1, <1>2, <2>1, <2>2, <2>3, <2>4 DEF Ordered
<1> QED
  BY <1>3, <1>4, <1>5

\* What is received is newer than what the page shows, once that is an event.
LEMMA OrderedForward ==
  ASSUME BaseInv, OrderInv, NEW d \in Conns, Forward(d), NEW c \in Conns
  PROVE  Ordered(c)' /\ MayGoBack(c)
<1>1. UNCHANGED <<todo, sent, cache, phase, disks, snap, stale>> /\ Ordered(c)
  BY DEF Forward, Recv, srcVars, pollVars, OrderInv
<1>2. Due(c)' = Due(c)
  BY <1>1 DEF Due
<1>3. CASE c # d
  BY <1>1, <1>3, OrderedQuiet, StaysPut, Overtaken DEF Forward, Recv, BaseInv, PageTyped,
     IInv, TypeOK
<1>4. CASE c = d
  <2>1. queue[c] # <<>> /\ queue'[c] = Tail(queue[c]) /\ phase[c] = "stream"
    BY <1>4 DEF Forward, Recv, BaseInv, IInv, TypeOK
  <2>2. queue[c] \in Seq(Message) /\ Rising(queue[c])
    BY <1>1, Numbers DEF Ordered
  <2>3. PICK v, due, head : v = view[c] /\ due = Due(c) /\ head = Head(queue[c])
    OBVIOUS
  <2>4. /\ Rising(queue'[c])
        /\ Below(queue'[c], due)
        /\ Above(queue[c], v) => Above(queue'[c], v)
        /\ head.src = Smart =>
             /\ Above(queue'[c], head.seq) /\ head.seq < due
             /\ Above(queue[c], v) => head.seq > v
    BY <1>1, <2>1, <2>2, <2>3, RisingTail DEF Ordered
  <2>5. CASE head.src = Smart
    <3>1. view'[c] = head.seq
      BY <1>4, <2>3, <2>5 DEF Forward, BaseInv, PageTyped
    <3>2. Refreshing(c)'
      BY <1>1, <1>4, <2>3, <2>5, Overtaken, Numbers, RefreshingKept DEF Forward, BaseInv, Ordered
    <3>3. head.seq \in Nat
      <4>1. 1 \in DOMAIN queue[c] /\ head = queue[c][1]
        BY <2>1, <2>2, <2>3
      <4> QED
        BY <4>1, Numbers
    <3>4. head.seq <= cache
      BY <2>3, <2>4, <2>5, <3>3, Numbers
    <3>5. Above(queue'[c], view'[c]) /\ view'[c] < due
      BY <2>4, <2>5, <3>1
    <3>6. MayGoBack(c)
      <4>1. CASE Past(c)
        <5>1. view'[c] > view[c]
          BY <1>1, <2>3, <2>4, <2>5, <3>1, <4>1 DEF Ordered
        <5> QED
          BY <3>1, <3>3, <5>1, Numbers DEF MayGoBack
      <4>2. CASE ~Past(c)
        <5>1. TakesMessage(c)
          BY <2>1, <2>2 DEF TakesMessage
        <5> QED
          BY <1>1, <4>2, <5>1 DEF Past, MayGoBack
      <4> QED
        BY <4>1, <4>2
    <3> QED
      BY <1>1, <1>2, <2>1, <2>3, <2>4, <3>1, <3>2, <3>4, <3>5, <3>6 DEF Ordered
  <2>6. CASE head.src # Smart
    <3>1. view' = view /\ answer' = answer /\ asked' = asked /\ fresh' = fresh
      BY <1>4, <2>3, <2>6 DEF Forward
    <3>2. Past(c)' = Past(c) /\ Refreshing(c)' /\ MayGoBack(c)
      BY <1>1, <3>1, Numbers, StaysPut, RefreshingKept DEF Past, Ordered
    <3> QED
      BY <1>1, <1>2, <2>1, <2>3, <2>4, <3>1, <3>2 DEF Ordered
  <2> QED
    BY <2>5, <2>6
<1> QED
  BY <1>3, <1>4
\* A request that reads the cache reads nothing older than those before it did.
LEMMA RefreshingAsk ==
  ASSUME BaseInv, NEW c \in Conns, Ordered(c), AskHardware(c)
  PROVE  /\ Refreshing(c)'
         /\ \A r \in Refreshes : WasShown(c, r) => WasShown(c, r)'
<1>1. PICK all, n : all = Refreshes /\ n = asked[c] + 1
  OBVIOUS
<1>2. /\ n \in all /\ asked[c] \in Nat /\ asked'[c] = n /\ fresh'[c] = fresh[c] \cup {n}
      /\ answer'[c][n].stage = "disks" /\ answer'[c][n].disks = cache
      /\ \A q \in all : q # n => answer'[c][q] = answer[c][q]
      /\ view'[c] = view[c] /\ cache' = cache
  BY <1>1, AskEffect, Numbers DEF BaseInv, AskHardware, pollVars
<1>3. /\ cache \in Nat /\ view[c] \in Nat /\ view[c] <= cache /\ fresh[c] \subseteq all
      /\ \A r \in all : answer[c][r].disks \in Nat /\ r \in Nat
  BY <1>1, Numbers DEF Ordered
<1>4. /\ \A r \in all : answer[c][r].stage # "none" => r <= asked[c]
      /\ \A r \in all : InFlight(c, r) => answer[c][r].disks <= cache
      /\ \A q, r \in all :
           InFlight(c, q) /\ InFlight(c, r) /\ q < r => answer[c][q].disks <= answer[c][r].disks
      /\ \A r \in fresh[c] :
           InFlight(c, r) /\ (view[c] <= answer[c][r].disks \/ LaterShown(c, r))
  BY <1>1 DEF Ordered, Refreshing
<1>5. \A r \in all : (InFlight(c, r) \/ WasShown(c, r)) => r # n
  BY <1>1, <1>2, <1>3, <1>4 DEF InFlight, WasShown
<1>6. \A r \in all : r # n =>
        /\ InFlight(c, r)' <=> InFlight(c, r)
        /\ WasShown(c, r) => WasShown(c, r)'
  BY <1>2 DEF InFlight, WasShown
<1>7. InFlight(c, n)'
  BY <1>2 DEF InFlight
<1>8. \A r \in all : LaterShown(c, r) => LaterShown(c, r)'
  BY <1>1, <1>5, <1>6 DEF LaterShown
<1>9. \A r \in all : answer'[c][r].stage # "none" => r <= asked'[c]
  <2> TAKE r \in all
  <2>1. CASE r = n
    BY <1>2, <1>3, <2>1
  <2>2. CASE r # n
    BY <1>1, <1>2, <1>3, <1>4, <2>2
  <2> QED
    BY <2>1, <2>2
<1>10. \A r \in all : InFlight(c, r)' => answer'[c][r].disks <= cache'
  BY <1>2, <1>3, <1>4, <1>6
<1>11. ASSUME NEW q \in all, NEW r \in all, InFlight(c, q)', InFlight(c, r)', q < r
       PROVE  answer'[c][q].disks <= answer'[c][r].disks
  <2>1. CASE r = n
    BY <1>2, <1>3, <1>4, <1>6, <1>11, <2>1
  <2>2. CASE r # n
    <3>1. q # n
      <4>1. InFlight(c, r) /\ r <= asked[c]
        BY <1>4, <1>6, <1>11, <2>2 DEF InFlight
      <4> QED
        BY <1>1, <1>2, <1>3, <1>11, <4>1
    <3> QED
      BY <1>2, <1>4, <1>6, <1>11, <2>2, <3>1
  <2> QED
    BY <2>1, <2>2
<1>12. ASSUME NEW r \in fresh'[c]
       PROVE  InFlight(c, r)' /\ (view'[c] <= answer'[c][r].disks \/ LaterShown(c, r)')
  <2>1. CASE r = n
    BY <1>2, <1>3, <1>7, <2>1
  <2>2. CASE r # n
    <3>1. r \in fresh[c] /\ r \in all
      BY <1>2, <1>3, <1>12, <2>2
    <3> QED
      BY <1>2, <1>4, <1>6, <1>8, <2>2, <3>1
  <2> QED
    BY <2>1, <2>2
<1> QED
  BY <1>1, <1>5, <1>6, <1>9, <1>10, <1>11, <1>12 DEF Refreshing

\* What a request has read does not change with its answer.
LEMMA RefreshingAnswer ==
  ASSUME BaseInv, NEW c \in Conns, Ordered(c), NEW r \in Refreshes, NEW h \in Charts,
         AnswerHardware(c, r, h)
  PROVE  /\ Refreshing(c)'
         /\ \A q \in Refreshes : WasShown(c, q) => WasShown(c, q)'
<1>1. PICK all : all = Refreshes
  OBVIOUS
<1>2. /\ asked' = asked /\ fresh' = fresh /\ view' = view /\ cache' = cache
      /\ answer[c][r].stage = "disks" /\ answer'[c][r].stage = "sent"
      /\ answer'[c][r].disks = answer[c][r].disks
      /\ \A q \in all : q # r => answer'[c][q] = answer[c][q]
  BY <1>1, AnswerEffect DEF BaseInv, AnswerHardware, pollVars
<1>3. \A q \in all : /\ InFlight(c, q)' <=> InFlight(c, q)
                     /\ WasShown(c, q)' <=> WasShown(c, q)
                     /\ answer'[c][q].disks = answer[c][q].disks
                     /\ answer'[c][q].stage # "none" => answer[c][q].stage # "none"
  BY <1>2 DEF InFlight, WasShown
<1>4. \A q \in all : LaterShown(c, q)' <=> LaterShown(c, q)
  BY <1>1, <1>3 DEF LaterShown
<1>5. fresh[c] \subseteq all
  BY <1>1, Numbers
<1>6. Refreshing(c)
  BY DEF Ordered
<1>7. \A q \in all : answer'[c][q].stage # "none" => q <= asked'[c]
  BY <1>1, <1>2, <1>3, <1>6 DEF Refreshing
<1>8. \A q \in all : InFlight(c, q)' => answer'[c][q].disks <= cache'
  BY <1>1, <1>2, <1>3, <1>6 DEF Refreshing
<1>9. \A q, x \in all :
        InFlight(c, q)' /\ InFlight(c, x)' /\ q < x => answer'[c][q].disks <= answer'[c][x].disks
  BY <1>1, <1>2, <1>3, <1>6 DEF Refreshing
<1>10. \A q \in fresh'[c] :
         InFlight(c, q)' /\ (view'[c] <= answer'[c][q].disks \/ LaterShown(c, q)')
  BY <1>1, <1>2, <1>3, <1>4, <1>5, <1>6 DEF Refreshing
<1> QED
  BY <1>1, <1>3, <1>7, <1>8, <1>9, <1>10 DEF Refreshing

\* The answer that is shown is not newer than what later requests have read, and it is
\* a later one for the others; it goes back only if it was overtaken.
LEMMA RefreshingShow ==
  ASSUME BaseInv, NEW c \in Conns, Ordered(c), NEW r \in Refreshes, ShowHardware(c, r)
  PROVE  /\ Refreshing(c)' /\ view'[c] <= cache'
         /\ \E q \in Refreshes : WasShown(c, q)'
         /\ MayGoBack(c)
<1>1. PICK all : all = Refreshes
  OBVIOUS
<1>2. PICK w : w = answer[c][r].disks
  OBVIOUS
<1>3. /\ asked' = asked /\ fresh'[c] = fresh[c] \ {r} /\ view'[c] = w /\ cache' = cache
      /\ answer[c][r].stage = "sent" /\ answer'[c][r].stage = "shown"
      /\ \A q \in all : q # r => answer'[c][q] = answer[c][q]
  <2>1. view'[c] = w /\ cache' = cache
    BY <1>2 DEF BaseInv, ShowHardware, pollVars, PageTyped
  <2> QED
    BY <1>1, <2>1, ShowEffect DEF BaseInv
<1>4. /\ cache \in Nat /\ view[c] \in Nat /\ fresh[c] \subseteq all /\ w \in Nat /\ r \in all
      /\ \A q \in all : answer[c][q].disks \in Nat /\ q \in Nat
  BY <1>1, <1>2, Numbers DEF Ordered
<1>5. /\ \A q \in all : answer[c][q].stage # "none" => q <= asked[c]
      /\ \A q \in all : InFlight(c, q) => answer[c][q].disks <= cache
      /\ \A q, x \in all :
           InFlight(c, q) /\ InFlight(c, x) /\ q < x => answer[c][q].disks <= answer[c][x].disks
      /\ \A q \in fresh[c] :
           InFlight(c, q) /\ (view[c] <= answer[c][q].disks \/ LaterShown(c, q))
  BY <1>1 DEF Ordered, Refreshing
<1>6. InFlight(c, r) /\ ~InFlight(c, r)' /\ WasShown(c, r)'
  BY <1>3 DEF InFlight, WasShown
<1>7. \A q \in all : q # r =>
        /\ InFlight(c, q)' <=> InFlight(c, q)
        /\ answer'[c][q] = answer[c][q]
  BY <1>3 DEF InFlight
<1>8. \A q \in all : q < r => LaterShown(c, q)'
  BY <1>1, <1>4, <1>6 DEF LaterShown
<1>9. \A q \in all : answer'[c][q].stage # "none" => q <= asked'[c]
  BY <1>3, <1>4, <1>5
<1>10. \A q \in all : InFlight(c, q)' => answer'[c][q].disks <= cache'
  BY <1>3, <1>5, <1>6, <1>7
<1>11. \A q, x \in all :
         InFlight(c, q)' /\ InFlight(c, x)' /\ q < x => answer'[c][q].disks <= answer'[c][x].disks
  BY <1>5, <1>6, <1>7
<1>12. ASSUME NEW q \in fresh'[c]
       PROVE  InFlight(c, q)' /\ (view'[c] <= answer'[c][q].disks \/ LaterShown(c, q)')
  <2>1. q \in fresh[c] /\ q \in all /\ q # r /\ InFlight(c, q) /\ InFlight(c, q)'
    BY <1>3, <1>4, <1>5, <1>7, <1>12
  <2>2. CASE q < r
    BY <1>8, <2>1, <2>2
  <2>3. CASE r < q
    BY <1>2, <1>3, <1>4, <1>5, <1>6, <1>7, <2>1, <2>3
  <2> QED
    BY <1>4, <2>1, <2>2, <2>3
<1>13. Refreshing(c)'
  BY <1>1, <1>9, <1>10, <1>11, <1>12 DEF Refreshing
<1>14. view'[c] <= cache'
  BY <1>2, <1>3, <1>4, <1>5, <1>6
<1>15. r \in fresh[c] => view[c] <= w \/ LaterShown(c, r)
  BY <1>2, <1>5
<1>16. view[c] <= w => ~(view'[c] < view[c])
  BY <1>3, <1>4
<1>17. GetsAnswer(c, r)
  BY <1>3 DEF GetsAnswer
<1>18. MayGoBack(c)
  BY <1>15, <1>16, <1>17 DEF MayGoBack, LaterShown, WasShown
<1> QED
  BY <1>1, <1>4, <1>6, <1>13, <1>14, <1>18

\* A refresh reads the cache, which no view is newer than; its answer becomes the snapshot.
LEMMA OrderedRefresh ==
  ASSUME BaseInv, OrderInv, NEW d \in Conns, Refresh(d), NEW c \in Conns
  PROVE  Ordered(c)' /\ MayGoBack(c)
<1>1. UNCHANGED <<queue, todo, sent, cache, phase, disks>> /\ Ordered(c)
  BY DEF Refresh, AskHardware, AnswerHardware, ShowHardware, vars, srcVars, pollVars, OrderInv
<1>2. Due(c)' = Due(c)
  BY <1>1 DEF Due
<1>3. CASE c # d
  BY <1>1, <1>3, RefreshEffect, OrderedQuiet, StaysPut DEF BaseInv
<1>4. ASSUME Refreshing(c)', \A r \in Refreshes : WasShown(c, r) => WasShown(c, r)',
             UNCHANGED <<view, snap>>
      PROVE  Ordered(c)' /\ MayGoBack(c)
  <2>1. Past(c)' = Past(c) /\ MayGoBack(c)
    BY <1>4, StaysPut DEF Past
  <2>2. phase'[c] # "stream" => view'[c] = 0 \/ \E r \in Refreshes : WasShown(c, r)'
    BY <1>1, <1>4 DEF Ordered
  <2> QED
    BY <1>1, <1>2, <1>4, <2>1, <2>2 DEF Ordered
<1>5. CASE c = d /\ AskHardware(d)
  BY <1>1, <1>4, <1>5, RefreshingAsk DEF AskHardware
<1>6. ASSUME c = d, NEW r \in Refreshes, NEW h \in Charts, AnswerHardware(d, r, h)
      PROVE  Ordered(c)' /\ MayGoBack(c)
  BY <1>1, <1>4, <1>6, RefreshingAnswer DEF AnswerHardware
<1>7. ASSUME c = d, NEW r \in Refreshes, ShowHardware(d, r)
      PROVE  Ordered(c)' /\ MayGoBack(c)
  <2>1. ~Past(c)'
    BY <1>7 DEF ShowHardware, BaseInv, PageTyped, Past
  <2>2. /\ Refreshing(c)' /\ view'[c] <= cache'
        /\ \E q \in Refreshes : WasShown(c, q)'
        /\ MayGoBack(c)
    BY <1>1, <1>7, RefreshingShow
  <2> QED
    BY <1>1, <1>2, <2>1, <2>2 DEF Ordered
<1>8. CASE c = d
  BY <1>5, <1>6, <1>7, <1>8, RefreshCases DEF BaseInv
<1> QED
  BY <1>3, <1>8

\* A Broadcast adds the least version that may still be added, or a notice.
LEMMA OrderedFan ==
  ASSUME BaseInv, OrderInv, NEW s \in Sources, Fan(s), NEW c \in Conns
  PROVE  Ordered(c)' /\ MayGoBack(c)
<1>1. UNCHANGED <<cache, smartPc, phase, disks, view, snap, answer, asked, fresh>> /\ Ordered(c)
  BY DEF Fan, pollVars, pageVars, refreshVars, OrderInv
<1> DEFINE m == [src |-> s, seq |-> sent[s]]
<1>2. /\ sent'[Smart] = sent[Smart] /\ todo'[Smart] \subseteq todo[Smart]
      /\ \/ queue'[c] = queue[c]
         \/ /\ queue'[c] = Append(queue[c], m)
            /\ s = Smart => c \in todo[Smart] /\ c \notin todo'[Smart]
  BY FanOrder DEF Fan, BaseInv, IInv
<1>3. Due(c) <= Due(c)' /\ Due(c)' \in Nat
  BY <1>2, Numbers DEF Due
<1>4. MayGoBack(c)
  BY <1>1, StaysPut
<1>5. CASE queue'[c] = queue[c]
  <2>1. cache' \in Nat /\ cache <= cache' /\ sent'[Smart] \in Nat
    BY <1>1, <1>2, Numbers
  <2> QED
    BY <1>1, <1>3, <1>4, <1>5, <2>1, OrderedCalm
<1>6. CASE /\ queue'[c] = Append(queue[c], m)
           /\ s = Smart => c \in todo[Smart] /\ c \notin todo'[Smart]
  <2>1. PICK more : more = Due(c)'
    OBVIOUS
  <2>2. m.src = s /\ (s = Smart => m.seq = Due(c) /\ Due(c) < more)
    BY <1>2, <1>6, <2>1, Numbers DEF Due
  <2>3. Rising(queue'[c]) /\ Below(queue'[c], more)
    BY <1>1, <1>3, <1>6, <2>1, <2>2, Numbers, RisingAppend DEF Ordered
  <2>4. ASSUME Past(c)
        PROVE  Above(queue'[c], view[c]) /\ view[c] < more
    <3>1. Above(queue[c], view[c]) /\ view[c] < Due(c)
      BY <1>1, <2>4 DEF Ordered
    <3>2. m.src = Smart => m.seq > view[c]
      BY <2>2, <3>1
    <3> QED
      BY <1>3, <1>6, <2>1, <3>1, <3>2, Numbers, AboveAppend
  <2>5. Past(c)' = Past(c) /\ Refreshing(c)'
    BY <1>1, Numbers, RefreshingKept DEF Past, Ordered
  <2>6. phase'[c] # "stream" => view'[c] = 0 \/ \E r \in Refreshes : WasShown(c, r)'
    BY <1>1, ShownStays DEF Ordered
  <2> QED
    BY <1>1, <1>4, <2>1, <2>3, <2>4, <2>5, <2>6 DEF Ordered
<1> QED
  BY <1>2, <1>5, <1>6

\* A collection only adds to what versions there are.
LEMMA OrderedPoll ==
  ASSUME BaseInv, OrderInv, Poll, NEW c \in Conns
  PROVE  Ordered(c)' /\ MayGoBack(c)
<1>1. UNCHANGED <<queue, phase, disks, view, snap, answer, asked, fresh>> /\ Ordered(c)
  BY DEF Poll, SmartCache, SmartInsert, SmartPrune, SmartBroadcast, Broadcast, vars,
     pageVars, refreshVars, OrderInv
<1>2. cache' \in Nat /\ cache <= cache'
  BY Numbers DEF Poll, SmartCache, SmartInsert, SmartPrune, SmartBroadcast
<1>3. CASE SmartBroadcast
  <2>1. sent'[Smart] = sent[Smart] + 1
    BY <1>3, SmartAssumption DEF SmartBroadcast, Broadcast, BaseInv, IInv, TypeOK
  <2>2. sent'[Smart] \in Nat /\ Due(c) <= Due(c)'
    BY <2>1, Numbers DEF Due
  <2> QED
    BY <1>1, <1>2, <2>2, OrderedCalm, StaysPut
<1>4. CASE ~SmartBroadcast
  <2>1. sent' = sent /\ todo' = todo
    BY <1>4 DEF Poll, SmartCache, SmartInsert, SmartPrune, vars, srcVars
  <2>2. sent'[Smart] \in Nat /\ Due(c) <= Due(c)'
    BY <2>1, Numbers DEF Due
  <2> QED
    BY <1>1, <1>2, <2>2, OrderedCalm, StaysPut
<1> QED
  BY <1>3, <1>4

\* No step brings the order of versions into disarray.
LEMMA OrderedStep ==
  ASSUME BaseInv, OrderInv, [EventsNext]_eventVars, NEW c \in Conns
  PROVE  Ordered(c)' /\ MayGoBack(c)
<1>1. ASSUME UNCHANGED <<queue, phase, disks, view, snap, asked, answer, fresh, cache, sent, todo>>
      PROVE  Ordered(c)' /\ MayGoBack(c)
  BY <1>1, OrderedQuiet, StaysPut DEF OrderInv
<1>2. ASSUME NEW d \in Conns, Call(d) \/ EndStream(d)
      PROVE  Ordered(c)' /\ MayGoBack(c)
  <2>1. UNCHANGED <<queue, todo, sent, cache>>
    BY <1>2, CallEffect DEF BaseInv, IInv
  <2>2. UNCHANGED <<phase, disks, view, snap, asked, answer, fresh>>
    BY <1>2 DEF Call, EndStream, pageVars, refreshVars
  <2> QED
    BY <1>1, <2>1, <2>2
<1>3. ASSUME NEW d \in Conns, Handler(d)
      PROVE  Ordered(c)' /\ MayGoBack(c)
  BY <1>2, <1>3, OrderedSnapshot, OrderedForward DEF Handler
<1>4. CASE EventsHalted \/ UNCHANGED eventVars
  BY <1>1, <1>4 DEF EventsHalted, Halted, eventVars, vars, srcVars, pollVars, pageVars, refreshVars
<1> QED
  BY <1>3, <1>4, OrderedRefresh, OrderedFan, OrderedPoll DEF EventsNext

\* Nothing is queued or shown at first.
LEMMA OrderInit == EventsInit => OrderInv
<1> SUFFICES ASSUME EventsInit, NEW c \in Conns
             PROVE  Ordered(c)
  BY DEF OrderInv
<1>1. queue[c] = <<>> /\ view[c] = 0 /\ disks[c] = 0 /\ snap[c] = 0 /\ cache = 0
      /\ fresh[c] = {}
  BY DEF EventsInit, Init
<1>2. DOMAIN queue[c] = {}
  BY <1>1
<1>3. \A r \in Refreshes : answer[c][r].stage = "none"
  BY DEF EventsInit, Answer
<1>4. Refreshing(c)
  BY <1>1, <1>3 DEF Refreshing, InFlight
<1> QED
  BY <1>1, <1>2, <1>4 DEF Ordered, Rising, Below, Past

\* The table of a page goes back only by what was queued before its snapshot was read, by
\* the init event that follows the answer to a refresh, or by an answer overtaken by an
\* event or by the answer to a later refresh: for every number of pages, sources,
\* collections and refreshes, any number of them in flight.
THEOREM BackCorrect == EventsSpec => BackOnlyFromSnapshot
<1> DEFINE Inv == BaseInv /\ OrderInv
<1>1. EventsInit => Inv
  BY BaseInit, OrderInit
<1>2. Inv /\ [EventsNext]_eventVars => Inv'
  BY BaseStep, OrderedStep DEF OrderInv
<1>3. Inv /\ [EventsNext]_eventVars =>
        [\A c \in Conns : MayGoBack(c)]_eventVars
  BY OrderedStep
<1> QED
  BY <1>1, <1>2, <1>3, PTL DEF EventsSpec, BackOnlyFromSnapshot, MayGoBack

-----------------------------------------------------------------------------
(* Charts *)

\* What EventsTypeOK says of charts but for the times of their points.
ChartInv ==
  /\ whole \subseteq Conns
  /\ chart \in [Conns -> Charts]

\* Shifting keeps every point whose reading is in the window.
LEMMA ShiftedCharts ==
  ASSUME cache \in Versions, NEW q \in Charts
  PROVE  /\ Shifted(q) \in Charts
         /\ \A r \in Nat : r + Window > cache /\ Drawn(r, q) => Drawn(r, Shifted(q))
<1> USE MaxBroadcastsAssumption, WindowAssumption
<1>1. /\ Len(q) \in Nat /\ DOMAIN q = 1..Len(q)
      /\ \A i \in 1..Len(q) : q[i] \in Point /\ q[i].of \in Nat /\ q[i].ts \in Nat /\ q[i].of <= q[i].ts
  <2>1. \A p \in {p \in Point : p.of <= p.ts} : p \in Point /\ p.of \in Nat /\ p.ts \in Nat /\ p.of <= p.ts
    BY DEF Point, Versions
  <2> QED
    BY <2>1 DEF Charts
<1>2. cache \in Nat
  BY DEF Versions
<1>3. PICK young : young = {i \in DOMAIN q : q[i].ts + Window >= cache}
  OBVIOUS
<1>4. \A i \in DOMAIN q : q[i].of + Window > cache => i \in young
  BY <1>1, <1>2, <1>3
<1>5. CASE young = {}
  <2>1. Shifted(q) = <<>>
    BY <1>3, <1>5 DEF Shifted
  <2>2. <<>> \in Charts
    BY DEF Charts
  <2> QED
    BY <1>4, <1>5, <2>1, <2>2 DEF Drawn
<1>6. CASE young # {}
  <2>1. PICK first \in young : \A j \in young : first <= j
    <3>1. young \in SUBSET (1..Len(q))
      BY <1>1, <1>3
    <3> QED
      BY <1>1, <1>6, <3>1, Least
  <2>2. (CHOOSE i \in young : \A j \in young : i <= j) = first
    <3>1. \A i \in young : i \in Nat
      BY <1>1, <1>3
    <3>2. \A i \in young : (\A j \in young : i <= j) => i = first
      BY <2>1, <3>1
    <3> QED
      BY <2>1, <3>2
  <2>3. Shifted(q) = SubSeq(q, first, Len(q))
    BY <1>3, <1>6, <2>2 DEF Shifted
  <2>4. PICK s : s = SubSeq(q, first, Len(q))
    OBVIOUS
  <2>5. first \in 1..Len(q)
    BY <1>1, <1>3, <2>1
  <2>6. s \in Charts
    BY <2>4, <2>5 DEF Charts
  <2>7. /\ DOMAIN s = 1..Len(q) - first + 1
        /\ \A k \in 1..Len(q) - first + 1 : s[k] = q[first + k - 1]
    BY <1>1, <2>4, <2>5
  <2>8. ASSUME NEW i \in DOMAIN q, q[i].of + Window > cache
        PROVE  i - first + 1 \in DOMAIN s /\ s[i - first + 1] = q[i]
    <3>1. i \in young /\ i >= first
      BY <1>4, <2>1, <2>8
    <3>2. i - first + 1 \in 1..Len(q) - first + 1 /\ first + (i - first + 1) - 1 = i
      BY <1>1, <2>5, <3>1
    <3> QED
      BY <2>7, <3>2
  <2> QED
    BY <2>3, <2>4, <2>6, <2>8 DEF Drawn
<1> QED
  BY <1>5, <1>6

\* A point is added at the present, and nothing of the window is lost.
LEMMA WithPointCharts ==
  ASSUME cache \in Versions, NEW q \in Charts, NEW v \in Versions, v <= cache
  PROVE  /\ WithPoint(q, v) \in Charts
         /\ \A r \in Nat : r + Window > cache /\ Drawn(r, q) => Drawn(r, WithPoint(q, v))
         /\ v # 0 /\ v + Window > cache => Drawn(v, WithPoint(q, v))
<1> USE MaxBroadcastsAssumption, WindowAssumption
<1>1. CASE v = 0
  BY <1>1 DEF WithPoint
<1>2. CASE v # 0
  <2>1. PICK p : p = [of |-> v, ts |-> cache]
    OBVIOUS
  <2>2. PICK all : all = Append(q, p)
    OBVIOUS
  <2>3. WithPoint(q, v) = Shifted(all)
    BY <1>2, <2>1, <2>2 DEF WithPoint
  <2>4. p \in {x \in Point : x.of <= x.ts} /\ p.of = v
    BY <1>2, <2>1 DEF Point
  <2>5. all \in Charts
    BY <2>2, <2>4 DEF Charts
  <2>6. /\ Len(q) \in Nat /\ DOMAIN q = 1..Len(q) /\ DOMAIN all = 1..Len(q) + 1
        /\ all[Len(q) + 1] = p /\ \A i \in 1..Len(q) : all[i] = q[i]
    BY <2>2 DEF Charts
  <2>7. Drawn(v, all) /\ \A r \in Nat : Drawn(r, q) => Drawn(r, all)
    BY <2>4, <2>6 DEF Drawn
  <2>8. /\ Shifted(all) \in Charts
        /\ \A r \in Nat : r + Window > cache /\ Drawn(r, all) => Drawn(r, Shifted(all))
    BY <2>5, ShiftedCharts
  <2> QED
    BY <2>3, <2>7, <2>8 DEF Versions
<1> QED
  BY <1>1, <1>2

\* What is received from the SMART poller is no newer than its cache.
LEMMA Received ==
  ASSUME BaseInv, OrderInv, NEW c \in Conns, queue[c] # <<>>, Head(queue[c]).src = Smart
  PROVE  Head(queue[c]).seq \in Versions /\ Head(queue[c]).seq <= cache
<1>1. 1 \in DOMAIN queue[c] /\ Head(queue[c]) = queue[c][1]
  BY Numbers
<1>2. queue[c][1].seq \in Nat /\ queue[c][1].seq < Due(c)
  BY <1>1, Numbers DEF OrderInv, Ordered, Below
<1>3. queue[c][1].seq <= cache
  BY <1>2, Numbers
<1> QED
  <2>1. cache \in 0..MaxBroadcasts
    BY DEF BaseInv, CollectInv, Versions
  <2>2. queue[c][1].seq \in 0..MaxBroadcasts
    BY <1>2, <1>3, <2>1, MaxBroadcastsAssumption
  <2> QED
    BY <1>1, <1>3, <2>2 DEF Versions

\* Points are drawn at the present, which is not before what is drawn.
LEMMA ChartStep ==
  ASSUME BaseInv, OrderInv, ChartInv, [EventsNext]_eventVars
  PROVE  ChartInv'
<1> USE DEF ChartInv
<1>1. ASSUME UNCHANGED <<whole, chart>>
      PROVE  ChartInv'
  BY <1>1
<1>2. cache \in Versions /\ rows \subseteq 1..MaxBroadcasts /\ PageTyped
  BY DEF BaseInv, CollectInv
<1>3. ASSUME NEW c \in Conns, Call(c) \/ EndStream(c) \/ ReadDisks(c)
      PROVE  ChartInv'
  BY <1>1, <1>3 DEF Call, EndStream, ReadDisks, pageVars
<1>4. ASSUME NEW c \in Conns, NEW h \in Histories, SendInit(c, h)
      PROVE  ChartInv'
  <2>1. PICK new : new = IF h # <<>> THEN h ELSE WithPoint(chart[c], disks[c])
    OBVIOUS
  <2>2. whole' \subseteq Conns /\ chart' = [chart EXCEPT ![c] = new]
    BY <1>4, <2>1 DEF SendInit
  <2>3. disks[c] \in Versions /\ disks[c] <= cache /\ chart[c] \in Charts
    BY <1>2 DEF OrderInv, Ordered, PageTyped
  <2>4. WithPoint(chart[c], disks[c]) \in Charts /\ h \in Charts
    BY <1>2, <2>3, WithPointCharts, HistoriesCharts
  <2> QED
    BY <2>1, <2>2, <2>4
<1>5. ASSUME NEW c \in Conns, Forward(c)
      PROVE  ChartInv'
  <2>1. PICK v : v = Head(queue[c]).seq
    OBVIOUS
  <2>2. CASE Head(queue[c]).src = Smart
    <3>1. PICK new : new = WithPoint(chart[c], v)
      OBVIOUS
    <3>2. whole' = whole /\ chart' = [chart EXCEPT ![c] = new]
      BY <1>5, <2>1, <2>2, <3>1 DEF Forward
    <3>3. v \in Versions /\ v <= cache /\ chart[c] \in Charts
      BY <1>5, <2>1, <2>2, Received DEF Forward, Recv
    <3>4. new \in Charts
      BY <1>2, <3>1, <3>3, WithPointCharts
    <3> QED
      BY <3>2, <3>4
  <2>3. CASE Head(queue[c]).src # Smart
    BY <1>1, <1>5, <2>3 DEF Forward
  <2> QED
    BY <2>2, <2>3
<1>6. ASSUME NEW c \in Conns, AskHardware(c) \/ \E r \in Refreshes, h \in Charts : AnswerHardware(c, r, h)
      PROVE  ChartInv'
  BY <1>1, <1>6 DEF AskHardware, AnswerHardware
<1>7. ASSUME NEW c \in Conns, NEW r \in Refreshes, ShowHardware(c, r)
      PROVE  ChartInv'
  <2>1. PICK new : new = Shifted(answer[c][r].history)
    OBVIOUS
  <2>2. whole' \subseteq Conns /\ chart' = [chart EXCEPT ![c] = new]
    BY <1>7, <2>1 DEF ShowHardware
  <2>3. new \in Charts
    BY <1>2, <2>1, AnswerTyped, ShiftedCharts
  <2> QED
    BY <2>2, <2>3
<1>8. ASSUME NEW s \in Sources, Fan(s)
      PROVE  ChartInv'
  BY <1>1, <1>8 DEF Fan, pageVars
<1>9. CASE Poll
  BY <1>1, <1>9 DEF Poll, SmartCache, SmartInsert, SmartPrune, SmartBroadcast, pageVars
<1>10. CASE EventsHalted \/ UNCHANGED eventVars
  BY <1>1, <1>10 DEF EventsHalted, eventVars, pageVars
<1>11. ASSUME NEW c \in Conns, Refresh(c)
       PROVE  ChartInv'
  BY <1>6, <1>7, <1>11, RefreshCases DEF BaseInv
<1> QED
  BY <1>3, <1>4, <1>5, <1>8, <1>9, <1>10, <1>11 DEF EventsNext, Handler

\* A page starts with nothing on its chart.
LEMMA ChartInit == EventsInit => ChartInv
BY NoAnswerParts DEF EventsInit, ChartInv

\* Every variable of the live stream stays in its type: in particular no chart has a
\* point of a version that was never collected.
THEOREM EventsTypeCorrect == EventsSpec => []EventsTypeOK
<1> DEFINE Inv == BaseInv /\ OrderInv /\ ChartInv
<1>1. EventsInit => Inv
  BY BaseInit, OrderInit, ChartInit
<1>2. Inv /\ [EventsNext]_eventVars => Inv'
  BY BaseStep, OrderedStep, ChartStep DEF OrderInv
<1>3. Inv => EventsTypeOK
  <2> SUFFICES ASSUME Inv
               PROVE  EventsTypeOK
    OBVIOUS
  <2>1. Charts \subseteq Seq(Point)
    BY DEF Charts
  <2>2. chart \in [Conns -> Seq(Point)]
    BY <2>1 DEF ChartInv
  <2>3. answer \in [Conns -> [Refreshes -> [stage : {"none", "disks", "sent", "shown"},
                                           disks : Versions, history : Seq(Point)]]]
    <3>1. Answers \subseteq [stage : {"none", "disks", "sent", "shown"},
                             disks : Versions, history : Seq(Point)]
      BY <2>1 DEF Answers
    <3> QED
      BY <3>1 DEF BaseInv, PageTyped
  <2>4. rows \subseteq Versions
    BY MaxBroadcastsAssumption DEF BaseInv, CollectInv, Versions
  <2> QED
    BY <2>2, <2>3, <2>4 DEF EventsTypeOK, BaseInv, IInv, CollectInv, PageTyped, ChartInv
<1> QED
  BY <1>1, <1>2, <1>3, PTL DEF EventsSpec

-----------------------------------------------------------------------------
(* No reading is missing on a chart *)

\* Every reading of the window is drawn in ch, on its way to c, or that of the collection
\* under way.
OnItsWay(c, r) == \E i \in DOMAIN queue[c] : IsUpdate(queue[c][i], r)
Complete(c, ch) ==
  \A r \in rows : r + Window > cache =>
    Drawn(r, ch) \/ OnItsWay(c, r) \/ (Unsettled(c) /\ r = cache)

\* So are the chart that the page of c has and the answers that will replace it.
IsAnswered(c, h) ==
  \E r \in fresh[c] : answer[c][r].stage = "sent" /\ answer[c][r].history = h /\ h # <<>>
Charted(c) ==
  phase[c] = "stream" =>
    /\ c \in whole \ stale => Complete(c, chart[c])
    /\ \A h : IsAnswered(c, h) => Complete(c, h)
CompleteInv == \A c \in clients : Charted(c)

AllInv == BaseInv /\ OrderInv /\ ChartInv /\ CompleteInv

\* A step that takes nothing from the channel of c.
LEMMA CompleteKept ==
  ASSUME rows' \subseteq rows, cache' = cache, NEW c,
         \A r \in rows : OnItsWay(c, r) => OnItsWay(c, r)',
         Unsettled(c) => Unsettled(c)' \/ OnItsWay(c, cache)'
  PROVE  \A z : Complete(c, z) => Complete(c, z)'
<1> SUFFICES ASSUME NEW z, Complete(c, z), NEW r \in rows', r + Window > cache'
             PROVE  Drawn(r, z) \/ OnItsWay(c, r)' \/ (Unsettled(c)' /\ r = cache')
  BY DEF Complete
<1>1. Drawn(r, z) \/ OnItsWay(c, r) \/ (Unsettled(c) /\ r = cache)
  BY DEF Complete
<1>2. CASE Unsettled(c) /\ r = cache
  <2>1. OnItsWay(c, cache)' => OnItsWay(c, r)'
    BY <1>2 DEF OnItsWay
  <2> QED
    BY <1>2, <2>1
<1> QED
  BY <1>1, <1>2

\* In particular one that leaves channel, store and collection alone.
LEMMA CompleteCalm ==
  ASSUME NEW c, queue'[c] = queue[c], UNCHANGED <<rows, cache, smartPc>>,
         OwedTo(c) => OwedTo(c)'
  PROVE  \A z : Complete(c, z) => Complete(c, z)'
<1>1. \A r \in rows : OnItsWay(c, r) => OnItsWay(c, r)'
  BY DEF OnItsWay
<1>2. Unsettled(c) => Unsettled(c)'
  BY DEF Unsettled, OwedTo
<1> QED
  BY <1>1, <1>2, CompleteKept

\* The message that settles a client carries the reading that was missing.
LEMMA CompletePush ==
  ASSUME BaseInv, NEW s \in Sources, NEW c \in Conns, UNCHANGED <<rows, cache, smartPc>>,
         queue'[c] = Append(queue[c], [src |-> s, seq |-> sent[s]]),
         srcPc[s] = "send", s # Smart => (OwedTo(c) => OwedTo(c)')
  PROVE  \A z : Complete(c, z) => Complete(c, z)'
<1> DEFINE m == [src |-> s, seq |-> sent[s]]
           q == queue[c]
<1>1. q \in Seq(Message)
  BY DEF BaseInv, IInv, TypeOK
<1>2. /\ DOMAIN queue'[c] = 1..Len(q) + 1 /\ Len(q) \in Nat /\ DOMAIN q = 1..Len(q)
      /\ \A i \in DOMAIN q : queue'[c][i] = q[i]
      /\ queue'[c][Len(q) + 1] = m
  BY <1>1, Pushed
<1>3. \A r \in rows : OnItsWay(c, r) => OnItsWay(c, r)'
  BY <1>2 DEF OnItsWay
<1>4. Unsettled(c) => Unsettled(c)' \/ OnItsWay(c, cache)'
  <2>1. CASE s = Smart
    <3>1. smartPc = "wait" /\ sent[s] = cache
      BY <2>1 DEF BaseInv, CollectInv
    <3>2. Len(q) + 1 \in DOMAIN queue'[c] /\ IsUpdate(queue'[c][Len(q) + 1], cache)
      BY <1>2, <2>1, <3>1 DEF IsUpdate
    <3> QED
      BY <3>2 DEF OnItsWay, IsUpdate
  <2>2. CASE s # Smart
    BY <2>2 DEF Unsettled, OwedTo
  <2> QED
    BY <2>1, <2>2
<1> QED
  BY <1>3, <1>4, CompleteKept

\* What is received from the channel is drawn instead.
LEMMA CompletePop ==
  ASSUME BaseInv, NEW c \in Conns, Recv(c), UNCHANGED <<rows, cache, smartPc>>,
         rows \subseteq Nat, NEW y, NEW z, Complete(c, z),
         \A r \in Nat : r + Window > cache /\ Drawn(r, z) => Drawn(r, y),
         Head(queue[c]).src = Smart =>
           \A r \in rows : r + Window > cache /\ r = Head(queue[c]).seq => Drawn(r, y)
  PROVE  Complete(c, y)'
<1> DEFINE q == queue[c]
<1>1. q \in Seq(Message) /\ q # <<>> /\ queue'[c] = Tail(q) /\ UNCHANGED srcVars
  BY DEF BaseInv, IInv, TypeOK, Recv
<1>2. /\ DOMAIN q = 1..Len(q) /\ Len(q) \in Nat \ {0} /\ Head(q) = q[1]
      /\ DOMAIN Tail(q) = 1..Len(q) - 1
      /\ \A i \in 1..Len(q) - 1 : Tail(q)[i] = q[i + 1]
  BY <1>1, Popped
<1>3. Unsettled(c) => Unsettled(c)'
  BY <1>1 DEF srcVars, Unsettled
<1> SUFFICES ASSUME NEW r \in rows', r + Window > cache'
             PROVE  Drawn(r, y) \/ OnItsWay(c, r)' \/ (Unsettled(c)' /\ r = cache')
  BY DEF Complete
<1>4. Drawn(r, z) \/ OnItsWay(c, r) \/ (Unsettled(c) /\ r = cache)
  BY DEF Complete
<1>5. ASSUME NEW i \in DOMAIN q, IsUpdate(q[i], r)
      PROVE  Drawn(r, y) \/ OnItsWay(c, r)'
  <2>1. CASE i = 1
    BY <1>2, <1>5, <2>1 DEF IsUpdate
  <2>2. CASE i # 1
    <3>1. i - 1 \in 1..Len(q) - 1 /\ (i - 1) + 1 = i
      BY <1>2, <2>2
    <3>2. i - 1 \in DOMAIN queue'[c] /\ queue'[c][i - 1] = q[i]
      BY <1>1, <1>2, <3>1
    <3> QED
      BY <1>5, <3>2 DEF OnItsWay, IsUpdate
  <2> QED
    BY <2>1, <2>2
<1> QED
  BY <1>3, <1>4, <1>5 DEF OnItsWay

\* A client stays served with all points as long as neither its page nor its channel
\* lose any.
LEMMA ChartedKept ==
  ASSUME NEW c, Charted(c), phase'[c] = phase[c], chart'[c] = chart[c],
         \A h : IsAnswered(c, h)' => IsAnswered(c, h), (c \in whole) <=> (c \in whole'),
         (c \in stale) <=> (c \in stale'),
         \A z : Complete(c, z) => Complete(c, z)'
  PROVE  Charted(c)'
<1>1. PICK y : y = chart[c]
  OBVIOUS
<1>2. phase[c] = "stream" /\ c \in whole \ stale => Complete(c, y)'
  BY <1>1 DEF Charted
<1>3. phase'[c] = "stream" /\ c \in (whole \ stale)' => Complete(c, chart[c])'
  BY <1>1, <1>2 DEF Complete
<1>4. phase'[c] = "stream" => \A h : IsAnswered(c, h)' => Complete(c, h)'
  BY DEF Charted
<1> QED
  BY <1>3, <1>4 DEF Charted

\* The answers of a page stay as they are.
LEMMA AnsweredKept ==
  ASSUME NEW c, answer'[c] = answer[c], fresh'[c] = fresh[c]
  PROVE  \A h : IsAnswered(c, h)' => IsAnswered(c, h)
BY DEF IsAnswered

\* Charted(c) after a step, for the chart that c then has.
LEMMA ChartedBy ==
  ASSUME NEW c, NEW y, chart'[c] = y,
         c \in (whole \ stale)' => Complete(c, y)',
         \A h : IsAnswered(c, h)' => Complete(c, h)'
  PROVE  Charted(c)'
<1>1. c \in (whole \ stale)' => Complete(c, chart[c])'
  BY DEF Complete
<1> QED
  BY <1>1 DEF Charted

\* The calls of the handlers; one that has just registered is not on the stream yet.
LEMMA ChartedCall ==
  ASSUME AllInv, NEW d \in Conns, Call(d) \/ EndStream(d), NEW c \in Conns, c \in clients'
  PROVE  Charted(c)'
<1>1. UNCHANGED <<queue, todo, slow, cache, smartPc>>
  BY CallEffect DEF AllInv, BaseInv, IInv
<1>2. UNCHANGED <<rows, phase, chart, whole, answer, fresh, stale>>
  BY DEF Call, EndStream, pollVars, pageVars, refreshVars
<1>3. CASE c \in clients
  <2>1. Charted(c) /\ (OwedTo(c) => OwedTo(c)')
    BY <1>1, <1>3 DEF AllInv, CompleteInv, OwedTo
  <2> QED
    BY <1>1, <1>2, <2>1, CompleteCalm, AnsweredKept, ChartedKept
<1>4. CASE RegisterInsert(c)
  <2>1. phase[c] = "start"
    BY <1>4 DEF RegisterInsert, At, AllInv, BaseInv, HandlerInv, PageTyped
  <2> QED
    BY <1>2, <2>1 DEF Charted
<1> QED
  BY <1>3, <1>4, CallEffect DEF AllInv, BaseInv, IInv

\* The init snapshot carries the history whole, or the page is not held to it.
LEMMA ChartedSnapshot ==
  ASSUME AllInv, NEW d \in Conns, ReadDisks(d) \/ \E h \in Histories : SendInit(d, h),
         NEW c \in Conns, c \in clients'
  PROVE  Charted(c)'
<1>1. UNCHANGED <<queue, todo, slow, rows, cache, smartPc>> /\ c \in clients
  BY DEF ReadDisks, SendInit, vars, srcVars, pollVars
<1>2. Charted(c)
  BY <1>1 DEF AllInv, CompleteInv
<1>3. \A z : Complete(c, z) => Complete(c, z)'
  <2>1. OwedTo(c) => OwedTo(c)'
    BY <1>1 DEF OwedTo
  <2> QED
    BY <1>1, <2>1, CompleteCalm
<1>4. CASE c # d
  BY <1>1, <1>2, <1>3, <1>4, Overtaken, AnsweredKept, ChartedKept
     DEF ReadDisks, SendInit, refreshVars, AllInv, BaseInv, PageTyped, ChartInv
<1>5. CASE c = d /\ ReadDisks(d)
  <2>1. phase'[c] = "read"
    BY <1>5 DEF ReadDisks, AllInv, BaseInv, PageTyped
  <2> QED
    BY <2>1 DEF Charted
<1>6. ASSUME NEW h \in Histories, c = d, SendInit(d, h)
      PROVE  Charted(c)'
  <2>1. \A z : ~IsAnswered(c, z)'
    BY <1>6, Overtaken DEF SendInit, AllInv, BaseInv, IsAnswered
  <2>2. PICK y : y = chart'[c]
    OBVIOUS
  <2>3. /\ History \in Charts
        /\ \A r \in rows : r + Window > cache => Drawn(r, History)
    BY HistoryCharts DEF AllInv, BaseInv, CollectInv, ChartInv
  <2>4. ASSUME h = History
        PROVE  Complete(c, y)
    <3>1. CASE h # <<>>
      <4>1. y = History
        BY <1>6, <2>2, <2>4, <3>1 DEF SendInit, AllInv, ChartInv
      <4> QED
        BY <2>3, <4>1 DEF Complete
    <3>2. CASE h = <<>>
      <4>1. DOMAIN History = {}
        BY <2>4, <3>2
      <4>2. \A r : ~Drawn(r, History)
        BY <4>1 DEF Drawn
      <4> QED
        BY <2>3, <4>2 DEF Complete
    <3> QED
      BY <3>1, <3>2
  <2>5. c \in (whole \ stale)' => h = History
    BY <1>6 DEF SendInit
  <2> QED
    BY <1>3, <2>1, <2>2, <2>4, <2>5, ChartedBy
<1> QED
  BY <1>4, <1>5, <1>6

\* A message becomes a point, and the points of the window stay.
LEMMA ChartedForward ==
  ASSUME AllInv, NEW d \in Conns, Forward(d), NEW c \in Conns, c \in clients'
  PROVE  Charted(c)'
<1>1. UNCHANGED <<todo, slow, rows, cache, smartPc, phase, whole, stale>> /\ c \in clients
  BY DEF Forward, Recv, srcVars, pollVars
<1>2. Charted(c) /\ rows \subseteq Nat
  BY <1>1, MaxBroadcastsAssumption DEF AllInv, CompleteInv, BaseInv, CollectInv
<1>3. CASE c # d
  <2>1. queue'[c] = queue[c] /\ (OwedTo(c) => OwedTo(c)')
    BY <1>1, <1>3 DEF Forward, Recv, AllInv, BaseInv, IInv, TypeOK, OwedTo
  <2>2. chart'[c] = chart[c] /\ answer'[c] = answer[c] /\ fresh'[c] = fresh[c]
    BY <1>3, Overtaken DEF Forward, AllInv, BaseInv, PageTyped, ChartInv
  <2> QED
    BY <1>1, <1>2, <2>1, <2>2, CompleteCalm, AnsweredKept, ChartedKept
<1>4. CASE c = d
  <2>1. Recv(c) /\ phase[c] = "stream" /\ queue[c] # <<>>
    BY <1>4 DEF Forward, Recv
  <2>2. PICK x, y : x = chart[c] /\ y = chart'[c]
    OBVIOUS
  <2>3. CASE Head(queue[c]).src = Smart
    <3>1. PICK v : v = Head(queue[c]).seq
      OBVIOUS
    <3>2. y = WithPoint(x, v) /\ Overtake(c)
      BY <1>4, <2>2, <2>3, <3>1 DEF Forward, AllInv, ChartInv
    <3>3. \A h : ~IsAnswered(c, h)'
      BY <3>2, Overtaken DEF AllInv, BaseInv, IsAnswered
    <3>4. x \in Charts /\ cache \in Versions /\ v \in Versions /\ v <= cache
      BY <2>1, <2>2, <2>3, <3>1, Received DEF AllInv, ChartInv, BaseInv, CollectInv
    <3>5. /\ \A r \in Nat : r + Window > cache /\ Drawn(r, x) => Drawn(r, y)
          /\ v # 0 /\ v + Window > cache => Drawn(v, y)
      BY <3>2, <3>4, WithPointCharts
    <3>6. \A r \in rows : r + Window > cache /\ r = Head(queue[c]).seq => Drawn(r, y)
      <4>1. \A r \in rows : r # 0
        BY MaxBroadcastsAssumption DEF AllInv, BaseInv, CollectInv
      <4> QED
        BY <3>1, <3>5, <4>1
    <3>7. Complete(c, x) => Complete(c, y)'
      BY <1>1, <1>2, <2>1, <3>5, <3>6, CompletePop DEF AllInv
    <3>8. c \in (whole \ stale)' => Complete(c, y)'
      BY <1>1, <1>2, <2>1, <2>2, <3>7 DEF Charted
    <3> QED
      BY <2>2, <3>3, <3>8, ChartedBy
  <2>4. CASE Head(queue[c]).src # Smart
    <3>1. chart' = chart /\ answer' = answer /\ fresh' = fresh
      BY <1>4, <2>4 DEF Forward
    <3>2. \A w : Complete(c, w) => Complete(c, w)'
      BY <1>1, <1>2, <2>1, <2>4, CompletePop DEF AllInv
    <3> QED
      BY <1>1, <1>2, <3>1, <3>2, AnsweredKept, ChartedKept
  <2> QED
    BY <2>3, <2>4
<1> QED
  BY <1>3, <1>4

\* The answer to a refresh is the history as it is when it is read; the page shows it whole
\* unless an event overtook it.
LEMMA ChartedRefresh ==
  ASSUME AllInv, NEW d \in Conns, Refresh(d), NEW c \in Conns, c \in clients'
  PROVE  Charted(c)'
<1>1. UNCHANGED <<queue, todo, slow, rows, cache, smartPc, phase>> /\ c \in clients
  BY DEF Refresh, AskHardware, AnswerHardware, ShowHardware, vars, srcVars, pollVars
<1>2. Charted(c)
  BY <1>1 DEF AllInv, CompleteInv
<1>3. \A z : Complete(c, z) => Complete(c, z)'
  <2>1. OwedTo(c) => OwedTo(c)'
    BY <1>1 DEF OwedTo
  <2> QED
    BY <1>1, <2>1, CompleteCalm
<1>4. CASE c # d
  <2>1. chart'[c] = chart[c]
    BY <1>4 DEF Refresh, AskHardware, AnswerHardware, ShowHardware, AllInv, ChartInv
  <2> QED
    BY <1>1, <1>2, <1>3, <1>4, <2>1, RefreshEffect, AnsweredKept, ChartedKept DEF AllInv, BaseInv
<1>5. PICK y : y = chart'[c]
  OBVIOUS
<1>6. CASE phase[c] # "stream"
  BY <1>1, <1>6 DEF Charted
<1>7. CASE c = d /\ AskHardware(d) /\ phase[c] = "stream"
  <2>1. chart' = chart /\ whole' = whole /\ stale' = stale
    BY <1>7 DEF AskHardware
  <2>2. \A h : IsAnswered(c, h)' => IsAnswered(c, h)
    BY <1>7, AskFresh DEF AllInv, BaseInv, IsAnswered
  <2> QED
    BY <1>1, <1>2, <1>3, <2>1, <2>2, ChartedKept
<1>8. ASSUME NEW r \in Refreshes, NEW h \in Charts, h \in {History, <<>>}, c = d,
             AnswerHardware(d, r, h), phase[c] = "stream"
      PROVE  Charted(c)'
  <2>1. chart' = chart /\ whole' = whole /\ stale' = stale
    BY <1>8 DEF AnswerHardware
  <2>2. ASSUME h = History
        PROVE  Complete(c, h)
    BY <2>2, HistoryCharts DEF AllInv, BaseInv, CollectInv, Complete
  <2>3. \A z : IsAnswered(c, z)' => IsAnswered(c, z) \/ (z = h /\ h # <<>>)
    BY <1>8, AnswerFresh DEF AllInv, BaseInv, IsAnswered
  <2>4. c \in (whole \ stale)' => Complete(c, y)'
    BY <1>2, <1>3, <1>5, <1>8, <2>1 DEF Charted
  <2>5. \A z : IsAnswered(c, z)' => Complete(c, z)'
    BY <1>2, <1>3, <1>8, <2>2, <2>3 DEF Charted
  <2> QED
    BY <1>5, <2>4, <2>5, ChartedBy
<1>9. ASSUME NEW r \in Refreshes, c = d, ShowHardware(d, r), phase[c] = "stream"
      PROVE  Charted(c)'
  <2>1. PICK w : w = answer[c][r].history
    OBVIOUS
  <2>2. /\ y = Shifted(w) /\ answer[c][r].stage = "sent"
        /\ c \in (whole \ stale)' => w # <<>> /\ r \in fresh[c]
    BY <1>5, <1>9, <2>1 DEF ShowHardware, AllInv, ChartInv
  <2>3. w \in Charts
    BY <2>1, AnswerTyped DEF AllInv, BaseInv
  <2>4. \A x \in Nat : x + Window > cache /\ Drawn(x, w) => Drawn(x, y)
    BY <2>2, <2>3, ShiftedCharts DEF AllInv, BaseInv, CollectInv
  <2>5. Complete(c, w) => Complete(c, y)
    BY <2>4, MaxBroadcastsAssumption DEF Complete, AllInv, BaseInv, CollectInv
  <2>6. c \in (whole \ stale)' => IsAnswered(c, w)
    BY <2>1, <2>2 DEF IsAnswered
  <2>7. c \in (whole \ stale)' => Complete(c, y)'
    BY <1>2, <1>3, <1>9, <2>5, <2>6 DEF Charted
  <2>8. \A z : IsAnswered(c, z)' => IsAnswered(c, z)
    BY <1>9, ShowEffect DEF AllInv, BaseInv, PageTyped, IsAnswered
  <2>9. \A z : IsAnswered(c, z)' => Complete(c, z)'
    BY <1>2, <1>3, <1>9, <2>8 DEF Charted
  <2> QED
    BY <1>5, <2>7, <2>9, ChartedBy
<1>10. CASE c = d /\ phase[c] = "stream"
  BY <1>7, <1>8, <1>9, <1>10, RefreshCases DEF AllInv, BaseInv
<1> QED
  BY <1>4, <1>6, <1>10

\* Broadcasts append to a channel or leave it alone.
LEMMA ChartedFan ==
  ASSUME AllInv, NEW s \in Sources, Fan(s), NEW c \in Conns, c \in clients'
  PROVE  Charted(c)'
<1>1. UNCHANGED <<rows, cache, smartPc, phase, chart, whole, answer, fresh, stale>>
  BY DEF Fan, pollVars, pageVars, refreshVars
<1>2. c \in clients /\ GivenTo(s, c)
  BY FanEffect DEF Fan, AllInv, BaseInv, IInv
<1>3. Charted(c)
  BY <1>2 DEF AllInv, CompleteInv
<1>4. \A z : Complete(c, z) => Complete(c, z)'
  <2>1. CASE queue'[c] = queue[c] /\ (OwedTo(c) => OwedTo(c)')
    BY <1>1, <2>1, CompleteCalm
  <2>2. CASE ~(queue'[c] = queue[c] /\ (OwedTo(c) => OwedTo(c)'))
    BY <1>1, <1>2, <2>2, CompletePush DEF GivenTo, AllInv
  <2> QED
    BY <2>1, <2>2
<1> QED
  BY <1>1, <1>3, <1>4, AnsweredKept, ChartedKept

\* The reading of a new collection is the one that may be missing until its Broadcast is
\* through with c; all others were settled before it began.
LEMMA ChartedPoll ==
  ASSUME AllInv, Poll, NEW c \in Conns, c \in clients'
  PROVE  Charted(c)'
<1> USE SmartAssumption, MaxBroadcastsAssumption, WindowAssumption
<1>1. UNCHANGED <<queue, phase, chart, whole, answer, fresh, stale>> /\ c \in clients
  BY DEF Poll, SmartCache, SmartInsert, SmartPrune, SmartBroadcast, Broadcast, vars, pageVars,
     refreshVars
<1>2. Charted(c)
  BY <1>1 DEF AllInv, CompleteInv
<1>3. cache \in Nat /\ rows \subseteq Nat
  BY DEF AllInv, BaseInv, CollectInv, Versions
<1>4. Unsettled(c)'
  BY <1>1 DEF Poll, SmartCache, SmartInsert, SmartPrune, SmartBroadcast, GoSmart,
     Broadcast, Unsettled, AllInv, BaseInv, IInv, TypeOK
<1>5. \A r : OnItsWay(c, r) => OnItsWay(c, r)'
  BY <1>1 DEF OnItsWay
<1>6. /\ cache' \in {cache, cache + 1}
      /\ \A r \in rows' : r \in rows \/ (r = cache /\ cache' = cache)
      /\ cache' # cache => ~Unsettled(c)
  <2>1. CASE SmartCache
    <3>1. cache' = cache + 1 /\ rows' = rows /\ smartPc = "wait" /\ srcPc[Smart] = "idle"
      BY <2>1 DEF SmartCache, GoSmart, AtSrc
    <3>2. todo[Smart] = {} /\ slow[Smart] = {}
      BY <3>1 DEF AllInv, BaseInv, RoundInv
    <3> QED
      BY <3>1, <3>2 DEF Unsettled
  <2>2. CASE SmartInsert \/ SmartPrune \/ SmartBroadcast
    BY <2>2 DEF SmartInsert, SmartPrune, SmartBroadcast
  <2> QED
    BY <2>1, <2>2 DEF Poll
<1>7. ASSUME NEW z, Complete(c, z)
      PROVE  Complete(c, z)'
  <2> SUFFICES ASSUME NEW r \in rows', r + Window > cache'
               PROVE  Drawn(r, z) \/ OnItsWay(c, r)' \/ r = cache'
    BY <1>4 DEF Complete
  <2>1. CASE r = cache /\ cache' = cache
    BY <2>1
  <2>2. CASE r \in rows
    <3>1. r + Window > cache
      BY <1>3, <1>6, <2>2
    <3>2. Drawn(r, z) \/ OnItsWay(c, r) \/ (Unsettled(c) /\ r = cache)
      BY <1>7, <2>2, <3>1 DEF Complete
    <3> QED
      BY <1>5, <1>6, <3>2
  <2> QED
    BY <1>6, <2>1, <2>2
<1> QED
  BY <1>1, <1>2, <1>7, AnsweredKept, ChartedKept

\* No step loses a reading of the window.
LEMMA CompleteStep ==
  ASSUME AllInv, BaseInv', [EventsNext]_eventVars
  PROVE  CompleteInv'
<1> SUFFICES ASSUME NEW c \in clients'
             PROVE  Charted(c)'
  BY DEF CompleteInv
<1>1. c \in Conns /\ c \in clients'
  BY DEF BaseInv, IInv, TypeOK
<1>2. ASSUME NEW d \in Conns, Handler(d)
      PROVE  Charted(c)'
  BY <1>1, <1>2, ChartedCall, ChartedSnapshot, ChartedForward DEF Handler
<1>3. CASE EventsHalted \/ UNCHANGED eventVars
  <2>1. /\ UNCHANGED <<queue, todo, slow, rows, cache, smartPc, phase, chart, whole, answer,
                       fresh, stale>>
        /\ c \in clients
    BY <1>3 DEF EventsHalted, Halted, eventVars, vars, srcVars, pollVars, pageVars, refreshVars
  <2>2. Charted(c) /\ (OwedTo(c) => OwedTo(c)')
    BY <2>1 DEF AllInv, CompleteInv, OwedTo
  <2> QED
    BY <2>1, <2>2, CompleteCalm, AnsweredKept, ChartedKept
<1> QED
  BY <1>1, <1>2, <1>3, ChartedRefresh, ChartedFan, ChartedPoll DEF EventsNext

\* Every stored reading of the window is on the chart of a client whose history could be
\* read, or in its channel: for every number of pages, sources, collections and refreshes,
\* every window, cap and buffer, no reading is lost between the stored history and the
\* stream, nor by a refresh that no event overtook.
THEOREM PointsCorrect == EventsSpec => []NoMissingPoint
<1>1. EventsInit => AllInv
  BY BaseInit, OrderInit, ChartInit DEF EventsInit, Init, AllInv, CompleteInv
<1>2. AllInv /\ [EventsNext]_eventVars => AllInv'
  BY BaseStep, OrderedStep, ChartStep, CompleteStep DEF AllInv, OrderInv
<1>3. AllInv => NoMissingPoint
  <2> SUFFICES ASSUME AllInv, NEW c \in whole \ stale, Served(c), ~Unsettled(c),
                      NEW r \in rows, r + Window > cache
               PROVE  r \in Queued(c) \/ \E i \in DOMAIN chart[c] : chart[c][i].of = r
    BY DEF NoMissingPoint
  <2>1. Drawn(r, chart[c]) \/ OnItsWay(c, r)
    BY DEF AllInv, CompleteInv, Served, Charted, Complete
  <2>2. ASSUME NEW i \in DOMAIN queue[c], IsUpdate(queue[c][i], r)
        PROVE  r \in Queued(c)
    BY <2>2 DEF Queued, IsUpdate
  <2> QED
    BY <2>1, <2>2 DEF Drawn, OnItsWay
<1> QED
  BY <1>1, <1>2, <1>3, PTL DEF EventsSpec

=============================================================================
