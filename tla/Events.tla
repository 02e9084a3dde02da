------------------------------- MODULE Events -------------------------------
(***************************************************************************)
(* The live stream end to end: the SMART poller (poller.go, collectSmart)  *)
(* refreshes its cache, stores a reading, prunes and broadcasts; the SSE   *)
(* handler (handler.go, handleEvents) registers, sends an init snapshot of *)
(* the cache and the stored history and then forwards what its channel     *)
(* yields; the page (web/app.js, connectSSE) shows the disks and a chart.  *)
(* Beside its stream a page may ask /api/hardware (handleHardware) for the *)
(* same snapshot; each answer comes over a connection of its own, and the  *)
(* page asks again without waiting for those under way.                    *)
(*                                                                         *)
(* A collection is named by its number: the k-th one caches, stores and    *)
(* broadcasts version k, and one poll interval is the unit of time, so a   *)
(* version is also its timestamp.  One disk stands for all of them.        *)
(***************************************************************************)
EXTENDS Broker, Positions

CONSTANTS
  Smart,   \* the source that runs collectSmart
  Window,  \* TempHistoryHours, in poll intervals
  MaxRefreshes   \* bound: hardware refreshes of a page

ASSUME SmartAssumption == Smart \in Sources
ASSUME WindowAssumption == Window \in Nat \ {0}
ASSUME RefreshesAssumption == MaxRefreshes \in Nat

VARIABLES
  cache,    \* version of p.smart, 0 for nil
  rows,     \* versions whose reading is in the store
  smartPc,  \* where collectSmart is
  phase,    \* phase[c]: where handleEvents is between Register and its loop
  disks,    \* disks[c]: the version handleEvents read for the init snapshot
  view,     \* view[c]: the version that the page's disk table shows
  chart,    \* chart[c]: the page's temperature points in drawing order: the
            \* reading's version and the time it is drawn at
  whole,    \* connections whose last snapshot carried the history
  asked,    \* asked[c]: refreshes of the page that have read the cache
  answer,   \* answer[c][r]: the r-th of them: its stage and what it read
  snap,     \* history: the version of the last snapshot shown, init or refresh
  fresh,    \* history, fresh[c]: the refreshes in flight since whose reading of
            \* the cache the page has shown no event
  stale     \* history: pages whose last snapshot is the answer to a refresh
            \* that was no longer fresh

pollVars == <<cache, rows, smartPc>>
refreshVars == <<asked, answer, fresh, stale>>
pageVars == <<phase, disks, view, chart, whole, snap, refreshVars>>
eventVars == <<vars, pollVars, pageVars>>

Versions == 0..MaxBroadcasts
Point == [of : Versions \ {0}, ts : Versions]
Refreshes == 1..MaxRefreshes
Answer(stage, v, h) == [stage |-> stage, disks |-> v, history |-> h]

EventsTypeOK ==
  /\ TypeOK
  /\ cache \in Versions
  /\ rows \subseteq Versions
  /\ smartPc \in {"wait", "insert", "prune", "publish"}
  /\ phase \in [Conns -> {"start", "read", "stream"}]
  /\ disks \in [Conns -> Versions]
  /\ view \in [Conns -> Versions]
  /\ chart \in [Conns -> Seq(Point)]
  /\ whole \subseteq Conns
  /\ asked \in [Conns -> 0..MaxRefreshes]
  /\ answer \in [Conns -> [Refreshes -> [stage : {"none", "disks", "sent", "shown"},
                                         disks : Versions, history : Seq(Point)]]]
  /\ snap \in [Conns -> Versions]
  /\ fresh \in [Conns -> SUBSET Refreshes]
  /\ stale \subseteq Conns

EventsInit ==
  /\ Init
  /\ cache = 0
  /\ rows = {}
  /\ smartPc = "wait"
  /\ phase = [c \in Conns |-> "start"]
  /\ disks = [c \in Conns |-> 0]
  /\ view = [c \in Conns |-> 0]
  /\ chart = [c \in Conns |-> <<>>]
  /\ whole = {}
  /\ asked = [c \in Conns |-> 0]
  /\ answer = [c \in Conns |-> [r \in Refreshes |-> Answer("none", 0, <<>>)]]
  /\ snap = [c \in Conns |-> 0]
  /\ fresh = [c \in Conns |-> {}]
  /\ stale = {}

GoSmart(from, to) == AtSrc(Smart, "idle") /\ smartPc = from /\ smartPc' = to

-----------------------------------------------------------------------------
(* collectSmart.  A collection that fails returns before it changes        *)
(* anything and is not modelled.                                           *)

\* The temperatures are written after the cache, not with it.
SmartCache ==
  /\ GoSmart("wait", "insert")
  /\ cache < MaxBroadcasts
  /\ cache' = cache + 1
  /\ UNCHANGED <<vars, rows, pageVars>>

\* Mutant: a failed insert aborts the collection before it is broadcast.
SmartInsert_Abort ==
  /\ \/ GoSmart("insert", "prune") /\ rows' = rows \cup {cache}
     \/ GoSmart("insert", "wait") /\ rows' = rows
  /\ UNCHANGED <<vars, cache, pageVars>>

\* An insert that fails is logged and skipped.
SmartInsert ==
  /\ GoSmart("insert", "prune")
  /\ rows' \in {rows, rows \cup {cache}}
  /\ UNCHANGED <<vars, cache, pageVars>>

SmartPrune ==
  /\ GoSmart("prune", "publish")
  /\ rows' \in {rows, {r \in rows : r + Window >= cache}}
  /\ UNCHANGED <<vars, cache, pageVars>>

SmartBroadcast ==
  /\ GoSmart("publish", "wait")
  /\ Broadcast(Smart)
  /\ UNCHANGED <<cache, rows, pageVars>>

-----------------------------------------------------------------------------
(* handleEvents and the page at the other end of its connection            *)

\* Mutant: the snapshot is taken before Register has inserted the client.
ReadDisks_Early(c) ==
  /\ At(c, "adding")
  /\ phase[c] = "start"
  /\ disks' = [disks EXCEPT ![c] = cache]
  /\ phase' = [phase EXCEPT ![c] = "read"]
  /\ UNCHANGED <<vars, pollVars, view, chart, whole, snap, refreshVars>>

\* p.LatestSMART(): after Register, so that no update falls in between.
ReadDisks(c) ==
  /\ At(c, "in")
  /\ phase[c] = "start"
  /\ disks' = [disks EXCEPT ![c] = cache]
  /\ phase' = [phase EXCEPT ![c] = "read"]
  /\ UNCHANGED <<vars, pollVars, view, chart, whole, snap, refreshVars>>

\* st.GetSince(): the readings younger than the window, oldest first, each
\* at the time it was stored.
History ==
  LET recent == Ascending({r \in rows : r + Window > cache})
  IN [k \in DOMAIN recent |-> [of |-> recent[k], ts |-> recent[k]]]

\* What GetSince() returns when the read fails on the way is a part of that.
Histories == {SubSeq(History, 1, k) : k \in 0..Len(History)}

\* Points are shifted out at the front while they are older than the window.
Shifted(points) ==
  LET recent == {i \in DOMAIN points : points[i].ts + Window >= cache}
      first == CHOOSE i \in recent : \A j \in recent : i <= j
  IN IF recent = {} THEN <<>> ELSE SubSeq(points, first, Len(points))

\* Mutant: a point is drawn also where there are no disks to draw it for.
WithPoint_Nil(ch, v) == Shifted(Append(ch, [of |-> v, ts |-> cache]))

\* appendTempPoint: a point at the page's current time for the disks shown.
WithPoint(ch, v) == IF v = 0 THEN ch ELSE Shifted(Append(ch, [of |-> v, ts |-> cache]))

\* An event is shown while refreshes are in flight: what they read is older.
Overtake(c) ==
  /\ fresh' = [fresh EXCEPT ![c] = {}]
  /\ UNCHANGED <<asked, answer>>

\* The init event, with what was read of the history: the handler ignores the
\* error.  An empty history is null: the page then keeps its chart and adds a
\* point for the disks.
SendInit(c, h) ==
  /\ At(c, "in")
  /\ phase[c] = "read"
  /\ phase' = [phase EXCEPT ![c] = "stream"]
  /\ view' = [view EXCEPT ![c] = disks[c]]
  /\ chart' = [chart EXCEPT ![c] = IF h # <<>> THEN h
                                   ELSE WithPoint(@, disks[c])]
  /\ whole' = IF h = History THEN whole \cup {c} ELSE whole \ {c}
  /\ snap' = [snap EXCEPT ![c] = disks[c]]
  /\ stale' = stale \ {c}
  /\ Overtake(c)
  /\ UNCHANGED <<vars, pollVars, disks>>

\* Mutant: a smart event no newer than the table is ignored.
Forward_Deduplicated(c) ==
  /\ phase[c] = "stream"
  /\ Recv(c)
  /\ LET m == Head(queue[c])
     IN IF m.src = Smart /\ m.seq > view[c]
          THEN /\ view' = [view EXCEPT ![c] = m.seq]
               /\ chart' = [chart EXCEPT ![c] = WithPoint(@, m.seq)]
               /\ Overtake(c)
          ELSE UNCHANGED <<view, chart, asked, answer, fresh>>
  /\ UNCHANGED <<pollVars, phase, disks, whole, snap, stale>>

\* Mutant: the stream does not wait for the init event to be written.
Forward_BeforeInit(c) ==
  /\ phase[c] # "start"
  /\ Recv(c)
  /\ LET m == Head(queue[c])
     IN IF m.src = Smart
          THEN /\ view' = [view EXCEPT ![c] = m.seq]
               /\ chart' = [chart EXCEPT ![c] = WithPoint(@, m.seq)]
               /\ Overtake(c)
          ELSE UNCHANGED <<view, chart, asked, answer, fresh>>
  /\ UNCHANGED <<pollVars, phase, disks, whole, snap, stale>>

\* Forward one message; a `smart` event replaces the table and adds a point.
Forward(c) ==
  /\ phase[c] = "stream"
  /\ Recv(c)
  /\ LET m == Head(queue[c])
     IN IF m.src = Smart
          THEN /\ view' = [view EXCEPT ![c] = m.seq]
               /\ chart' = [chart EXCEPT ![c] = WithPoint(@, m.seq)]
               /\ Overtake(c)
          ELSE UNCHANGED <<view, chart, asked, answer, fresh>>
  /\ UNCHANGED <<pollVars, phase, disks, whole, snap, stale>>

\* The loop ends on a done request or on a closed, drained channel.
EndStream(c) ==
  /\ phase[c] = "stream"
  /\ Return(c)
  /\ UNCHANGED <<pollVars, pageVars>>

-----------------------------------------------------------------------------
(* loadHardware and handleHardware                                         *)

\* The stage of one answer of c changes.
SetAnswer(c, r, a) == answer' = [answer EXCEPT ![c][r] = a]

\* p.LatestSMART() in the handler of a refresh, also while others are in flight.
AskHardware(c) ==
  /\ asked[c] < MaxRefreshes
  /\ asked' = [asked EXCEPT ![c] = @ + 1]
  /\ SetAnswer(c, asked[c] + 1, Answer("disks", cache, <<>>))
  /\ fresh' = [fresh EXCEPT ![c] = @ \cup {asked[c] + 1}]
  /\ UNCHANGED <<vars, pollVars, phase, disks, view, chart, whole, snap, stale>>

\* st.GetSince(); a failing read is logged and gives a null history.
AnswerHardware(c, r, h) ==
  /\ answer[c][r].stage = "disks"
  /\ SetAnswer(c, r, Answer("sent", answer[c][r].disks, h))
  /\ UNCHANGED <<vars, pollVars, phase, disks, view, chart, whole, snap, asked, fresh, stale>>

\* The page replaces table and chart, the chart also by an empty history
\* (applyTempHistory shifts as appendTempPoint does), whatever it asked for or
\* was shown since.
ShowHardware(c, r) ==
  /\ answer[c][r].stage = "sent"
  /\ view' = [view EXCEPT ![c] = answer[c][r].disks]
  /\ chart' = [chart EXCEPT ![c] = Shifted(answer[c][r].history)]
  /\ whole' = IF answer[c][r].history = <<>> THEN whole \ {c} ELSE whole \cup {c}
  /\ snap' = [snap EXCEPT ![c] = answer[c][r].disks]
  /\ stale' = IF r \in fresh[c] THEN stale \ {c} ELSE stale \cup {c}
  /\ SetAnswer(c, r, Answer("shown", 0, <<>>))
  /\ fresh' = [fresh EXCEPT ![c] = @ \ {r}]
  /\ UNCHANGED <<vars, pollVars, phase, disks, asked>>

\* (After a panic nothing is of interest.)
Refresh(c) ==
  /\ panic = "none"
  /\ \/ AskHardware(c)
     \/ \E r \in Refreshes : AnswerHardware(c, r, History) \/ AnswerHardware(c, r, <<>>)
     \/ \E r \in Refreshes : ShowHardware(c, r)

-----------------------------------------------------------------------------
Call(c) ==
  /\ \/ RegisterCount(c) \/ RegisterUndo(c) \/ RegisterInsert(c)
     \/ UnregisterGone(c) \/ UnregisterClose(c) \/ UnregisterDone(c)
  /\ UNCHANGED <<pollVars, pageVars>>

Handler(c) ==
  \/ Call(c) \/ ReadDisks(c)
  \/ \E h \in Histories : SendInit(c, h)
  \/ Forward(c) \/ EndStream(c)

\* The rest of a Broadcast, and whole Broadcasts of the other sources.
Fan(s) ==
  /\ s = Smart => srcPc[s] # "idle"
  /\ SourceStep(s)
  /\ UNCHANGED <<pollVars, pageVars>>

Poll == SmartCache \/ SmartInsert \/ SmartPrune \/ SmartBroadcast

EventsHalted == Halted /\ UNCHANGED <<pollVars, pageVars>>

EventsNext ==
  \/ \E c \in Conns : Handler(c) \/ Refresh(c)
  \/ \E s \in Sources : Fan(s)
  \/ Poll
  \/ EventsHalted

EventsSpec == EventsInit /\ [][EventsNext]_eventVars

-----------------------------------------------------------------------------
(* Fairness: that of Broker for goroutines and locks; the SMART ticker     *)
(* keeps firing; the peers keep reading, so that writes to them return.    *)
PeerFairness(c) ==
  /\ WF_eventVars(ReadDisks(c))
  /\ WF_eventVars(\E h \in Histories : SendInit(c, h))
  /\ WF_eventVars(Forward(c))

EventsFairness ==
  /\ Fairness
  /\ WF_eventVars(Poll)
  /\ \A c \in Conns : PeerFairness(c)

EventsFairSpec == EventsSpec /\ EventsFairness

-----------------------------------------------------------------------------
(* Properties *)

Served(c) == c \in clients /\ phase[c] = "stream"

\* The smart versions on their way to c: queued, or about to be sent, or
\* owed by a Broadcast that will drop c.
Queued(c) ==
  {queue[c][i].seq : i \in {j \in DOMAIN queue[c] : queue[c][j].src = Smart}}

Unsettled(c) ==
  smartPc # "wait" \/ c \in todo[Smart] \cup slow[Smart]

\* No update is lost between the init snapshot and the stream: once a
\* collection has been broadcast, a client that is served shows it or has it
\* waiting in its channel, also after a refresh that no event overtook.
NoMissedUpdate ==
  \A c \in Conns :
    Served(c) /\ c \notin stale =>
      view[c] = cache \/ cache \in Queued(c) \/ Unsettled(c)

\* Nor is a reading lost between the stored history and the stream: every
\* stored reading of the window is on the chart of a client whose history
\* could be read, or it will be added by a message still to come.  A refresh
\* replaces the chart and loses none either, unless an event overtook it.
NoMissingPoint ==
  \A c \in whole \ stale :
    Served(c) /\ ~Unsettled(c) =>
      \A r \in rows : r + Window > cache =>
        r \in Queued(c) \/ \E i \in DOMAIN chart[c] : chart[c][i].of = r

\* A message is taken from the channel, the init event is written, the answer to
\* the r-th refresh is shown.
TakesMessage(c) == Len(queue'[c]) < Len(queue[c])
GetsInit(c) == phase[c] = "read" /\ phase'[c] = "stream"
GetsAnswer(c, r) == answer[c][r].stage = "sent" /\ answer'[c][r].stage = "shown"

\* The table goes back to an older collection only by a message that was queued
\* before the snapshot it shows was read, by an init event that replaces the answer
\* to a refresh, or by the answer to a refresh when the page has since shown an event
\* or the answer to a later refresh.
BackOnlyFromSnapshot ==
  [][\A c \in Conns : view'[c] < view[c] =>
       \/ TakesMessage(c) /\ view[c] = snap[c]
       \/ GetsInit(c) /\ \E r \in Refreshes : answer[c][r].stage = "shown"
       \/ \E r \in Refreshes :
            /\ GetsAnswer(c, r)
            /\ r \notin fresh[c] \/ \E q \in Refreshes : q > r /\ answer[c][q].stage = "shown"]_eventVars

\* Each collection reaches each open stream whose peer reads, unless the
\* client leaves, is dropped as slow, or the process dies.  (A page may replace
\* what arrived by the answer to a refresh that it overtook.)
EveryUpdateArrives ==
  \A c \in Conns, v \in 1..MaxBroadcasts :
    connPc[c] = "in" /\ cache = v ~>
      view[c] >= v \/ c \in stale \/ c \notin clients \/ panic # "none"

\* requirements.md: the init event seeds the chart and "Subsequent events are
\* incremental".  A reading that the init snapshot holds is drawn again when
\* its broadcast was queued, or sent, after Register.
EachReadingOnce ==
  \A c \in Conns : \A i, j \in DOMAIN chart[c] :
    chart[c][i].of = chart[c][j].of => i = j

=============================================================================
