------------------------------- MODULE Panels -------------------------------
(* The files and ZFS panels of a page: the poller that scans and notifies, the
   REST handlers, the page's requests and its EventSource.

   Versions count what there is to show: the k-th successful scan has version k,
   and the pool is at version pool.  A page's requests are answered and their
   answers applied in any order, as they run on connections of their own.  Of
   the event stream only its connection and the notices are modelled; Broker
   and Events have the rest. *)
EXTENDS Naturals, Sequences, FiniteSets, SequencesExt, FiniteSetsExt

CONSTANTS
  Pages,
  Waiting, Error,            \* of a request: no answer yet, no success
  MaxClients,                \* of the broker
  MaxScans, MaxChanges,      \* bounds: successful scans, changes of the pool
  MaxTicks,                  \* bound: notices of runZFS
  MaxClicks,                 \* bound per page: refreshes
  MaxFaults,                 \* bound: kinds of Faults in one behaviour, each once
  MaxInFlight                \* bound per page: requests in flight

ASSUME PanelsBounds ==
  /\ IsFiniteSet(Pages) /\ MaxClients \in Nat \ {0} /\ MaxInFlight \in Nat \ {0, 1}
  /\ {MaxScans, MaxChanges, MaxTicks, MaxClicks, MaxFaults} \subseteq Nat

ASSUME PanelsAnswers == Waiting \notin Nat /\ Error \notin Nat

VARIABLES
  files,      \* version in the cache of the poller, 0 when there is none
  stage,      \* of collectFiles: "idle", "store", "notify"
  scans,      \* successful scans so far
  pool,       \* version of the pool
  ticks,
  faults,     \* those that have happened
  handlers,   \* streams of each page that hold a slot of the broker
  es,         \* EventSource: "absent", "connecting", "open", "closed" (for good)
  inbox,      \* notices on the stream, not yet handled
  requests,   \* in flight, oldest first; passed is a history: has the server answered
              \* a later one of the kind with a result since it gave this result
  shown,      \* version shown by each panel, 0 when there is none
  indicator,  \* of the files panel: is it visible, and has its text become an error
  clicks,
  heard,      \* history: the scan of the last notice handled, of this server's
  stale       \* history: the panels that show a result that was passed when it came

serverVars == <<files, stage, scans, pool, ticks, faults>>
streamVars == <<handlers, es, inbox, heard>>
panelVars == <<requests, shown, indicator, clicks, stale>>
panelsVars == <<serverVars, streamVars, panelVars>>

Kinds == {"files", "zfs"}

\* The server restarts, a connection is lost, zpool or zfs fails for a request.
Faults == {"restart", "loss", "zpool"}
Fault(f) == f \notin faults /\ Cardinality(faults) < MaxFaults /\ faults' = faults \cup {f}

PanelsInit ==
  /\ files = 0 /\ stage = "idle" /\ scans = 0 /\ pool = 1 /\ ticks = 0 /\ faults = {}
  /\ handlers = [p \in Pages |-> 0]
  /\ es = [p \in Pages |-> "absent"]
  /\ inbox = [p \in Pages |-> <<>>]
  /\ requests = [p \in Pages |-> <<>>]
  /\ shown = [p \in Pages |-> [k \in Kinds |-> 0]]
  /\ indicator = [p \in Pages |-> [visible |-> FALSE, error |-> FALSE]]
  /\ clicks = [p \in Pages |-> 0]
  /\ heard = [p \in Pages |-> 0] /\ stale = [p \in Pages |-> {}]

-----------------------------------------------------------------------------
(***************************************************************************)
(* The server                                                              *)
(***************************************************************************)
\* Wrong: the clients are told before the cache is filled.
StageAfter_NotifyFirst(s) ==
  IF s = "idle" THEN "notify" ELSE IF s = "notify" THEN "store" ELSE "idle"

\* The order of collectFiles after a collection that succeeded.
StageAfter(s) ==
  IF s = "idle" THEN "store" ELSE IF s = "store" THEN "notify" ELSE "idle"

\* du or find fails: collectFiles returns and keeps what it has.
ScanFails == stage = "idle" /\ UNCHANGED panelsVars

Scan ==
  /\ stage = "idle" /\ scans < MaxScans
  /\ scans' = scans + 1 /\ stage' = StageAfter(stage)
  /\ UNCHANGED <<files, pool, ticks, faults, streamVars, panelVars>>

Store ==
  /\ stage = "store"
  /\ files' = scans /\ stage' = StageAfter(stage)
  /\ UNCHANGED <<scans, pool, ticks, faults, streamVars, panelVars>>

\* Notices go to the pages that have a stream at this moment.
Broadcast(kind, version) ==
  inbox' = [p \in Pages |->
              IF es[p] = "open" THEN Append(inbox[p], [kind |-> kind, version |-> version])
              ELSE inbox[p]]

NotifyFiles ==
  /\ stage = "notify" /\ stage' = StageAfter(stage)
  /\ Broadcast("files", scans)
  /\ UNCHANGED <<files, scans, pool, ticks, faults, handlers, es, heard,
                 panelVars>>

NotifyZFS ==
  /\ ticks < MaxTicks /\ ticks' = ticks + 1
  /\ Broadcast("zfs", pool)
  /\ UNCHANGED <<files, stage, scans, pool, faults, handlers, es, heard,
                 panelVars>>

PoolChanges ==
  /\ pool <= MaxChanges /\ pool' = pool + 1
  /\ UNCHANGED <<files, stage, scans, ticks, faults, streamVars, panelVars>>

\* The process ends and starts again: no cache, no streams, requests fail.
Restart ==
  /\ Fault("restart")
  /\ files' = 0 /\ stage' = "idle"
  /\ handlers' = [p \in Pages |-> 0]
  /\ es' = [p \in Pages |-> IF es[p] = "open" THEN "connecting" ELSE es[p]]
  /\ inbox' = [p \in Pages |-> <<>>]
  /\ requests' = [p \in Pages |->
                    [i \in DOMAIN requests[p] |->
                      IF requests[p][i].answer = Waiting
                      THEN [requests[p][i] EXCEPT !.answer = Error] ELSE requests[p][i]]]
  /\ heard' = [p \in Pages |-> 0]
  /\ UNCHANGED <<scans, pool, ticks, shown, indicator, clicks, stale>>

\* Wrong: some earlier result is served again.
HandleFiles_Earlier(answer) == IF files = 0 THEN answer = Error ELSE answer \in 1..files

\* handleFiles: the cache, or 503 when there is none.
HandleFiles(answer) == answer = IF files = 0 THEN Error ELSE files

\* handleZFS: collected for this request, or 500 when a command fails.
HandleZFS(answer) ==
  (answer = pool /\ UNCHANGED faults) \/ (answer = Error /\ Fault("zpool"))

HasResult(r) == r.answer \notin {Waiting, Error}

\* The results of a kind that are still on their way when the server gives another.
Pass(q, kind) ==
  [i \in DOMAIN q |-> [q[i] EXCEPT !.passed = @ \/ (q[i].kind = kind /\ HasResult(q[i]))]]

Answer(p) ==
  \E i \in DOMAIN requests[p], answer \in 1..(MaxScans + MaxChanges + 1) \cup {Error} :
    LET r == requests[p][i]
        q == IF answer = Error THEN requests[p] ELSE Pass(requests[p], r.kind)
    IN  /\ r.answer = Waiting
        /\ \/ r.kind = "files" /\ HandleFiles(answer) /\ UNCHANGED faults
           \/ r.kind = "zfs" /\ HandleZFS(answer)
        /\ requests' = [requests EXCEPT ![p] =
             [q EXCEPT ![i] = [kind |-> r.kind, answer |-> answer, passed |-> FALSE]]]
        /\ UNCHANGED <<files, stage, scans, pool, ticks, streamVars, shown, indicator,
                       clicks, stale>>

-----------------------------------------------------------------------------
(***************************************************************************)
(* The event stream                                                        *)
(***************************************************************************)
Slots == SumFunctionOnSet(handlers, Pages)

\* connectSSE and each reconnection of the EventSource: a free slot, or 503,
\* after which an EventSource does not try again.
Connect(p) ==
  /\ es[p] = "connecting"
  /\ \/ /\ Slots < MaxClients
        /\ es' = [es EXCEPT ![p] = "open"]
        /\ handlers' = [handlers EXCEPT ![p] = @ + 1]
     \/ /\ Slots >= MaxClients
        /\ es' = [es EXCEPT ![p] = "closed"] /\ UNCHANGED handlers
  /\ UNCHANGED <<serverVars, inbox, heard, panelVars>>

\* The connection is lost; the server may not notice for a while.
Lose(p) ==
  /\ es[p] = "open" /\ Fault("loss")
  /\ es' = [es EXCEPT ![p] = "connecting"]
  /\ inbox' = [inbox EXCEPT ![p] = <<>>]
  /\ UNCHANGED <<files, stage, scans, pool, ticks, handlers, heard, panelVars>>

\* Wrong: the handler of the connection that is open may be the one.
HandlerEnds_Early(p) ==
  /\ handlers[p] > 0
  /\ handlers' = [handlers EXCEPT ![p] = @ - 1]
  /\ UNCHANGED <<serverVars, es, inbox, heard, panelVars>>

\* The handler of a lost connection returns and gives its slot back.
HandlerEnds(p) ==
  /\ handlers[p] > IF es[p] = "open" THEN 1 ELSE 0
  /\ handlers' = [handlers EXCEPT ![p] = @ - 1]
  /\ UNCHANGED <<serverVars, es, inbox, heard, panelVars>>

-----------------------------------------------------------------------------
(***************************************************************************)
(* The page                                                                *)
(***************************************************************************)
Request(kind) == [kind |-> kind, answer |-> Waiting, passed |-> FALSE]

\* loadFiles and loadZFS up to the fetch.
Load(p, kinds) ==
  /\ Len(requests[p]) + Len(kinds) <= MaxInFlight
  /\ requests' = [requests EXCEPT ![p] = @ \o [i \in DOMAIN kinds |-> Request(kinds[i])]]
  /\ indicator' = IF "files" \in ToSet(kinds)
                  THEN [indicator EXCEPT ![p].visible = TRUE] ELSE indicator

Open(p) ==
  /\ es[p] = "absent" /\ es' = [es EXCEPT ![p] = "connecting"]
  /\ Load(p, <<"files", "zfs">>)
  /\ UNCHANGED <<serverVars, handlers, inbox, heard, shown, clicks, stale>>

Click(p, kind) ==
  /\ es[p] # "absent" /\ clicks[p] < MaxClicks
  /\ clicks' = [clicks EXCEPT ![p] = @ + 1]
  /\ Load(p, <<kind>>)
  /\ UNCHANGED <<serverVars, streamVars, shown, stale>>

\* Wrong: a notice is dropped when a request of its kind is in flight.
Receive_Coalesced(p) ==
  /\ inbox[p] # <<>> /\ inbox' = [inbox EXCEPT ![p] = Tail(@)]
  /\ IF \E i \in DOMAIN requests[p] : requests[p][i].kind = Head(inbox[p]).kind
     THEN UNCHANGED <<requests, indicator>> ELSE Load(p, <<Head(inbox[p]).kind>>)
  /\ UNCHANGED <<serverVars, handlers, es, heard, shown, clicks, stale>>

\* onmessage: a notice says what to fetch, not which version.
Receive(p) ==
  /\ inbox[p] # <<>> /\ inbox' = [inbox EXCEPT ![p] = Tail(@)]
  /\ Load(p, <<Head(inbox[p]).kind>>)
  /\ heard' = IF Head(inbox[p]).kind = "files"
              THEN [heard EXCEPT ![p] = Head(inbox[p]).version] ELSE heard
  /\ UNCHANGED <<serverVars, handlers, es, shown, clicks, stale>>

\* Wrong: the error path is left out.
AfterFiles_Silent(ind, answer) ==
  [ind EXCEPT !.visible = @ /\ answer = Error]

\* The indicator when an answer for the files panel is applied.  Its text is not
\* set back after an error.
AfterFiles(ind, answer) ==
  [visible |-> answer = Error, error |-> ind.error \/ answer = Error]

\* An answer arrives and is shown; an error changes no panel.
Apply(p) ==
  \E i \in DOMAIN requests[p] :
    LET r == requests[p][i]
    IN  /\ r.answer # Waiting
        /\ requests' = [requests EXCEPT ![p] = RemoveAt(@, i)]
        /\ shown' = IF r.answer = Error THEN shown
                    ELSE [shown EXCEPT ![p][r.kind] = r.answer]
        /\ indicator' = IF r.kind = "files"
                        THEN [indicator EXCEPT ![p] = AfterFiles(@, r.answer)] ELSE indicator
        /\ stale' = IF r.answer = Error THEN stale
                    ELSE [stale EXCEPT ![p] = IF r.passed THEN @ \cup {r.kind} ELSE @ \ {r.kind}]
        /\ UNCHANGED <<serverVars, streamVars, clicks>>

-----------------------------------------------------------------------------
Server == Scan \/ ScanFails \/ Store \/ NotifyFiles \/ NotifyZFS \/ PoolChanges \/ Restart

Page(p) ==
  \/ Open(p) \/ Connect(p) \/ Lose(p) \/ HandlerEnds(p) \/ Receive(p) \/ Answer(p) \/ Apply(p)
  \/ \E kind \in Kinds : Click(p, kind)

PanelsNext == Server \/ \E p \in Pages : Page(p)

PanelsSpec == PanelsInit /\ [][PanelsNext]_panelsVars

\* The poller goes on after a scan, a browser reconnects, handles what it is sent
\* and shows what it asked for, and handlers answer.  Scans, clicks, losses and
\* restarts may not happen, and a dead connection may never be noticed.
PanelsFair ==
  /\ WF_panelsVars(Store) /\ WF_panelsVars(NotifyFiles)
  /\ \A p \in Pages :
       /\ WF_panelsVars(Connect(p)) /\ WF_panelsVars(Receive(p))
       /\ WF_panelsVars(Answer(p)) /\ WF_panelsVars(Apply(p))

PanelsFairSpec == PanelsSpec /\ PanelsFair

-----------------------------------------------------------------------------
PanelsTypeOK ==
  /\ files \in 0..scans /\ scans \in 0..MaxScans /\ stage \in {"idle", "store", "notify"}
  /\ pool \in 1..MaxChanges + 1 /\ ticks \in 0..MaxTicks
  /\ faults \subseteq Faults
  /\ handlers \in [Pages -> 0..MaxClients] /\ Slots <= MaxClients
  /\ es \in [Pages -> {"absent", "connecting", "open", "closed"}]
  /\ \A p \in Pages :
       /\ es[p] = "open" => handlers[p] > 0
       /\ inbox[p] # <<>> => es[p] = "open"
       /\ inbox[p] \in Seq([kind : Kinds, version : Nat])
       /\ requests[p] \in Seq([kind : Kinds, answer : {Waiting, Error} \cup Nat, passed : BOOLEAN])
  /\ shown \in [Pages -> [Kinds -> Nat]]
  /\ indicator \in [Pages -> [visible : BOOLEAN, error : BOOLEAN]]
  /\ clicks \in [Pages -> 0..MaxClicks]
  /\ heard \in [Pages -> 0..MaxScans] /\ stale \in [Pages -> SUBSET Kinds]

InFlight(p, kind) == \E i \in DOMAIN requests[p] : requests[p][i].kind = kind

\* A page that has handled the notice of the latest scan and has no request for files in
\* flight shows that scan, whatever clicks, losses, restarts and earlier errors there
\* were: the cache is filled before the notice and each notice fetches.  (Unless the
\* answer that came last was not the one that the server gave last.)
QuietMeansCurrent ==
  \A p \in Pages :
    (heard[p] = scans /\ scans > 0 /\ ~InFlight(p, "files") /\ "files" \notin stale[p]) =>
      shown[p]["files"] = scans

\* The scanning indicator never outlives the requests: with none in flight it is
\* either gone, and data is shown, or tells of an error.
IndicatorSettles ==
  \A p \in Pages :
    (es[p] # "absent" /\ ~InFlight(p, "files")) =>
      IF indicator[p].visible THEN indicator[p].error ELSE shown[p]["files"] > 0

\* A panel goes back to an older version only in a step that shows the result of a
\* request after which the server has given a later result for the same panel of the
\* page: answers that come in the order in which they were given never take it back.
BackOnlyIfOvertaken ==
  [][\A p \in Pages, k \in Kinds : shown'[p][k] < shown[p][k] =>
       \E i \in DOMAIN requests[p] :
         /\ requests[p][i].kind = k /\ requests[p][i].passed
         /\ shown'[p][k] = requests[p][i].answer
         /\ requests'[p] = RemoveAt(requests[p], i)]_panelsVars

\* Each notice a page receives leads to its panel showing that version or a later
\* one, unless the connection is lost first; a failing zpool or a restart of the
\* server may leave an error instead.
NoticeIsServed ==
  \A p \in Pages, k \in Kinds : \A v \in 1..(IF k = "files" THEN MaxScans ELSE MaxChanges + 1) :
    (inbox[p] # <<>> /\ Head(inbox[p]) = [kind |-> k, version |-> v]) ~>
      \/ shown[p][k] >= v
      \/ es[p] # "open"
      \/ "restart" \in faults \/ (k = "zfs" /\ "zpool" \in faults)

=============================================================================
