------------------------------ MODULE Service ------------------------------
(***************************************************************************)
(* The process around the broker: cmd/zfs-nas-dashboard/main.go (start,    *)
(* serving, signal, exit), internal/store (the database that outlives the  *)
(* process) and the loops of internal/poller with their tickers.  Broadcast*)
(* is one step here, module Broker has its inside; the panic it can cause  *)
(* is one of the reasons of Crash.                                         *)
(***************************************************************************)
EXTENDS Naturals, FiniteSets

CONSTANTS
  Disks,    \* disks that report a temperature
  Clients,  \* peers of long-lived event streams
  History,  \* TempHistoryHours, in units of the clock
  MaxTime   \* bound: the last value of the clock

ASSUME HistoryAssumption == History \in Nat \ {0}
ASSUME MaxTimeAssumption == MaxTime \in Nat

Pollers == {"smart", "files", "zfs"}
Reading == [disk : Disks, ts : 0..MaxTime]

VARIABLES
  main,       \* where the main goroutine is; "down": there is no process
  signalled,  \* the context of NotifyContext is cancelled
  streams,    \* clients with an open event stream
  pc,         \* where each poller goroutine is
  ticker,     \* each poller's ticker: none yet, armed, or a tick is pending
  unsaved,    \* disks of the current collection still to be inserted
  rows,       \* the table temps
  corrupt,    \* temps.db is not a database
  kept,       \* history: readings inserted since the file was last lost
  now         \* the clock

procVars == <<main, signalled, streams>>
pollVars == <<pc, ticker, unsaved>>
fileVars == <<rows, corrupt, kept>>
vars == <<procVars, pollVars, fileVars, now>>

Running == main \in {"listen", "serve", "close", "exit"}

ServiceTypeOK ==
  /\ main \in {"down", "open", "reopen", "listen", "serve", "close", "exit"}
  /\ signalled \in BOOLEAN
  /\ streams \in SUBSET Clients
  /\ pc \in [Pollers -> {"off", "scan", "hung", "save", "tell", "wait", "done"}]
  /\ ticker \in [Pollers -> {"none", "armed", "fired"}]
  /\ unsaved \in SUBSET Disks
  /\ rows \in SUBSET Reading
  /\ corrupt \in BOOLEAN
  /\ kept \in SUBSET Reading
  /\ now \in 0..MaxTime
  /\ \A p \in Pollers : pc[p] = "wait" => ticker[p] # "none"

Off ==
  /\ signalled' = FALSE
  /\ streams' = {}
  /\ pc' = [p \in Pollers |-> "off"]
  /\ ticker' = [p \in Pollers |-> "none"]
  /\ unsaved' = {}

Init ==
  /\ main = "down"
  /\ signalled = FALSE
  /\ streams = {}
  /\ pc = [p \in Pollers |-> "off"]
  /\ ticker = [p \in Pollers |-> "none"]
  /\ unsaved = {}
  /\ rows = {}
  /\ corrupt = FALSE
  /\ kept = {}
  /\ now = 0

-----------------------------------------------------------------------------
(* Start: open the database, recreate it when that fails, start pollers.   *)

Start ==
  /\ main = "down"
  /\ main' = "open"
  /\ UNCHANGED <<signalled, streams, pollVars, fileVars, now>>

\* open succeeds: the schema is there and can be queried.  Start of poller
\* launches the three loops; only runZFS waits for a tick first.
OpenOk ==
  /\ main \in {"open", "reopen"}
  /\ ~corrupt
  /\ main' = "listen"
  /\ pc' = [p \in Pollers |-> IF p = "zfs" THEN "wait" ELSE "scan"]
  /\ ticker' = [p \in Pollers |-> IF p = "zfs" THEN "armed" ELSE "none"]
  /\ UNCHANGED <<signalled, streams, unsaved, fileVars, now>>

\* Mutant: Open starts over when the second attempt fails.
OpenFails_Loops ==
  /\ main \in {"open", "reopen"}
  /\ main' = IF main = "open" THEN "reopen" ELSE "open"
  /\ corrupt' = FALSE
  /\ rows' = {} /\ kept' = {}
  /\ UNCHANGED <<signalled, streams, pollVars, now>>

\* open fails: on a corrupt file always, on a sound one when it is locked or
\* the disk reports an error.  The first time the file is removed, if it can
\* be; otherwise, and the second time, the process ends with log.Fatal.
OpenFails ==
  /\ main \in {"open", "reopen"}
  /\ \/ /\ main = "open"
        /\ main' = "reopen"
        /\ corrupt' = FALSE
        /\ rows' = {} /\ kept' = {}
     \/ /\ main' = "down"
        /\ UNCHANGED fileVars
  /\ UNCHANGED <<signalled, streams, pollVars, now>>

(* Serving and the end of the process.                                     *)

\* The port is bound, or log.Fatal ends the process without closing anything.
Listen ==
  /\ main = "listen"
  /\ ~signalled
  /\ \/ main' = "serve" /\ UNCHANGED <<signalled, streams, pollVars>>
     \/ main' = "down" /\ Off
  /\ UNCHANGED <<fileVars, now>>

Connect(c) ==
  /\ main = "serve"
  /\ streams' = streams \cup {c}
  /\ UNCHANGED <<main, signalled, pollVars, fileVars, now>>

Disconnect(c) ==
  /\ c \in streams
  /\ streams' = streams \ {c}
  /\ UNCHANGED <<main, signalled, pollVars, fileVars, now>>

Signal ==
  /\ main \in {"listen", "serve"}
  /\ signalled' = TRUE
  /\ UNCHANGED <<main, streams, pollVars, fileVars, now>>

\* Mutant: main waits for Shutdown, which waits for the open streams.
ServeReturns_Waits ==
  /\ main \in {"listen", "serve"}
  /\ signalled
  /\ streams = {}
  /\ main' = "close"
  /\ UNCHANGED <<signalled, streams, pollVars, fileVars, now>>

\* Shutdown makes ListenAndServe return at once; the goroutine that called it
\* goes on waiting for the open streams, main does not.
ServeReturns ==
  /\ main \in {"listen", "serve"}
  /\ signalled
  /\ main' = "close"
  /\ UNCHANGED <<signalled, streams, pollVars, fileVars, now>>

\* The deferred st.Close, then the end of main.
CloseStore ==
  /\ main = "close"
  /\ main' = "exit"
  /\ UNCHANGED <<signalled, streams, pollVars, fileVars, now>>

Exit ==
  /\ main = "exit"
  /\ main' = "down"
  /\ Off
  /\ UNCHANGED <<fileVars, now>>

\* A panic, a kill, a power failure; a signal before NotifyContext.
Crash ==
  /\ main # "down"
  /\ main' = "down"
  /\ Off
  /\ UNCHANGED <<fileVars, now>>

\* Somebody damages the file while no process has it open.
Corrupt ==
  /\ main = "down"
  /\ corrupt' = TRUE
  /\ rows' = {} /\ kept' = {}
  /\ UNCHANGED <<procVars, pollVars, now>>

Advance ==
  /\ now < MaxTime
  /\ now' = now + 1
  /\ UNCHANGED <<procVars, pollVars, fileVars>>

-----------------------------------------------------------------------------
(* The poller loops.                                                       *)

At(p, l) == Running /\ pc[p] = l

\* A tick that finds one pending is dropped.
TickerFires(p) ==
  /\ Running
  /\ ticker[p] = "armed"
  /\ ticker' = [ticker EXCEPT ![p] = "fired"]
  /\ UNCHANGED <<procVars, pc, unsaved, fileVars, now>>

\* select takes the tick or the cancellation, whichever it likes if both are
\* ready: a collection may still start after the signal.
WakeTick(p) ==
  /\ At(p, "wait")
  /\ ticker[p] = "fired"
  /\ ticker' = [ticker EXCEPT ![p] = "armed"]
  /\ pc' = [pc EXCEPT ![p] = IF p = "zfs" THEN "tell" ELSE "scan"]
  /\ UNCHANGED <<procVars, unsaved, fileVars, now>>

WakeDone(p) ==
  /\ At(p, "wait")
  /\ signalled
  /\ pc' = [pc EXCEPT ![p] = "done"]
  /\ UNCHANGED <<procVars, ticker, unsaved, fileVars, now>>

\* Mutant: the loop is entered without a ticker.
BackToWait_NoTicker(p) ==
  /\ pc' = [pc EXCEPT ![p] = "wait"]
  /\ UNCHANGED ticker

\* The end of a collection; after the first one NewTicker is called.
BackToWait(p) ==
  /\ pc' = [pc EXCEPT ![p] = "wait"]
  /\ ticker' = [ticker EXCEPT ![p] = IF @ = "none" THEN "armed" ELSE @]

ScanOk(p) ==
  /\ At(p, "scan")
  /\ pc' = [pc EXCEPT ![p] = IF p = "smart" THEN "save" ELSE "tell"]
  /\ IF p = "smart" THEN unsaved' \in SUBSET Disks ELSE UNCHANGED unsaved
  /\ UNCHANGED <<procVars, ticker, fileVars, now>>

\* Mutant: a failed collection ends the loop.
ScanFails_Ends(p) ==
  /\ At(p, "scan")
  /\ pc' = [pc EXCEPT ![p] = "done"]
  /\ ticker' = [ticker EXCEPT ![p] = IF @ = "none" THEN "armed" ELSE @]
  /\ UNCHANGED <<procVars, unsaved, fileVars, now>>

\* The collector returns an error: nothing is stored, pruned or broadcast.
ScanFails(p) ==
  /\ At(p, "scan")
  /\ BackToWait(p)
  /\ UNCHANGED <<procVars, unsaved, fileVars, now>>

\* A command never ends, and DefaultRunner has no timeout.
ScanHangs(p) ==
  /\ At(p, "scan")
  /\ pc' = [pc EXCEPT ![p] = "hung"]
  /\ UNCHANGED <<procVars, ticker, unsaved, fileVars, now>>

\* store.Insert may fail, and does once the store is closed; the loop goes on.
Insert(d) ==
  /\ At("smart", "save")
  /\ d \in unsaved
  /\ unsaved' = unsaved \ {d}
  /\ \/ /\ main # "exit"
        /\ rows' = rows \cup {[disk |-> d, ts |-> now]}
        /\ kept' = kept \cup {[disk |-> d, ts |-> now]}
     \/ UNCHANGED <<rows, kept>>
  /\ UNCHANGED <<procVars, pc, ticker, corrupt, now>>

\* Mutant: rows at the age of History hours minus one are pruned too.
Prune_Early ==
  /\ At("smart", "save")
  /\ unsaved = {}
  /\ \/ main # "exit" /\ rows' = {r \in rows : r.ts + History > now + 1}
     \/ UNCHANGED rows
  /\ pc' = [pc EXCEPT !["smart"] = "tell"]
  /\ UNCHANGED <<procVars, ticker, unsaved, corrupt, kept, now>>

Prune ==
  /\ At("smart", "save")
  /\ unsaved = {}
  /\ \/ main # "exit" /\ rows' = {r \in rows : r.ts + History >= now}
     \/ UNCHANGED rows
  /\ pc' = [pc EXCEPT !["smart"] = "tell"]
  /\ UNCHANGED <<procVars, ticker, unsaved, corrupt, kept, now>>

Tell(p) ==
  /\ At(p, "tell")
  /\ BackToWait(p)
  /\ UNCHANGED <<procVars, unsaved, fileVars, now>>

\* What GetSince returns.
GetSince == {r \in rows : r.ts + History > now}

-----------------------------------------------------------------------------
MainStep ==
  \/ Start \/ OpenOk \/ OpenFails \/ Listen \/ Signal
  \/ ServeReturns \/ CloseStore \/ Exit

ScanEnds(p) == ScanOk(p) \/ ScanFails(p) \/ ScanHangs(p)
SaveStep == Prune \/ \E d \in Disks : Insert(d)

Next ==
  \/ MainStep
  \/ Crash \/ Corrupt \/ Advance
  \/ \E c \in Clients : Connect(c) \/ Disconnect(c)
  \/ \E p \in Pollers : \/ TickerFires(p) \/ WakeTick(p) \/ WakeDone(p)
                        \/ ScanEnds(p) \/ Tell(p)
  \/ SaveStep

Spec == Init /\ [][Next]_vars

(***************************************************************************)
(* Fairness: main and the pollers take the steps they can take, commands   *)
(* end or hang.  Nothing is assumed of the peers, of signals and crashes,  *)
(* of who restarts the process, nor of tickers: a tick is a premise.       *)
(***************************************************************************)
PollerFairness(p) ==
  /\ WF_vars(WakeTick(p) \/ WakeDone(p))
  /\ WF_vars(ScanEnds(p))
  /\ WF_vars(Tell(p))

FairSpec ==
  /\ Spec
  /\ WF_vars(OpenOk \/ OpenFails)
  /\ WF_vars(ServeReturns) /\ WF_vars(CloseStore) /\ WF_vars(Exit)
  /\ WF_vars(SaveStep)
  /\ \A p \in Pollers : PollerFairness(p)

-----------------------------------------------------------------------------
(* Properties *)

\* Every stored reading of the last History hours is what GetSince returns,
\* across crashes and restarts, whatever failed or was cut off half-way: no
\* prune reaches into the window that a later read asks for.
HistoryKept == {r \in kept : r.ts + History > now} \subseteq GetSince

\* After a signal the process ends although streams stay open, a command
\* hangs or a collection is under way.
SignalEndsProcess == signalled ~> main = "down"

\* Recovery is attempted once: opening the store ends, in either way.
StartEnds == main = "open" ~> main \in {"listen", "down"}

\* A poller acts on every tick, whatever its earlier collections came to and
\* whatever the other pollers do, until a command hangs or a signal comes.
TicksActedOn ==
  \A p \in Pollers :
    ticker[p] = "fired" ~> ticker[p] # "fired" \/ pc[p] = "hung" \/ signalled

\* store.go: "If the file is corrupt it is deleted and recreated from
\* scratch."  Open deletes the history whatever the error was.
RecreatedOnlyIfCorrupt ==
  [][main = "open" /\ rows' # rows => corrupt]_vars

=============================================================================
