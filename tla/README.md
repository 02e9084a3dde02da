# A formal model of zfs-nas-dashboard

This directory holds TLA+ modules for the dashboard server of this repository, the TLC
configurations that check them on small instances, and TLAPS proofs of what matters most for
every value of the constants. `PROJECT.json` lists the components, the runs, the mutated
definitions that show each property can fail, the source lines of every definition, the
hazards and the theorems.

## 1. The system

One Go process collects data about a ZFS host and pushes it to browser pages.

| Component | State | Operations | Correct when |
|---|---|---|---|
| `internal/broker` | map of registered channels, atomic `count`, `mu`; per channel a buffer of 8 messages | `Register`, `Unregister`, `Broadcast` | the counter is the number of occupied slots, the map stays under the cap, a channel is closed once and exactly when it leaves the map, streams have no gap, no caller is blocked by a client |
| `internal/poller` | SMART cache, files cache, each under a lock; three ticker loops | `runSmart`, `runFiles`, `runZFS`, `collectSmart`, `collectFiles`, `LatestSMART`, `LatestFiles` | every tick is acted on, a failed collection changes nothing, a successful one is cached, stored and broadcast |
| `internal/handler` | none of its own | `handleEvents` (init snapshot, then the stream), `handleHardware`, `handleZFS`, `handleFiles` | no update falls between snapshot and stream |
| `internal/store` | SQLite table `temps` on disk | `Open` (recreates a file it cannot open), `Insert`, `GetSince`, `Prune`, `Close` | readings of the window survive failures, crashes and restarts |
| `cmd/.../main.go` | the process | start-up, signal, `Shutdown`, deferred `Close` | a signal ends the process; start-up ends in serving or in an error |
| `internal/config` | read once | `Load` | what is accepted can be run with |
| `internal/collector` | none (pure) | `Smart`, `Files`, `ZFS` over the output of commands | the parsed structures say what the command output says |
| `web/app.js` | what the page shows: table, chart, panels | `connectSSE`, `loadFiles`, `loadZFS`, `loadHardware` | the page never stays on older data than it was given |

**Interaction.** The poller goroutines call the collectors, write caches and store, and call
`Broadcast`. Every `/api/events` request runs a handler goroutine that registers with the
broker, reads cache and store, sends `init`, and forwards its channel until the request's
context is done or the channel is closed; its deferred `Unregister` follows. The page
redraws on `init` and `smart` events and re-fetches a panel on `files` and `zfs` events.
`main` waits in `ListenAndServe`; a signal cancels the pollers' context and makes another
goroutine call `Shutdown`.

**What is hard.** `Broadcast` takes a snapshot under a read lock, sends without a lock, and
drops slow clients under the write lock, so it races `Unregister` and the other pollers'
`Broadcast`s. `Register` counts before it inserts. The collection writes cache, store and
stream in three steps that a connecting handler reads in another order. `Open` deletes a
file that fails to open. The process may be killed between any two steps; commands may fail
or hang; a ticker and a cancellation may be ready together; a shutdown must not wait for
streams that never end. Section 6 and the `hazards` of `PROJECT.json` list these at their lines.

## 2. Modules

| Module | Models | Uses |
|---|---|---|
| `FanOut` | what the broker promises: members, logs, who is owed what; no lock, no counter | |
| `Broker` | `broker.go` and the receive side of `handleEvents` | instance of `FanOut` |
| `Events` | `collectSmart`, `handleEvents`, `handleHardware`, the page's table and chart | extends `Broker` |
| `Service` | `main.go`, `store.go` over restarts, the loops of `poller.go` | |
| `Panels` | `collectFiles`, `handleFiles`, `handleZFS`, the page's requests, its indicator and its `EventSource` | |
| `Commands` | what a caller of `runner.go` sees: output, or `Failed` | |
| `Config` | `config.go` | |
| `SmartCollector`, `FilesCollector`, `ZfsCollector` | the three collectors, as operators on what the commands print | extend `Commands` |
| `Collectors` | the jobs that call them on any input of given sets, and what the results must satisfy | extends the four above |
| `Positions` | the part of a sequence at a set of positions, ascending | used by `Events`, `FilesCollector`, `ZfsCollector` |
| `BrokerProofs`, `EventsProofs`, `PanelsProofs`, `ServiceProofs`, `CollectorsProofs` | theorems about the specifications | extend the above |
| `FilesProofs` | what the operators of `FilesCollector` compute | extends `Collectors`, used by `CollectorsProofs` |
| `FiniteProofs`, `FoldProofs` | lemmas about finite sets of numbers, positions, sums, sorting and folds | used by the proofs |
| `MCBroker`, `MCEvents`, `MCService`, `MCPanels`, `MCCollectors` | symmetry, views, constraints and inputs for TLC | extend the above |

Operators named `X_Suffix` directly before a definition `X` are deliberately faulty versions
of it. No specification uses them: each stands for a plausible bug, and putting it in the
place of `X` must violate the property that `PROJECT.json` pairs with it.

### Broker

A connection `c` is one request: its handler goroutine (`connPc[c]`) and the channel its
`Register` makes. A source `s` is a goroutine that calls `Broadcast` (`srcPc[s]`). A step is
what another goroutine can observe: an atomic add, a critical section of `mu`, one
non-blocking send, one receive. Critical sections that touch `count` or a channel, which
others reach without `mu`, are split at these points (`mu = {x}` in between); the others are
one step that needs `mu = {}`.

| Code | Actions |
|---|---|
| `Register` | `RegisterCount` (add, test the cap), `RegisterUndo` (subtract, refuse) or `RegisterInsert` |
| handler loop | `Recv`, `Return` (context done at any time, or channel closed and drained) |
| `Unregister` | `UnregisterGone` (early return), or `UnregisterClose` then `UnregisterDone` |
| `Broadcast` | `Broadcast` (snapshot), `Send` = `SendOk` or `SendFull` or `SendClosed`, `SendsDone`, `DropLock`, `Drop`, `DropCount`, `DropUnlock` |

A send on a closed channel and a second close set `panic`, after which no goroutine takes a
step: a panic in any goroutine of a Go program that does not recover ends the process.
(`net/http` recovers panics of handlers, but a handler's only closing operation is
`UnregisterClose`, which is proved never to panic.) `mu` is the write side of the
`RWMutex`; the read section of `Broadcast` is a single step and needs no reader count.

### FanOut and the refinement

`FanOut` states the service in five actions: join below the cap, leave, publish to the
members of that moment, deliver to one of those it is owed to, read. A source cannot publish
again before each member was given the last message or has left. The mapping takes
`member <- clients`, `left <- closed`, `log[c] <- got[c] \o queue[c]` (received and
buffered), and `owed[s]` to the still registered clients of the snapshot and the slow list.
Taking the snapshot is publishing, a send that fits is delivering, closing a channel
(`Unregister` or drop loop) is leaving, and all other steps stutter.

### Events

The k-th SMART collection caches, stores and broadcasts version k; one poll interval is the
unit of time. `SmartCache`, `SmartInsert`, `SmartPrune`, `SmartBroadcast` are the stages of
`collectSmart` in its order; inserts and prunes may fail, which is logged and skipped.
`handleEvents` is `Call` (the broker's `Register` and `Unregister`), `ReadDisks`, `SendInit`
(with the history, or the part of it that was read before an error, which the handler
ignores: `Histories`), `Forward` and `EndStream`. The page is
`view` (the version in the table) and `chart` (points in drawing order, as
`applyTempHistory` and `appendTempPoint` leave them). The wire keeps order and its buffers
are part of the channel: an event is shown in the step that receives it.

A page may also ask `/api/hardware` (`loadHardware`, behind the refresh button), and ask again
without waiting for the answers under way. The r-th refresh is `answer[c][r]`: `AskHardware` is
`handleHardware` reading the cache, `AnswerHardware` its `GetSince`, `ShowHardware` the page
replacing table and chart. Each answer travels on a connection of its own, so answers are shown
in any order and events may be shown between any two of these steps. `fresh` holds the refreshes
since whose reading of the cache the page has shown no event; the answer to another one replaces
newer data by older, and `stale` remembers this until the next snapshot. `NoMissedUpdate` and
`NoMissingPoint` except such pages only: that an older answer which comes after a younger one loses
nothing, unless an event was shown, is part of what they say.

`BackOnlyFromSnapshot` lists how a table can go back: by a message that was in the channel when
the snapshot it shows was read; by the `init` event, when the answer to a refresh was shown before
it; and by the answer to a refresh, when an event or the answer to a later refresh was shown since.
That there are no other ways is what the run checks and `BackCorrect` proves.

### Service

`main` is where the main goroutine is; `rows` and `corrupt` are what is on disk and outlive
the process. `OpenOk` and `OpenFails` are the two attempts of `store.Open`: a corrupt file
always fails, a sound one may (a lock, an I/O error). Pollers have a program counter and a ticker
that holds at most one tick. A collection succeeds, fails (back to waiting, nothing stored)
or hangs (`DefaultRunner` has no timeout). `Insert` and `Prune` may fail and do after
`CloseStore`. `Crash` is possible in every state and stands for kills, power failures and
panics, the one of `Broker` included; SQLite's commits are taken to be durable. The clock
(`Advance`) only moves forward.

### Panels

The k-th successful scan has version k and the pool has a version of its own. `Scan`, `Store`
and `NotifyFiles` are `collectFiles` in its order (`StageAfter`), `ScanFails` its early return.
`Load` is `loadFiles` and `loadZFS` up to the fetch, which `Open`, `Click` and `Receive` (a
notice, which does not say which version) call. `Answer` is a REST handler: `HandleFiles` serves the
cache or a 503, `HandleZFS` collects for this request or fails. `Apply` is the page's part.
Requests of one page are answered and applied in any order. A result is `passed` once the server has given
the page a later one of the same kind while it was on its way, and `stale` remembers the panels whose last
result was passed when it came. `BackOnlyIfOvertaken` is about the step: a panel goes back only by showing a passed
result. `Connect` takes a slot or is refused, after which an `EventSource` stays closed;
`Lose` cuts the connection while the handler still holds its slot until `HandlerEnds`; `Restart`
ends the process with its cache, streams and pending answers. Messages of the stream are only notices
here; that they arrive, or the client is dropped, is the matter of `Broker` and `Events`.

### Collectors

The collectors and `Load` are pure: what they return depends on what the environment or the
commands say. `Collectors` has one job at a time, which takes an input from a constant set
and puts `Load`, `Smart`, `Files` or `ZFS` of it into `result`; the properties compare
`result` with `said`, mostly by a definition of what it should be that does not follow the
code's loops. The modules below it translate the code function by function:

- `Config`: the required variables, the defaults, integers that do not parse, the default of
  one interval that is the value of another, and the product with `time.Second`, which
  wraps around a range that stands for the 2^64 values of a `Duration`.
- `SmartCollector`: a line of `zpool status` is classified by its first word, as the regular
  expression does; candidates are deduplicated after the path is added; a by-id path is turned into
  a device node by device number; the three `smartctl` calls of `readDisk` may each fail or print
  no JSON, and what they would fill stays blank.
- `FilesCollector`: paths are sequences of names. The tree is built from `du`'s lines, children
  hang on the nearest listed ancestor, and what is hidden takes its subtree along; `find`'s lines are added
  up per user id and name, in an order by size and name; two calls of `zfs get` fill the pool statistics, and
  which command's failure ends the collection is as in the code.
- `ZfsCollector`: the scanner of `zpool status` with its `inConfig` flag, the columns of
  `zfs list` by position, and the counters of arcstats with the colour of the hit rate.

## 3. Runs

| Run | Instance | Shows |
|---|---|---|
| `broker` | 3 connections, 2 sources, cap 2, buffer 1, one source broadcasts twice and the other once | `TypeOK`, `CountExact`, `CapRespected`, `NoDoubleClose`, `ChannelLifecycle`, `NoGap`, and that `Broker` implements `FanOut` |
| `broker_live` | 2 connections, 2 sources, cap 1, buffer 1, 1 broadcast each | `BroadcastReturns`, `CallsReturn` |
| `events` | 1 connection, SMART and ZFS poller, buffer 2, 3 collections, window 2, one ZFS notice or one refresh; or 2 collections and 2 refreshes in flight | `NoMissedUpdate`, `NoMissingPoint`, `BackOnlyFromSnapshot` |
| `events_live` | the same with buffer 1, 2 collections and no refresh | `EveryUpdateArrives` |
| `service` | 2 disks, history 2, clock up to 3 | `HistoryKept` |
| `service_live` | 1 disk, 1 stream, clock stopped | `SignalEndsProcess`, `StartEnds`, `TicksActedOn` |
| `collectors` | about 54,000 inputs (below) | the eleven properties of `Collectors` |
| `panels` | 1 page, cap 1, 2 scans, one change of the pool, ZFS notice, refresh and fault | `QuietMeansCurrent`, `IndicatorSettles`, `BackOnlyIfOvertaken`, `NoticeIsServed` |
| `broker_panic` | as `broker_live`, 2 broadcasts | violates `PollersSurvive` |
| `broker_streams` | as `broker_live`, 2 broadcasts | violates `StreamsWithinCap` |
| `events_once` | as `events`, 2 collections | violates `EachReadingOnce` |
| `service_recreate` | 1 disk, history 1, clock up to 2 | violates `RecreatedOnlyIfCorrupt` |

**Why these bounds.** Three connections over a cap of two is the least instance with a refused
`Register` beside two registered ones, so that over-counting, undoing and both removal paths
overlap. Two sources are needed for a client that one drops while the other still holds it in
its snapshot or slow list. A buffer of one is full after one message, so slow clients
appear at once; `Events` uses two so that a client can lag without being dropped. A second
broadcast of a source is what a gap or a reordering would show in; a third collection and a
window of two make the history lose its oldest reading while a client connects. In `Service` the
window of two in a clock of four values has readings inside, at the edge of and outside it.
Its liveness does not depend on the clock, which stands still there.

`panels` has one page, because pages meet only in the broker's slots, and a cap of one makes
the page's own dead connection refuse its reconnect. Two requests in flight are what an overtaking
needs, two scans what a stale answer needs; the fault is a lost connection, a restart or a
failing `zpool`, one in each behaviour (`MaxFaults`, to keep the state space small). The inputs of `collectors` are in
`MCCollectors`: all values around zero for the intervals with a `Duration` of 256 values and a
second of 10, so that products within and beyond the range occur; up to three lines of
`zpool status` of every form and two disks with every combination of failing calls, counts
below, between and above thresholds set in either order; directory trees of up to four
levels with a root, a root of `/`, a trailing slash, every set
of unreadable directories, and sizes that tie; uids around 1000 that share a name, and that of nobody (65534); scan lines
of every kind before, in and after the config block; hits and misses at and around the two thresholds.
Each function is a fold or a filter over lines, where one line's effect depends on at most what an
earlier one left in one flag or one entry, so that two or three lines reach every such pair.

`events` uses a VIEW without `got`, which no guard reads and none of its properties mentions,
and its constraint (`FewNotices`) keeps the kinds of disturbance apart: a behaviour has one ZFS notice or one refresh, or
it has two refreshes and two collections, which is what an answer needs that comes after a younger one and is older
than it. Connections, sources and disks are
interchangeable and are symmetry sets in the safety runs; in `Events` the SMART poller is
distinguished and there is no symmetry. Deadlock is checked everywhere: the broker has a
`Halted` step for the states in which everything has been done or the process has died, a
failing scan (`ScanFails`) is a step that `Panels` can always take between scans, and a job of
`Collectors` can always be followed by another.

## 4. Fairness

`Broker`: each goroutine that can run takes its step eventually (weak fairness; Go preempts),
and one that waits for `mu` gets it though others take it in between (strong fairness; a blocked
`Lock` of `sync.RWMutex` keeps new readers out, and its inner `Mutex` hands over to a starved
waiter). Nothing is assumed of `Recv` and `Return`, which wait for the peer, nor of the start of
a `Broadcast`, which waits for a ticker. `Events` adds that the SMART ticker keeps firing and
that peers read, without which no update arrives anywhere. `Service`: main and the pollers take
the steps they can take and a command ends or hangs; nothing is assumed of peers, signals,
crashes, restarts and tickers (a pending tick is the premise of `TicksActedOn`). `Panels`: a
scan that succeeded is stored and announced, handlers answer, and the browser connects, handles
notices and answers. Scans, clicks, faults and the end of a dead connection's
handler may never come. `Collectors` states safety only.

## 5. Proofs

The theorems about the broker, the live stream and the process hold for every finite set of connections and sources (disjoint, as they are
goroutines), every cap and buffer size above zero, and every bound on the number of
broadcasts; in `Events` also for every window and number of refreshes, in `Panels` for every finite set of pages, every number of scans, clicks and faults, and markers `Waiting` and `Error` that are not versions, in `Service` for all sets of disks and clients, every history above zero and every
bound of the clock. These are the named ASSUMEs of the modules.

**`BrokerProofs`.** `CountExact` cannot be proved alone: that a step changes `count` and the
occupied `Slots` by the same amount needs the map and the handlers to agree
(`ChannelLifecycle`), and this needs to know who removed what while `mu` is held. The inductive
invariant `IInv` is the conjunction of the type invariant, `SentInv` (a source in `Broadcast` has counted the call),
`LockInv` (who is between a removal and its unlock holds `mu`), `ChannelLifecycle`,
`NoDoubleClose`, `CountExact` and `HeldInv`. `SlotsStep` shows that each step takes, frees,
hands over or keeps a slot; `CountStep` turns this into arithmetic with the cardinality
theorems. The cap is not a bound on `count`, which exceeds it between an add and its undo:
`HeldInv` bounds the slots without those adds, because an add that passed the test saw them
all, and `CapRespected` follows as the registered channels are among them.
Theorems: `TypeCorrect`, `CounterCorrect`, `CapCorrect`, `CloseOnce`, `LifecycleCorrect`.
That `count` is a natural number (it is never decremented below zero) is part of `TypeCorrect`
and follows from `CountExact` and a slot being freed, not the other way round.

`Refines`: `Spec => FanOutSpec`. Beside `IInv` it needs `RoundInv`, the
stages of `Broadcast`: snapshot and slow list are disjoint, empty outside the call and hold only
channels that are or were registered. One lemma per action maps it to its abstract action; `Join`'s cap comes from
`HeldInv`, and the sequence lemmas show that a receive moves a message within
`got[c] \o queue[c]` while a send appends to it.
`GapsCorrect`: `NoGap` alone is not inductive, since it says nothing about a client that a
Broadcast still has to serve. `StreamInv` says of it that it has the message before (`LastIs`), so that the one it is
sent leaves no gap, and `FreshInv` that a channel which is not registered yet was given nothing. A client for which
the buffer was full is excepted until the drop loop closes it, which it does before the source's next
Broadcast: there the slow list is empty (`RoundInv`).

**`EventsProofs`.** `ImplementsBroker`: `EventsSpec => Spec`, as `collectSmart` and `handleEvents`
only call the broker; so `IInv` and `RoundInv` hold here too and are taken into the invariants below.
`MissedCorrect`: `NoMissedUpdate` speaks of what the page shows, and is not inductive because
the page may next show what a handler or a refresh has already read, or an old message. `ShownInv`
therefore says of each of these (`disks`, `view`, what a fresh refresh has read) that it is the
latest collection or that one is coming, and `QueueInv` that an older message in a channel
has the latest one behind it, which is what the receive of an old message needs. It holds because
`collectSmart` caches before it broadcasts (`CollectInv`), and because the handler registers
before it reads (`HandlerInv`). `BackCorrect`: `OrderInv` says that
versions in a channel rise, lie below the least version that may still be added (`Due`, which
depends on whether a Broadcast still owes the client its message) and, once the page shows an event,
above it; a receive then never goes back, unless the view still is its snapshot. Of refreshes it says that
what a later one read is no older than what an earlier one read, and that what a fresh one read is no older than the
table, unless a later answer was shown; an answer that takes the table back is therefore not fresh or came after a later one.
`CollectInv` bounds what is sent by the cache, so that no event is newer than a later snapshot.
`EventsTypeCorrect`: that an appended or cut chart is a chart again rests on the lemmas about `Positions`, and
`ChartInv` adds that no point is drawn before its reading was taken, without which cutting off the old points could
take a new one. `PointsCorrect`: `CompleteInv` says of the chart and of the answer that will
replace it that each stored reading of the window is drawn, on its way in the channel, or the one of a
Broadcast that has still to reach the client. A reading leaves this list only by being shown, pruned, or out of the
window. Both need `OrderInv`: what is received is no newer than the cache (`Received`), whose version is the time
of the point drawn for it.

**`PanelsProofs`.** `Removed` and `Moved` say what taking a request out of the sequence leaves: each of
the others, in the same order. `PanelBackCorrect` rests on `OrderInv`: a result that no later
one of its kind has passed is the last that the server gave the page (`IsLast`); none is newer than the
server's (`UpTo`), and the last one is no older than what the page shows (`From`) and than the others (`Rising`),
so that a result older than what is shown has been passed. `IndicatorCorrect` rests on `SettlesInv`:
beside the property, an answer is a version above 0, an error or still waited for, so that
the last answer applied leaves data without the indicator, or an error. `QuietCorrect` adds `ToldInv` (a notice of the latest scan exists only while that scan is
cached, because `collectFiles` stores before it broadcasts) and `CurrentInv` (a page that received it
shows the scan, or is stale, or has a request for the files that is not answered yet (`Asking`), or was given the
latest scan last and has still to show it (`Fresh`)). It needs no order among the results: what is given
after the notice is the latest scan.
`PanelsTypeCorrect`: the number of slots is a sum over the pages, so that a step of one page changes it by what it
changes of that page's handlers (`SumChanges`); `StreamsInv` adds that an open stream has a handler, which is why the
slots stay under the cap when a connection is lost and its handler is not gone yet.

**`ServiceProofs`.** `HistoryCorrect`: `Spec => []HistoryKept` from the stronger `KeptInv`, in
which the row at the very edge of the window is still stored: `Prune` spares `ts = now - History`
while `GetSince` leaves it out, and it is this difference in the safe direction, together with
the clock only advancing, that makes the invariant inductive. `ServiceTypeCorrect` is the type invariant.

**`CollectorsProofs`.** The invariant is `Computed`: the result of a job is the operator of that job
on an input of its kind. Everything else is about the operators. `LoadCorrect` and `TickersCorrect`
hold for all environments whose values are unset, unparsable or integers, every width of a
`Duration` and any `time.Second` above zero (`ConfigAssumption`); both need that a
product within the range survives the wrap-around (`DurationInRange`), from which `IntervalResult` has the
value of each interval, set or default. `GreenCorrect` and
`WorseCorrect` hold for all answers of `smartctl` whose tables have integers
(`SmartAssumption`): `AttributesRead` and `AttributesNotRead` say what `readDisk` leaves in both
cases, `AttributeCorrect` that an attribute comes from a row of the table or, if it has none, is zero, and `ThresholdMonotone` is the
comparison for any two thresholds. `HitRateCorrect` holds for all counters that are natural
numbers (`ZfsAssumption`). The last matching line that the parsers use is a maximum over positions, and
that it exists is `MaxOf`, from the well-foundedness of the naturals.

The other results of the collectors are made by loops over lines of any number. What a loop
has done after each line is stated as a set of lines seen so far:

- `DisksCorrect` (`DisksAsListed`): after `k` lines the list has the devices of the first `k` lines
  by first mention (`DiscoveredLine`); a path is only ever replaced by one of the same number (`DeviceResolved`).
- `SnapshotsCorrect` (`SnapshotsAddUp`): the total is the sum over the positions of the full lines, in
  whatever order it is taken (`SumInOrder`).
- `DevicesCorrect` (`DevicesOfConfig`): after `k` lines `inConfig` is whether one of them opened
  the table and none after it closed it, and the devices are the rows inside (`AfterLine`). It assumes that `zpool
  status` prints no row below its errors, which holds without `-v` and for one pool (`zfs.go:117`).
- `UsageCorrect` and `PieCorrect` (`UsageAddsUp`, `PieStable`): a slice is the sum over its owner's lines
  (`TallyCorrect`), the same for the lines in reverse (`TallyReversed`), and the order by size and name
  is total, so that sorting has one result (`UsersSorted`).
- `TreeCorrect` (`TreeAsOnDisk`): the directory a path names is unique (`PathsDiffer`), the nearest listed
  prefix of its path is that of the directory it is in (`ParentFound`; none under a root with a trailing
  slash), hence the children of a node are the directories in it (`ChildrenFound`). The filter is a recursive
  function: what is shown satisfies its equation (`VisibleStep`), and by induction on the length
  of a directory's path no other set does (`FilterUnique`, `FilterFound`). It assumes what
  `Listed` says of `du`: each directory below the root once, with its size, in any order, and a root that `strings.Fields`
  leaves alone; unreadable directories, a root of any depth and the trailing slash are covered.

**`FiniteProofs`, `FoldProofs`.** The provers have no induction principle they could instantiate with a formula, but
one for a set is a fact they can use: `NatSetInduction` and `FiniteSetInduction` are proved from the
well-foundedness of the naturals, and the lemmas about sums, sorting and folds from them. A sum or a fold is
introduced by CHOOSE of a recursive function, so that a solution of the recursion has to be shown to exist first
(`TableExists`, `RecursionExists`). `SelectSeq` and `SortSeq` are opaque to the provers: the
models take `Kept` and `Ascending` of `Positions`, and `Sorted`, in their place.

**Only model-checked**: the liveness properties (`BroadcastReturns`, `CallsReturn`, `EveryUpdateArrives`,
`SignalEndsProcess`, `StartEnds`, `TicksActedOn`, `NoticeIsServed`), which need ENABLED and fairness. Every
invariant and every action property of the passing runs is a theorem.

## 6. Findings

1. **A leaving client can end the process** (`broker_panic`). `Broadcast` sends to its snapshot
   after it has released `mu`; a client that unregisters in between has its channel closed, and
   `c <- msg` panics in the poller goroutine (`broker.go:83`). `poller.go:39` says the
   goroutines run until the context is cancelled.
2. **More streams than `maxClients`** (`broker_streams`). A dropped client's slot is free
   while its handler still drains the channel or blocks in a write; `broker.go:13` calls the
   constant the maximum number of concurrent connections.
3. **A reading is drawn twice** (`events_once`). A reading that is in the `init` history and in
   a `smart` event that follows is appended again; `requirements.md:121` calls the events
   after `init` incremental.
4. **A sound history is deleted** (`service_recreate`). `Open` removes the file after any error;
   `store.go:34` speaks of a corrupt one.

**Noticed without a run of their own.** A page whose reconnect is refused with 503 stays without a
stream, though `app.js:788` and `requirements.md:124` have it reconnect (`Connect` in `Panels`). A notice sent
while a page has no stream is lost, and the `init` event carries hardware data only. Before the
first scan the page shows an error where `requirements.md:64` has the scanning indicator. `smartctl`
exits non-zero for a failing disk, so `smart.go:110` reports UNKNOWN and hardly ever FAILED. Nobody (uid 65534) has a slice of its own, like all users from uid
1000 on (`files.go:209`): `requirements.md:58` and the comment at `files_test.go:37` put it into the system slice, while
lines 46 to 48 of that test expect what the code does, and so does `UsageAddsUp`. A pool
named like a by-id device (`usb-backup`) becomes a disk, contrary to `smart.go:15-17`. An attribute that a drive does not report has
the count zero, which is shown green though nobody read it (`smart.go:219-226`); `GreenWasAnswered` says so. `config.go:87` accepts intervals of
zero or less, which make `time.NewTicker` panic, and does not check whether the product with `time.Second`
overflows; neither `LoadFollowsEnv` nor `TickersRun` says what becomes of such an interval. With a trailing slash in `POOL_PATH` the tree is the
root alone (`files.go:155`). A resilver that ended with errors has the state "none"
(`zfs.go:200`). Blanks in dataset names shift the columns (`zfs.go:223`).
The comment at `zfs.go:156` has the `errors:` line end the config block, but that line is handled before
the test is reached (`zfs.go:142`); as nothing follows it without `-v`, no output shows the difference. The class of the
sector cells follows the reallocated count only (`app.js:584`).

## 7. Plan

Done: the broker with its abstraction; the live stream with the hardware refresh; the process, store and loops; the
panels; the configuration and the collectors; a proof of every safety invariant and action property.

Left, in this order:

1. The safety part of liveness, as invariants with proofs: a goroutine that waits for `mu` waits
   for one that has a step (no two wait on each other), and the work a Broadcast has left shrinks
   with each of its steps.
2. An abstract specification of what the live stream promises a page (the table shows a
   version, which goes back for the named reasons only), with `Events` shown to implement it.
3. The same for the store: a map from readings to whether they are kept, implemented by `Service`.

## 8. Not modelled

Rendering, colours, number formats and responsive layout of the page, which have no state of
interest; the check of the HTTP method and the security headers, which are a single comparison and constants; the
vendored chart library; Docker files, Makefile and scripts, which do not run with the program. SQLite, `net/http` and the Go scheduler are
modelled by what the code relies on: atomic durable statements, `ListenAndServe` returning as
soon as `Shutdown` starts, goroutines that are preempted. A clock that steps back is not modelled.
