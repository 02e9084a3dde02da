------------------------------- MODULE Broker -------------------------------
(***************************************************************************)
(* internal/broker: the fan-out hub between the poller goroutines, which   *)
(* call Broadcast, and the SSE handlers, which call Register, range over   *)
(* the channel of Recv and call Unregister when they return.               *)
(*                                                                         *)
(* Every step is one that another goroutine can observe: an atomic add on  *)
(* count, a critical section of mu (or a part of one that touches count or *)
(* a channel, which are read without mu), one non-blocking send, one       *)
(* receive.  The connection c of Conns stands for one request, its handler *)
(* goroutine and the channel that its Register call makes.                 *)
(***************************************************************************)
EXTENDS Naturals, FiniteSets, Sequences

CONSTANTS
  Conns,         \* requests to /api/events
  Sources,       \* goroutines that call Broadcast (the pollers)
  MaxClients,    \* maxClients, 100 in the code
  ChannelBuf,    \* channelBuf, 8 in the code
  MaxBroadcasts  \* bound: Broadcast calls per source

ASSUME ConnsAssumption == IsFiniteSet(Conns)
ASSUME SourcesAssumption == IsFiniteSet(Sources) /\ Sources \cap Conns = {}
ASSUME MaxClientsAssumption == MaxClients \in Nat \ {0}
ASSUME ChannelBufAssumption == ChannelBuf \in Nat \ {0}
ASSUME MaxBroadcastsAssumption == MaxBroadcasts \in Nat

VARIABLES
  clients,  \* the map's keys: registered channels
  count,    \* the atomic counter Register tests against the cap
  closed,   \* channels that were closed
  queue,    \* queue[c]: the messages buffered in c's channel
  got,      \* got[c]: history of what c's handler received
  mu,       \* the goroutine that holds mu for writing, as a set
  connPc,   \* where c's handler is
  srcPc,    \* where s is in Broadcast
  todo,     \* todo[s]: what is left of s's snapshot
  slow,     \* slow[s]: clients whose buffer s found full
  sent,     \* sent[s]: Broadcast calls of s so far
  panic     \* "none", or the operation that brought the process down

connVars == <<count, connPc>>
srcVars == <<srcPc, todo, slow, sent>>
vars == <<clients, count, closed, queue, got, mu, connPc, srcPc, todo, slow,
          sent, panic>>

Message == [src : Sources, seq : 1..MaxBroadcasts]

TypeOK ==
  /\ clients \in SUBSET Conns
  /\ count \in Nat
  /\ closed \in SUBSET Conns
  /\ queue \in [Conns -> Seq(Message)]
  /\ \A c \in Conns : Len(queue[c]) <= ChannelBuf
  /\ got \in [Conns -> Seq(Message)]
  /\ mu \in SUBSET (Conns \cup Sources)
  /\ connPc \in [Conns -> {"new", "over", "adding", "in", "exit", "leaving",
                           "gone", "refused"}]
  /\ srcPc \in [Sources -> {"idle", "send", "drop", "dropping", "dec"}]
  /\ todo \in [Sources -> SUBSET Conns]
  /\ slow \in [Sources -> SUBSET Conns]
  /\ sent \in [Sources -> 0..MaxBroadcasts]
  /\ panic \in {"none", "send", "close"}

Init ==
  /\ clients = {}
  /\ count = 0
  /\ closed = {}
  /\ queue = [c \in Conns |-> <<>>]
  /\ got = [c \in Conns |-> <<>>]
  /\ mu = {}
  /\ connPc = [c \in Conns |-> "new"]
  /\ srcPc = [s \in Sources |-> "idle"]
  /\ todo = [s \in Sources |-> {}]
  /\ slow = [s \in Sources |-> {}]
  /\ sent = [s \in Sources |-> 0]
  /\ panic = "none"

\* A panic in any goroutine ends the process, so it ends every goroutine.
At(c, pc) == panic = "none" /\ connPc[c] = pc
Go(c, pc) == connPc' = [connPc EXCEPT ![c] = pc]
AtSrc(s, pc) == panic = "none" /\ srcPc[s] = pc
GoSrc(s, pc) == srcPc' = [srcPc EXCEPT ![s] = pc]

Lock(x) == mu = {} /\ mu' = {x}
Unlock(x) == mu = {x} /\ mu' = {}

\* Mutant: the channel is forgotten but not closed.
Close_Leak(c) ==
  /\ clients' = clients \ {c}
  /\ UNCHANGED <<closed, panic>>

\* delete(b.clients, c); close(c).  Closing twice panics.
Close(c) ==
  /\ clients' = clients \ {c}
  /\ closed' = closed \cup {c}
  /\ panic' = IF c \in closed THEN "close" ELSE panic

-----------------------------------------------------------------------------
(* Register: the optimistic add, and its undo when the cap was passed.     *)

\* Mutant: the cap is tested against the count before the add.
RegisterCount_Stale(c) ==
  /\ At(c, "new")
  /\ count' = count + 1
  /\ Go(c, IF count > MaxClients THEN "over" ELSE "adding")
  /\ UNCHANGED <<clients, closed, queue, got, mu, srcVars, panic>>

RegisterCount(c) ==
  /\ At(c, "new")
  /\ count' = count + 1
  /\ Go(c, IF count' > MaxClients THEN "over" ELSE "adding")
  /\ UNCHANGED <<clients, closed, queue, got, mu, srcVars, panic>>

RegisterUndo(c) ==
  /\ At(c, "over")
  /\ count' = count - 1
  /\ Go(c, "refused")
  /\ UNCHANGED <<clients, closed, queue, got, mu, srcVars, panic>>

RegisterInsert(c) ==
  /\ At(c, "adding")
  /\ mu = {}
  /\ clients' = clients \cup {c}
  /\ Go(c, "in")
  /\ UNCHANGED <<count, closed, queue, got, mu, srcVars, panic>>

(* The handler's loop: forward a message, or return because the request's  *)
(* context is done (at any time) or the channel is closed and drained.     *)

Recv(c) ==
  /\ At(c, "in")
  /\ queue[c] # <<>>
  /\ got' = [got EXCEPT ![c] = Append(@, Head(queue[c]))]
  /\ queue' = [queue EXCEPT ![c] = Tail(@)]
  /\ UNCHANGED <<clients, count, closed, mu, connPc, srcVars, panic>>

Return(c) ==
  /\ At(c, "in")
  /\ Go(c, "exit")
  /\ UNCHANGED <<clients, count, closed, queue, got, mu, srcVars, panic>>

(* Unregister, deferred by the handler: nothing to do when a Broadcast     *)
(* dropped the client, otherwise close the channel and give up the slot.   *)

\* Mutant: the slot is given back though a drop loop already did.
UnregisterGone_Twice(c) ==
  /\ At(c, "exit")
  /\ mu = {}
  /\ c \notin clients
  /\ count' = count - 1
  /\ Go(c, "gone")
  /\ UNCHANGED <<clients, closed, queue, got, mu, srcVars, panic>>

\* Mutant: the early return keeps the lock.
UnregisterGone_Locked(c) ==
  /\ At(c, "exit")
  /\ Lock(c)
  /\ c \notin clients
  /\ Go(c, "gone")
  /\ UNCHANGED <<clients, count, closed, queue, got, srcVars, panic>>

UnregisterGone(c) ==
  /\ At(c, "exit")
  /\ mu = {}
  /\ c \notin clients
  /\ Go(c, "gone")
  /\ UNCHANGED <<clients, count, closed, queue, got, mu, srcVars, panic>>

UnregisterClose(c) ==
  /\ At(c, "exit")
  /\ Lock(c)
  /\ c \in clients
  /\ Close(c)
  /\ Go(c, "leaving")
  /\ UNCHANGED <<count, queue, got, srcVars>>

UnregisterDone(c) ==
  /\ At(c, "leaving")
  /\ Unlock(c)
  /\ count' = count - 1
  /\ Go(c, "gone")
  /\ UNCHANGED <<clients, closed, queue, got, srcVars, panic>>

-----------------------------------------------------------------------------
(* Broadcast: snapshot the clients under the read lock, send to each one   *)
(* without a lock, then drop the slow ones under the write lock.           *)

Broadcast(s) ==
  /\ AtSrc(s, "idle")
  /\ mu = {}
  /\ sent[s] < MaxBroadcasts
  /\ sent' = [sent EXCEPT ![s] = @ + 1]
  /\ todo' = [todo EXCEPT ![s] = clients]
  /\ slow' = [slow EXCEPT ![s] = {}]
  /\ GoSrc(s, "send")
  /\ UNCHANGED <<clients, closed, queue, got, mu, connVars, panic>>

\* case c <- msg on an open channel with room in its buffer.
SendOk(s, c) ==
  /\ c \notin closed
  /\ Len(queue[c]) < ChannelBuf
  /\ queue' = [queue EXCEPT ![c] = Append(@, [src |-> s, seq |-> sent[s]])]
  /\ UNCHANGED <<slow, panic>>

\* Mutant: no default, the send waits for room.
SendFull_Blocks(s, c) == FALSE

\* Mutant: a full client misses the message and stays registered.
SendFull_Skips(s, c) ==
  /\ c \notin closed
  /\ Len(queue[c]) >= ChannelBuf
  /\ UNCHANGED <<queue, slow, panic>>

\* Mutant: the oldest queued message makes room for the new one.
SendFull_Overwrites(s, c) ==
  /\ c \notin closed
  /\ Len(queue[c]) >= ChannelBuf
  /\ queue' = [queue EXCEPT ![c] =
                 Append(Tail(@), [src |-> s, seq |-> sent[s]])]
  /\ UNCHANGED <<slow, panic>>

\* default: the buffer is full.
SendFull(s, c) ==
  /\ c \notin closed
  /\ Len(queue[c]) >= ChannelBuf
  /\ slow' = [slow EXCEPT ![s] = @ \cup {c}]
  /\ UNCHANGED <<queue, panic>>

\* A send on a closed channel panics, in a select with a default too.
SendClosed(c) ==
  /\ c \in closed
  /\ panic' = "send"
  /\ UNCHANGED <<queue, slow>>

Send(s, c) ==
  /\ AtSrc(s, "send")
  /\ c \in todo[s]
  /\ SendOk(s, c) \/ SendFull(s, c) \/ SendClosed(c)
  /\ todo' = [todo EXCEPT ![s] = @ \ {c}]
  /\ UNCHANGED <<clients, closed, got, mu, connVars, srcPc, sent>>

SendsDone(s) ==
  /\ AtSrc(s, "send")
  /\ todo[s] = {}
  /\ GoSrc(s, IF slow[s] = {} THEN "idle" ELSE "drop")
  /\ UNCHANGED <<clients, closed, queue, got, mu, connVars, todo, slow, sent,
                 panic>>

DropLock(s) ==
  /\ AtSrc(s, "drop")
  /\ Lock(s)
  /\ GoSrc(s, "dropping")
  /\ UNCHANGED <<clients, closed, queue, got, connVars, todo, slow, sent,
                 panic>>

\* Mutant: the loop does not look whether the client is still registered.
Drop_Unchecked(s, c) ==
  /\ AtSrc(s, "dropping")
  /\ c \in slow[s]
  /\ slow' = [slow EXCEPT ![s] = @ \ {c}]
  /\ Close(c)
  /\ GoSrc(s, "dec")
  /\ UNCHANGED <<queue, got, mu, connVars, todo, sent>>

\* One iteration of the drop loop; the client may have gone in the meantime.
Drop(s, c) ==
  /\ AtSrc(s, "dropping")
  /\ c \in slow[s]
  /\ slow' = [slow EXCEPT ![s] = @ \ {c}]
  /\ IF c \in clients
       THEN Close(c) /\ GoSrc(s, "dec")
       ELSE UNCHANGED <<clients, closed, panic, srcPc>>
  /\ UNCHANGED <<queue, got, mu, connVars, todo, sent>>

\* Mutant: a dropped client's slot is not given back.
DropCount_Leak(s) ==
  /\ AtSrc(s, "dec")
  /\ GoSrc(s, "dropping")
  /\ UNCHANGED <<clients, closed, queue, got, mu, connVars, todo, slow, sent,
                 panic>>

DropCount(s) ==
  /\ AtSrc(s, "dec")
  /\ count' = count - 1
  /\ GoSrc(s, "dropping")
  /\ UNCHANGED <<clients, closed, queue, got, mu, connPc, todo, slow, sent,
                 panic>>

DropUnlock(s) ==
  /\ AtSrc(s, "dropping")
  /\ slow[s] = {}
  /\ Unlock(s)
  /\ GoSrc(s, "idle")
  /\ UNCHANGED <<clients, closed, queue, got, connVars, todo, slow, sent,
                 panic>>

-----------------------------------------------------------------------------
ConnStep(c) ==
  \/ RegisterCount(c) \/ RegisterUndo(c) \/ RegisterInsert(c)
  \/ Recv(c) \/ Return(c)
  \/ UnregisterGone(c) \/ UnregisterClose(c) \/ UnregisterDone(c)

SourceStep(s) ==
  \/ Broadcast(s) \/ SendsDone(s)
  \/ \E c \in Conns : Send(s, c) \/ Drop(s, c)
  \/ DropLock(s) \/ DropCount(s) \/ DropUnlock(s)

\* Nothing is left to do: the process died, or every request was served and
\* every source made its MaxBroadcasts calls.
Halted ==
  /\ \/ panic # "none"
     \/ /\ \A c \in Conns : connPc[c] \in {"gone", "refused"}
        /\ \A s \in Sources : srcPc[s] = "idle" /\ sent[s] = MaxBroadcasts
  /\ UNCHANGED vars

Next ==
  \/ \E c \in Conns : ConnStep(c)
  \/ \E s \in Sources : SourceStep(s)
  \/ Halted

Spec == Init /\ [][Next]_vars

(***************************************************************************)
(* Fairness: a goroutine that can take a step takes it eventually (the Go  *)
(* scheduler preempts), and a goroutine that waits for mu gets it even if  *)
(* others take it in between (a blocked Lock of sync.RWMutex holds off new *)
(* readers, and its inner Mutex hands over to a starved waiter): strong    *)
(* fairness there.  Nothing is assumed of Recv and Return, which wait for  *)
(* the peer, nor of Broadcast, which waits for a ticker.                   *)
(***************************************************************************)
ConnFairness(c) ==
  /\ WF_vars(RegisterCount(c) \/ RegisterUndo(c) \/ UnregisterDone(c))
  /\ SF_vars(RegisterInsert(c))
  /\ SF_vars(UnregisterGone(c) \/ UnregisterClose(c))

SourceFairness(s) ==
  /\ WF_vars(SendsDone(s) \/ DropCount(s) \/ DropUnlock(s))
  /\ WF_vars(\E c \in Conns : Send(s, c) \/ Drop(s, c))
  /\ SF_vars(DropLock(s))

Fairness ==
  /\ \A c \in Conns : ConnFairness(c)
  /\ \A s \in Sources : SourceFairness(s)

FairSpec == Spec /\ Fairness

-----------------------------------------------------------------------------
(* Properties *)

\* What occupies a unit of count: a registered client, a Register call past
\* its add, an Unregister or a drop loop that has not subtracted yet.
Over == {c \in Conns : connPc[c] = "over"}
Adding == {c \in Conns : connPc[c] = "adding"}
Leaving == {c \in Conns : connPc[c] = "leaving"}
Dropping == {s \in Sources : srcPc[s] = "dec"}
Slots == clients \cup Over \cup Adding \cup Leaving \cup Dropping

\* The counter never drifts from the map: each registration is given back
\* exactly once, whichever of Unregister, a drop loop or a refused Register
\* gives it back, so no slot leaks and none is freed twice.
CountExact == count = Cardinality(Slots)

\* The map never holds more than maxClients channels, though the counter is
\* tested and the channel inserted in two steps without a common lock.
CapRespected == Cardinality(clients) <= MaxClients

\* Of the paths that close a channel (the handler's Unregister and the drop
\* loops of several concurrent Broadcasts) only the first one closes it.
NoDoubleClose == panic # "close"

\* A handler never waits on a channel that nobody can close or write to: a
\* channel leaves the map exactly when it is closed, and a handler that has
\* returned leaves no entry behind.
ChannelLifecycle ==
  \A c \in Conns :
    /\ connPc[c] \in {"new", "over", "adding", "refused"} =>
         c \notin clients /\ c \notin closed
    /\ connPc[c] \in {"in", "exit"} => (c \in clients <=> c \notin closed)
    /\ connPc[c] \in {"leaving", "gone"} => c \notin clients /\ c \in closed

\* The messages of s among those in q after position i.
Later(q, s, i) == {j \in DOMAIN q : j > i /\ q[j].src = s}

\* A client loses nothing in the middle: what a source broadcast reaches a
\* client in order and without a gap, and what a registered client has not
\* got of the source's last broadcast is still to be sent or makes it slow.
NoGap ==
  \A c \in Conns, s \in Sources :
    LET given == got[c] \o queue[c]
    IN \A i \in DOMAIN given : given[i].src = s =>
         LET later == Later(given, s, i)
         IN /\ \A j \in later :
                 (\A k \in later : j <= k) => given[j].seq = given[i].seq + 1
            /\ later = {} /\ c \in clients /\ c \notin todo[s] \cup slow[s] =>
                 given[i].seq = sent[s]

\* Broadcast returns although clients stop reading and although others use
\* the lock: a slow client is dropped rather than waited for.
BroadcastReturns ==
  \A s \in Sources : srcPc[s] # "idle" ~> srcPc[s] = "idle" \/ panic # "none"

\* Register and Unregister return, and a refused request is told so.
CallsReturn ==
  \A c \in Conns :
    connPc[c] \in {"over", "adding", "exit", "leaving"} ~>
      connPc[c] \in {"in", "gone", "refused"} \/ panic # "none"

-----------------------------------------------------------------------------
(* Refinement: channels, snapshots and slow lists implement FanOut.        *)

\* What c was given, received or not; whom s has still to serve or drop.
Given == [c \in Conns |-> got[c] \o queue[c]]
Owed == [s \in Sources |-> (todo[s] \cup slow[s]) \cap clients]

Promise == INSTANCE FanOut WITH
  member <- clients, left <- closed, log <- Given,
  read <- [c \in Conns |-> Len(got[c])], owed <- Owed

\* Every step of the broker is a step of FanOut or invisible to it: snapshots
\* taken without a lock, slow clients dropped after the sends and clients
\* that leave in between neither lose nor repeat nor reorder a message.
FanOutSpec == Promise!Spec

-----------------------------------------------------------------------------
(* What the documentation says and the code does not do *)

\* poller.go: "The goroutines run until ctx is cancelled."  They do not when
\* a client leaves between a Broadcast's snapshot and its send.
PollersSurvive == panic # "send"

\* broker.go: "maxClients is the maximum number of concurrent SSE
\* connections."  A dropped client gives up its slot while its handler still
\* drains the channel or blocks on the peer.
StreamsWithinCap ==
  Cardinality({c \in Conns : connPc[c] = "in"}) <= MaxClients

=============================================================================
