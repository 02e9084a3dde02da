---------------------------- MODULE BrokerProofs ----------------------------
(* Proofs about Broker for every number of connections and sources, every  *)
(* cap and every buffer size: its invariants, that it implements FanOut,   *)
(* and that what a client is given has no gaps.                            *)
EXTENDS Broker, FiniteSetTheorems, SequenceTheorems, TLAPS

\* A source that is inside Broadcast has counted that call.
SentInv == \A s \in Sources : srcPc[s] # "idle" => sent[s] \in 1..MaxBroadcasts

\* A goroutine between a removal and its unlock holds mu.
LockInv ==
  /\ \A c \in Conns : connPc[c] = "leaving" => mu = {c}
  /\ \A s \in Sources : srcPc[s] \in {"dropping", "dec"} => mu = {s}

\* What the cap is really about: all of count but the adds to be undone.
Held == Slots \ Over
HeldInv == Cardinality(Held) <= MaxClients

IInv ==
  /\ TypeOK
  /\ SentInv
  /\ LockInv
  /\ ChannelLifecycle
  /\ NoDoubleClose
  /\ CountExact
  /\ HeldInv

-----------------------------------------------------------------------------
(* Slots and cardinalities *)

\* Whoever occupies a slot is a connection or a source, so slots are finite.
LEMMA SlotsFinite ==
  ASSUME TypeOK
  PROVE  /\ Slots \subseteq Conns \cup Sources
         /\ IsFiniteSet(Slots)
         /\ Cardinality(Slots) \in Nat
<1>1. Slots \subseteq Conns \cup Sources
  BY DEF TypeOK, Slots, Over, Adding, Leaving, Dropping
<1>2. IsFiniteSet(Conns \cup Sources)
  BY FS_Union, ConnsAssumption, SourcesAssumption
<1>3. IsFiniteSet(Slots)
  BY <1>1, <1>2, FS_Subset
<1> QED
  BY <1>1, <1>3, FS_CardinalityType

\* An enclosing set of slots bounds the registered clients.
LEMMA HeldBounds ==
  ASSUME TypeOK, ChannelLifecycle, HeldInv
  PROVE  CapRespected
<1>1. clients \subseteq Held
  BY DEF TypeOK, ChannelLifecycle, Held, Slots, Over
<1>2. IsFiniteSet(Held)
  BY SlotsFinite, FS_Subset DEF Held
<1>3. Cardinality(clients) <= Cardinality(Held) /\ Cardinality(Held) \in Nat
  BY <1>1, <1>2, FS_Subset, FS_CardinalityType
<1>4. Cardinality(clients) \in Nat
  BY <1>1, <1>2, FS_Subset, FS_CardinalityType
<1> QED
  BY <1>3, <1>4, MaxClientsAssumption DEF CapRespected, HeldInv

-----------------------------------------------------------------------------
(* Channels *)

\* No step breaks the correspondence between map, channel and handler, and
\* none closes a channel that is closed.
LEMMA LifecycleStep ==
  ASSUME TypeOK, ChannelLifecycle, NoDoubleClose, [Next]_vars
  PROVE  ChannelLifecycle' /\ NoDoubleClose'
<1> USE DEF TypeOK, ChannelLifecycle, NoDoubleClose, At, Go, AtSrc, GoSrc,
            connVars, srcVars
<1>1. ASSUME NEW c \in Conns, RegisterCount(c)
      PROVE  ChannelLifecycle' /\ NoDoubleClose'
  BY <1>1 DEF RegisterCount
<1>2. ASSUME NEW c \in Conns, RegisterUndo(c)
      PROVE  ChannelLifecycle' /\ NoDoubleClose'
  BY <1>2 DEF RegisterUndo
<1>3. ASSUME NEW c \in Conns, RegisterInsert(c)
      PROVE  ChannelLifecycle' /\ NoDoubleClose'
  BY <1>3 DEF RegisterInsert
<1>4. ASSUME NEW c \in Conns, Recv(c)
      PROVE  ChannelLifecycle' /\ NoDoubleClose'
  BY <1>4 DEF Recv
<1>5. ASSUME NEW c \in Conns, Return(c)
      PROVE  ChannelLifecycle' /\ NoDoubleClose'
  BY <1>5 DEF Return
<1>6. ASSUME NEW c \in Conns, UnregisterGone(c)
      PROVE  ChannelLifecycle' /\ NoDoubleClose'
  BY <1>6 DEF UnregisterGone
<1>7. ASSUME NEW c \in Conns, UnregisterClose(c)
      PROVE  ChannelLifecycle' /\ NoDoubleClose'
  BY <1>7 DEF UnregisterClose, Close
<1>8. ASSUME NEW c \in Conns, UnregisterDone(c)
      PROVE  ChannelLifecycle' /\ NoDoubleClose'
  BY <1>8 DEF UnregisterDone
<1>9. ASSUME NEW s \in Sources,
             \/ Broadcast(s) \/ SendsDone(s)
             \/ DropLock(s) \/ DropCount(s) \/ DropUnlock(s)
      PROVE  ChannelLifecycle' /\ NoDoubleClose'
  BY <1>9 DEF Broadcast, SendsDone, DropLock, DropCount, DropUnlock
<1>10. ASSUME NEW s \in Sources, NEW c \in Conns, Send(s, c)
       PROVE  ChannelLifecycle' /\ NoDoubleClose'
  BY <1>10 DEF Send, SendOk, SendFull, SendClosed
<1>11. ASSUME NEW s \in Sources, NEW c \in Conns, Drop(s, c)
       PROVE  ChannelLifecycle' /\ NoDoubleClose'
  BY <1>11 DEF Drop, Close
<1>12. CASE UNCHANGED vars
  BY <1>12 DEF vars
<1> QED
  BY <1>1, <1>2, <1>3, <1>4, <1>5, <1>6, <1>7, <1>8, <1>9, <1>10, <1>11,
     <1>12 DEF Next, ConnStep, SourceStep, Halted

-----------------------------------------------------------------------------
(* The lock and the call counter of a source *)

\* Only the holder of mu is past a removal, because whoever takes mu finds it
\* free and nobody but the holder frees it.
LEMMA LockStep ==
  ASSUME TypeOK, LockInv, [Next]_vars
  PROVE  LockInv'
<1> USE DEF TypeOK, LockInv, At, Go, AtSrc, GoSrc, connVars, srcVars
<1>1. ASSUME NEW c \in Conns,
             \/ RegisterCount(c) \/ RegisterUndo(c) \/ RegisterInsert(c)
             \/ Recv(c) \/ Return(c) \/ UnregisterGone(c)
      PROVE  LockInv'
  BY <1>1 DEF RegisterCount, RegisterUndo, RegisterInsert, Recv, Return,
              UnregisterGone
<1>2. ASSUME NEW c \in Conns, UnregisterClose(c)
      PROVE  LockInv'
  BY <1>2 DEF UnregisterClose, Lock
<1>3. ASSUME NEW c \in Conns, UnregisterDone(c)
      PROVE  LockInv'
  <2>1. mu = {c} /\ c \notin Sources
    BY <1>3, SourcesAssumption DEF UnregisterDone, Unlock
  <2> QED
    BY <1>3, <2>1 DEF UnregisterDone
<1>4. ASSUME NEW s \in Sources, Broadcast(s) \/ SendsDone(s) \/ DropCount(s)
      PROVE  LockInv'
  BY <1>4 DEF Broadcast, SendsDone, DropCount
<1>5. ASSUME NEW s \in Sources, DropLock(s)
      PROVE  LockInv'
  BY <1>5 DEF DropLock, Lock
<1>6. ASSUME NEW s \in Sources, DropUnlock(s)
      PROVE  LockInv'
  BY <1>6, SourcesAssumption, ZenonT(30) DEF DropUnlock, Unlock
<1>7. ASSUME NEW s \in Sources, NEW c \in Conns, Send(s, c)
      PROVE  LockInv'
  BY <1>7 DEF Send
<1>8. ASSUME NEW s \in Sources, NEW c \in Conns, Drop(s, c)
      PROVE  LockInv'
  BY <1>8 DEF Drop
<1>9. CASE UNCHANGED vars
  BY <1>9 DEF vars
<1> QED
  BY <1>1, <1>2, <1>3, <1>4, <1>5, <1>6, <1>7, <1>8, <1>9
     DEF Next, ConnStep, SourceStep, Halted

\* Broadcast counts its call before it does anything else.
LEMMA SentStep ==
  ASSUME TypeOK, SentInv, [Next]_vars
  PROVE  SentInv'
<1> USE DEF TypeOK, SentInv, AtSrc, GoSrc, connVars, srcVars
<1>1. ASSUME NEW c \in Conns, ConnStep(c)
      PROVE  SentInv'
  BY <1>1 DEF ConnStep, RegisterCount, RegisterUndo, RegisterInsert, Recv,
              Return, UnregisterGone, UnregisterClose, UnregisterDone
<1>2. ASSUME NEW s \in Sources, Broadcast(s)
      PROVE  SentInv'
  BY <1>2, MaxBroadcastsAssumption DEF Broadcast
<1>3. ASSUME NEW s \in Sources,
             SendsDone(s) \/ DropLock(s) \/ DropCount(s) \/ DropUnlock(s)
      PROVE  SentInv'
  BY <1>3 DEF SendsDone, DropLock, DropCount, DropUnlock
<1>4. ASSUME NEW s \in Sources, NEW c \in Conns, Send(s, c) \/ Drop(s, c)
      PROVE  SentInv'
  BY <1>4 DEF Send, Drop
<1>5. CASE UNCHANGED vars
  BY <1>5 DEF vars
<1> QED
  BY <1>1, <1>2, <1>3, <1>4, <1>5 DEF Next, SourceStep, Halted

-----------------------------------------------------------------------------
(* The counter *)

\* How each step changes the occupied slots and the counter: a step takes a
\* slot and adds one, gives a slot back and subtracts one, hands a slot from
\* a removed client to the one that removed it, or does neither.
SlotTaken(x) ==
  x \notin Slots /\ Slots' = Slots \cup {x} /\ count' = count + 1
SlotFreed(x) ==
  x \in Slots /\ Slots' = Slots \ {x} /\ count' = count - 1
SlotHanded(x, y) ==
  /\ x \in Slots /\ y \notin Slots
  /\ Slots' = (Slots \ {x}) \cup {y} /\ count' = count
SlotsKept == Slots' = Slots /\ count' = count

SlotStep ==
  \/ SlotsKept
  \/ \E x \in Conns \cup Sources : SlotTaken(x) \/ SlotFreed(x)
  \/ \E x, y \in Conns \cup Sources : SlotHanded(x, y)

\* Every step does one of these.
LEMMA SlotsStep ==
  ASSUME TypeOK, ChannelLifecycle, [Next]_vars
  PROVE  SlotStep
<1> USE DEF TypeOK, Slots, Over, Adding, Leaving, Dropping, At, Go, AtSrc,
            GoSrc, connVars, srcVars
<1>1. ASSUME NEW c \in Conns, RegisterCount(c)
      PROVE  SlotTaken(c)
  BY <1>1, SourcesAssumption DEF RegisterCount, SlotTaken, ChannelLifecycle
<1>2. ASSUME NEW c \in Conns, RegisterUndo(c)
      PROVE  SlotFreed(c)
  BY <1>2, SourcesAssumption DEF RegisterUndo, SlotFreed, ChannelLifecycle
<1>3. ASSUME NEW c \in Conns, RegisterInsert(c)
      PROVE  SlotsKept
  BY <1>3 DEF RegisterInsert, SlotsKept
<1>4. ASSUME NEW c \in Conns, Recv(c) \/ Return(c) \/ UnregisterGone(c)
      PROVE  SlotsKept
  BY <1>4 DEF Recv, Return, UnregisterGone, SlotsKept
<1>5. ASSUME NEW c \in Conns, UnregisterClose(c)
      PROVE  SlotsKept
  BY <1>5 DEF UnregisterClose, Close, SlotsKept
<1>6. ASSUME NEW c \in Conns, UnregisterDone(c)
      PROVE  SlotFreed(c)
  BY <1>6, SourcesAssumption DEF UnregisterDone, SlotFreed, ChannelLifecycle
<1>7. ASSUME NEW s \in Sources,
             Broadcast(s) \/ SendsDone(s) \/ DropLock(s) \/ DropUnlock(s)
      PROVE  SlotsKept
  BY <1>7 DEF Broadcast, SendsDone, DropLock, DropUnlock, SlotsKept
<1>8. ASSUME NEW s \in Sources, NEW c \in Conns, Send(s, c)
      PROVE  SlotsKept
  BY <1>8 DEF Send, SlotsKept
<1>9. ASSUME NEW s \in Sources, NEW c \in Conns, Drop(s, c)
      PROVE  SlotsKept \/ SlotHanded(c, s)
  <2>1. CASE c \in clients
    BY <1>9, <2>1, SourcesAssumption
       DEF Drop, Close, SlotHanded, ChannelLifecycle
  <2>2. CASE c \notin clients
    BY <1>9, <2>2 DEF Drop, SlotsKept
  <2> QED
    BY <2>1, <2>2
<1>10. ASSUME NEW s \in Sources, DropCount(s)
       PROVE  SlotFreed(s)
  BY <1>10, SourcesAssumption DEF DropCount, SlotFreed
<1>11. ASSUME UNCHANGED vars
       PROVE  SlotsKept
  BY <1>11 DEF vars, SlotsKept
<1>12. ASSUME NEW c \in Conns, ConnStep(c)
       PROVE  SlotsKept \/ SlotTaken(c) \/ SlotFreed(c)
  BY <1>12, <1>1, <1>2, <1>3, <1>4, <1>5, <1>6 DEF ConnStep
<1>13. ASSUME NEW s \in Sources, SourceStep(s)
       PROVE  \/ SlotsKept \/ SlotFreed(s)
              \/ \E c \in Conns : SlotHanded(c, s)
  BY <1>13, <1>7, <1>8, <1>9, <1>10 DEF SourceStep
<1> HIDE DEF Slots, SlotsKept, SlotTaken, SlotFreed, SlotHanded
<1> QED
  BY <1>11, <1>12, <1>13 DEF Next, Halted, SlotStep

\* The counter is the number of occupied slots after a step if it was before.
LEMMA CountStep ==
  ASSUME TypeOK, CountExact, SlotStep
  PROVE  CountExact' /\ count' \in Nat
<1>1. IsFiniteSet(Slots) /\ Cardinality(Slots) \in Nat
  BY SlotsFinite
<1>2. CASE SlotsKept
  BY <1>2, <1>1 DEF SlotsKept, CountExact, TypeOK
<1>3. ASSUME NEW x \in Conns \cup Sources, SlotTaken(x)
      PROVE  CountExact' /\ count' \in Nat
  BY <1>1, <1>3, FS_AddElement DEF SlotTaken, CountExact
<1>4. ASSUME NEW x \in Conns \cup Sources, SlotFreed(x)
      PROVE  CountExact' /\ count' \in Nat
  <2>1. IsFiniteSet(Slots \ {x}) /\ Cardinality(Slots \ {x}) \in Nat
    BY <1>1, FS_RemoveElement, FS_CardinalityType
  <2>2. Cardinality(Slots \ {x}) = Cardinality(Slots) - 1
    BY <1>1, <1>4, FS_RemoveElement DEF SlotFreed
  <2> QED
    BY <1>4, <2>1, <2>2 DEF SlotFreed, CountExact
<1>5. ASSUME NEW x \in Conns \cup Sources, NEW y \in Conns \cup Sources,
             SlotHanded(x, y)
      PROVE  CountExact' /\ count' \in Nat
  <2> DEFINE R == Slots \ {x}
  <2>1. x \in Slots /\ y \notin R /\ Slots' = R \cup {y} /\ count' = count
    BY <1>5 DEF SlotHanded
  <2>2. IsFiniteSet(R) /\ Cardinality(R) = Cardinality(Slots) - 1
    BY <1>1, <2>1, FS_RemoveElement
  <2> HIDE DEF R
  <2>3. Cardinality(R \cup {y}) = Cardinality(R) + 1
    BY <2>1, <2>2, FS_AddElement
  <2> QED
    BY <1>1, <2>1, <2>2, <2>3 DEF CountExact
<1> QED
  BY <1>2, <1>3, <1>4, <1>5 DEF SlotStep

\* The cap holds of what is kept: only an add that saw room keeps its slot,
\* and it saw every slot that was taken at that moment.
LEMMA HeldStep ==
  ASSUME TypeOK, TypeOK', ChannelLifecycle, CountExact, CountExact', HeldInv,
         [Next]_vars
  PROVE  HeldInv'
<1> USE DEF At, Go, AtSrc, GoSrc, connVars, srcVars
<1>1. IsFiniteSet(Held) /\ Cardinality(Held) \in Nat
  BY SlotsFinite, FS_Subset, FS_CardinalityType DEF Held
<1>2. ASSUME Held' \subseteq Held
      PROVE  HeldInv'
  <2>1. Cardinality(Held') <= Cardinality(Held) /\ Cardinality(Held') \in Nat
    BY <1>1, <1>2, FS_Subset, FS_CardinalityType
  <2> QED
    BY <1>1, <2>1, MaxClientsAssumption DEF HeldInv
<1>3. ASSUME NEW c \in Conns, RegisterCount(c)
      PROVE  HeldInv'
  <2>1. CASE count' > MaxClients
    <3>1. Held' \subseteq Held
      BY <1>3, <2>1 DEF RegisterCount, Held, Slots, Over, Adding, Leaving,
                        Dropping, TypeOK
    <3> QED
      BY <1>2, <3>1
  <2>2. CASE ~(count' > MaxClients)
    <3>1. Cardinality(Slots') <= MaxClients
      BY <2>2, MaxClientsAssumption DEF CountExact, TypeOK
    <3>5. Slots' \subseteq Conns \cup Sources
      BY DEF TypeOK, Slots, Over, Adding, Leaving, Dropping
    <3>2. IsFiniteSet(Slots') /\ Cardinality(Slots') \in Nat
      BY <3>5, FS_Union, FS_Subset, FS_CardinalityType, ConnsAssumption,
         SourcesAssumption
    <3>3. Held' \subseteq Slots'
      BY DEF Held
    <3>4. Cardinality(Held') <= Cardinality(Slots') /\ Cardinality(Held') \in Nat
      BY <3>2, <3>3, FS_Subset, FS_CardinalityType
    <3> QED
      BY <3>1, <3>2, <3>4, MaxClientsAssumption DEF HeldInv
  <2> QED
    BY <2>1, <2>2
<1>4. ASSUME NEW c \in Conns,
             \/ RegisterUndo(c) \/ RegisterInsert(c) \/ Recv(c) \/ Return(c)
             \/ UnregisterGone(c) \/ UnregisterClose(c) \/ UnregisterDone(c)
      PROVE  Held' \subseteq Held
  <2> USE DEF TypeOK, Held, Slots, Over, Adding, Leaving, Dropping
  <2>1. CASE RegisterUndo(c) \/ UnregisterDone(c)
    BY <2>1, SourcesAssumption
       DEF RegisterUndo, UnregisterDone, ChannelLifecycle
  <2>2. CASE RegisterInsert(c)
    BY <2>2 DEF RegisterInsert
  <2>3. CASE Recv(c)
    BY <2>3 DEF Recv
  <2>4. CASE Return(c) \/ UnregisterGone(c)
    BY <2>4 DEF Return, UnregisterGone
  <2>5. CASE UnregisterClose(c)
    BY <2>5 DEF UnregisterClose, Close
  <2> QED
    BY <1>4, <2>1, <2>2, <2>3, <2>4, <2>5
<1>5. ASSUME NEW s \in Sources,
             \/ Broadcast(s) \/ SendsDone(s)
             \/ DropLock(s) \/ DropCount(s) \/ DropUnlock(s)
      PROVE  Held' \subseteq Held
  BY <1>5 DEF Broadcast, SendsDone, DropLock, DropCount, DropUnlock, TypeOK,
              Held, Slots, Over, Adding, Leaving, Dropping
<1>6. ASSUME NEW s \in Sources, NEW c \in Conns, Send(s, c)
      PROVE  Held' \subseteq Held
  BY <1>6 DEF Send, Held, Slots, Over, Adding, Leaving, Dropping
<1>7. ASSUME NEW s \in Sources, NEW c \in Conns, Drop(s, c)
      PROVE  HeldInv'
  <2>1. CASE c \in clients
    <3> DEFINE Rest == Held \ {c}
    <3>1. c \in Held /\ s \notin Rest /\ Held' = Rest \cup {s}
      BY <1>7, <2>1, SourcesAssumption
         DEF Drop, Close, TypeOK, ChannelLifecycle, Held, Slots, Over, Adding,
             Leaving, Dropping
    <3>2. IsFiniteSet(Rest) /\ Cardinality(Rest) = Cardinality(Held) - 1
      BY <1>1, <3>1, FS_RemoveElement
    <3> HIDE DEF Rest
    <3>3. Cardinality(Rest \cup {s}) = Cardinality(Rest) + 1
      BY <3>1, <3>2, FS_AddElement
    <3> QED
      BY <1>1, <3>1, <3>2, <3>3 DEF HeldInv
  <2>2. CASE c \notin clients
    <3>1. Held' \subseteq Held
      BY <1>7, <2>2 DEF Drop, Held, Slots, Over, Adding, Leaving, Dropping
    <3> QED
      BY <1>2, <3>1
  <2> QED
    BY <2>1, <2>2
<1>8. CASE UNCHANGED vars
  <2>1. Held' \subseteq Held
    BY <1>8 DEF vars, Held, Slots, Over, Adding, Leaving, Dropping
  <2> QED
    BY <1>2, <2>1
<1>9. ASSUME NEW c \in Conns, ConnStep(c)
      PROVE  HeldInv'
  BY <1>9, <1>2, <1>3, <1>4 DEF ConnStep
<1>10. ASSUME NEW s \in Sources, SourceStep(s)
       PROVE  HeldInv'
  BY <1>10, <1>2, <1>5, <1>6, <1>7 DEF SourceStep
<1> QED
  BY <1>8, <1>9, <1>10 DEF Next, Halted

-----------------------------------------------------------------------------
(* Types *)

\* TypeOK in two halves: the channels, and everything else but count.
QueuesTyped ==
  /\ queue \in [Conns -> Seq(Message)]
  /\ \A c \in Conns : Len(queue[c]) <= ChannelBuf
  /\ got \in [Conns -> Seq(Message)]

RestTyped ==
  /\ clients \in SUBSET Conns
  /\ closed \in SUBSET Conns
  /\ mu \in SUBSET (Conns \cup Sources)
  /\ connPc \in [Conns -> {"new", "over", "adding", "in", "exit", "leaving",
                           "gone", "refused"}]
  /\ srcPc \in [Sources -> {"idle", "send", "drop", "dropping", "dec"}]
  /\ todo \in [Sources -> SUBSET Conns]
  /\ slow \in [Sources -> SUBSET Conns]
  /\ sent \in [Sources -> 0..MaxBroadcasts]
  /\ panic \in {"none", "send", "close"}

\* A removal from the front and a permitted send keep a channel well typed.
LEMMA QueueStep ==
  ASSUME TypeOK, SentInv, [Next]_vars
  PROVE  QueuesTyped'
<1>1. ASSUME NEW c \in Conns, Recv(c)
      PROVE  QueuesTyped'
  <2>1. queue[c] \in Seq(Message) /\ queue[c] # <<>> /\ got[c] \in Seq(Message)
    BY <1>1 DEF TypeOK, Recv
  <2>2. /\ Tail(queue[c]) \in Seq(Message)
        /\ Len(Tail(queue[c])) = Len(queue[c]) - 1
        /\ Append(got[c], Head(queue[c])) \in Seq(Message)
        /\ Len(queue[c]) \in Nat
    BY <2>1
  <2>3. Len(Tail(queue[c])) <= ChannelBuf
    BY <2>2, ChannelBufAssumption DEF TypeOK
  <2>4. /\ queue' = [queue EXCEPT ![c] = Tail(queue[c])]
        /\ got' = [got EXCEPT ![c] = Append(got[c], Head(queue[c]))]
    BY <1>1 DEF Recv
  <2> QED
    BY <2>2, <2>3, <2>4 DEF TypeOK, QueuesTyped
<1>2. ASSUME NEW s \in Sources, NEW c \in Conns, Send(s, c)
      PROVE  QueuesTyped'
  <2>1. CASE SendOk(s, c)
    <3> DEFINE msg == [src |-> s, seq |-> sent[s]]
    <3>1. msg \in Message
      BY <1>2 DEF SentInv, Message, Send, AtSrc
    <3>2. queue[c] \in Seq(Message) /\ Len(queue[c]) < ChannelBuf
      BY <2>1 DEF TypeOK, SendOk
    <3>3. queue' = [queue EXCEPT ![c] = Append(queue[c], msg)] /\ got' = got
      BY <1>2, <2>1 DEF Send, SendOk
    <3> HIDE DEF msg
    <3>4. /\ Append(queue[c], msg) \in Seq(Message)
          /\ Len(Append(queue[c], msg)) = Len(queue[c]) + 1
          /\ Len(queue[c]) \in Nat
      BY <3>1, <3>2
    <3>5. Len(Append(queue[c], msg)) <= ChannelBuf
      BY <3>2, <3>4, ChannelBufAssumption
    <3> QED
      BY <3>3, <3>4, <3>5 DEF TypeOK, QueuesTyped
  <2>2. CASE SendFull(s, c) \/ SendClosed(c)
    BY <1>2, <2>2 DEF Send, SendFull, SendClosed, TypeOK, QueuesTyped
  <2> QED
    BY <1>2, <2>1, <2>2 DEF Send
<1>3. ASSUME UNCHANGED <<queue, got>>
      PROVE  QueuesTyped'
  BY <1>3 DEF TypeOK, QueuesTyped
<1>4. ASSUME NEW c \in Conns, ConnStep(c)
      PROVE  Recv(c) \/ UNCHANGED <<queue, got>>
  BY <1>4 DEF ConnStep, RegisterCount, RegisterUndo, RegisterInsert, Return,
              UnregisterGone, UnregisterClose, UnregisterDone
<1>5. ASSUME NEW s \in Sources, SourceStep(s)
      PROVE  (\E c \in Conns : Send(s, c)) \/ UNCHANGED <<queue, got>>
  BY <1>5 DEF SourceStep, Broadcast, SendsDone, DropLock, Drop, DropCount,
              DropUnlock
<1>6. ASSUME UNCHANGED vars
      PROVE  UNCHANGED <<queue, got>>
  BY <1>6 DEF vars
<1> QED
  BY <1>1, <1>2, <1>3, <1>4, <1>5, <1>6 DEF Next, Halted

\* The variables other than the counter and the queues keep their types.
LEMMA RestStep ==
  ASSUME TypeOK, [Next]_vars
  PROVE  RestTyped'
<1>1. ASSUME NEW c \in Conns, ConnStep(c)
      PROVE  RestTyped'
  <2> USE DEF TypeOK, RestTyped, Go, srcVars
  <2>1. CASE RegisterCount(c) \/ RegisterUndo(c) \/ RegisterInsert(c)
    BY <2>1 DEF RegisterCount, RegisterUndo, RegisterInsert
  <2>2. CASE Recv(c) \/ Return(c) \/ UnregisterGone(c)
    BY <2>2 DEF Recv, Return, UnregisterGone
  <2>3. CASE UnregisterClose(c) \/ UnregisterDone(c)
    BY <2>3 DEF UnregisterClose, UnregisterDone, Close, Lock, Unlock
  <2> QED
    BY <1>1, <2>1, <2>2, <2>3 DEF ConnStep
<1>2. ASSUME NEW s \in Sources, Broadcast(s)
      PROVE  RestTyped'
  <2>1. sent[s] + 1 \in 0..MaxBroadcasts
    BY <1>2, MaxBroadcastsAssumption DEF TypeOK, Broadcast
  <2> QED
    BY <1>2, <2>1 DEF TypeOK, RestTyped, GoSrc, connVars, Broadcast
<1>3. ASSUME NEW s \in Sources, NEW c \in Conns, Send(s, c)
      PROVE  RestTyped'
  <2>1. UNCHANGED <<clients, closed, mu, connPc, srcPc, sent>>
    BY <1>3 DEF Send, connVars
  <2>2. todo' \in [Sources -> SUBSET Conns]
    BY <1>3 DEF Send, TypeOK
  <2>3. /\ slow' \in [Sources -> SUBSET Conns]
        /\ panic' \in {"none", "send", "close"}
    <3>1. CASE SendOk(s, c) \/ SendClosed(c)
      BY <3>1 DEF SendOk, SendClosed, TypeOK
    <3>2. CASE SendFull(s, c)
      BY <3>2 DEF SendFull, TypeOK
    <3> QED
      BY <1>3, <3>1, <3>2 DEF Send
  <2> QED
    BY <2>1, <2>2, <2>3 DEF TypeOK, RestTyped
<1>4. ASSUME NEW s \in Sources,
             \/ SendsDone(s) \/ DropLock(s) \/ DropCount(s) \/ DropUnlock(s)
      PROVE  RestTyped'
  BY <1>4 DEF SendsDone, DropLock, DropCount, DropUnlock, Lock, Unlock, GoSrc,
              connVars, TypeOK, RestTyped
<1>5. ASSUME NEW s \in Sources, NEW c \in Conns, Drop(s, c)
      PROVE  RestTyped'
  <2>1. UNCHANGED <<mu, connPc, todo, sent>>
    BY <1>5 DEF Drop, connVars
  <2>2. slow' \in [Sources -> SUBSET Conns]
    BY <1>5 DEF Drop, TypeOK
  <2>3. /\ clients' \in SUBSET Conns
        /\ closed' \in SUBSET Conns
        /\ srcPc' \in [Sources -> {"idle", "send", "drop", "dropping", "dec"}]
        /\ panic' \in {"none", "send", "close"}
    <3>1. CASE c \in clients
      <4>1. /\ clients' = clients \ {c}
            /\ closed' = closed \cup {c}
            /\ panic' \in {panic, "close"}
            /\ srcPc' = [srcPc EXCEPT ![s] = "dec"]
        BY <1>5, <3>1 DEF Drop, Close, GoSrc
      <4>2. srcPc' \in [Sources -> {"idle", "send", "drop", "dropping", "dec"}]
        BY <4>1 DEF TypeOK
      <4> QED
        BY <4>1, <4>2 DEF TypeOK
    <3>2. CASE c \notin clients
      BY <1>5, <3>2 DEF Drop, TypeOK
    <3> QED
      BY <3>1, <3>2
  <2> QED
    BY <2>1, <2>2, <2>3 DEF TypeOK, RestTyped
<1>6. ASSUME UNCHANGED vars
      PROVE  RestTyped'
  BY <1>6 DEF vars, TypeOK, RestTyped
<1> QED
  BY <1>1, <1>2, <1>3, <1>4, <1>5, <1>6 DEF Next, SourceStep, Halted

\* Every step keeps the types.
LEMMA TypeStep ==
  ASSUME TypeOK, SentInv, ChannelLifecycle, CountExact, [Next]_vars
  PROVE  TypeOK'
<1>1. count' \in Nat
  BY SlotsStep, CountStep
<1> QED
  BY <1>1, QueueStep, RestStep DEF TypeOK, QueuesTyped, RestTyped

-----------------------------------------------------------------------------
(* The theorems *)

\* The inductive invariant holds before the first request.
LEMMA InitIInv == Init => IInv
<1> SUFFICES ASSUME Init
             PROVE  IInv
  OBVIOUS
<1>1. TypeOK
  BY MaxBroadcastsAssumption, ChannelBufAssumption DEF Init, TypeOK
<1>2. SentInv /\ LockInv /\ ChannelLifecycle /\ NoDoubleClose
  BY DEF Init, SentInv, LockInv, ChannelLifecycle, NoDoubleClose
<1>3. Slots = {} /\ Held = {}
  BY DEF Init, Slots, Held, Over, Adding, Leaving, Dropping
<1>4. CountExact /\ HeldInv
  BY <1>3, FS_EmptySet, MaxClientsAssumption DEF Init, CountExact, HeldInv
<1> QED
  BY <1>1, <1>2, <1>4 DEF IInv

\* Every step of a handler, of a Broadcast and of a drop loop keeps the
\* inductive invariant.
LEMMA NextIInv == IInv /\ [Next]_vars => IInv'
<1> SUFFICES ASSUME IInv, [Next]_vars
             PROVE  IInv'
  OBVIOUS
<1> USE DEF IInv
<1>1. TypeOK'
  BY TypeStep
<1>2. SentInv' /\ LockInv'
  BY SentStep, LockStep
<1>3. ChannelLifecycle' /\ NoDoubleClose'
  BY LifecycleStep
<1>4. CountExact'
  BY SlotsStep, CountStep
<1>5. HeldInv'
  BY <1>1, <1>4, HeldStep
<1> QED
  BY <1>1, <1>2, <1>3, <1>4, <1>5

\* The inductive invariant holds in every reachable state of the broker
\* (Register, Unregister, Broadcast).
THEOREM Inductive == Spec => []IInv
<1> QED
  BY InitIInv, NextIInv, PTL DEF Spec

\* Every variable keeps its type, and in particular no channel holds more
\* than channelBuf messages and the counter never becomes negative.
THEOREM TypeCorrect == Spec => []TypeOK
<1>1. IInv => TypeOK
  BY DEF IInv
<1> QED
  BY <1>1, Inductive, PTL

\* The counter is the number of occupied slots, for any number of clients,
\* pollers and broadcasts (Register, Unregister and the drop loop).
THEOREM CounterCorrect == Spec => []CountExact
<1>1. IInv => CountExact
  BY DEF IInv
<1> QED
  BY <1>1, Inductive, PTL

\* The map never exceeds maxClients (Register's optimistic add).
THEOREM CapCorrect == Spec => []CapRespected
<1>1. IInv => CapRespected
  BY HeldBounds DEF IInv
<1> QED
  BY <1>1, Inductive, PTL

\* No channel is closed twice, whoever removes it (Unregister, Broadcast).
THEOREM CloseOnce == Spec => []NoDoubleClose
<1>1. IInv => NoDoubleClose
  BY DEF IInv
<1> QED
  BY <1>1, Inductive, PTL

\* A channel is closed exactly when it leaves the map, so that its handler
\* ends, and a handler that has returned is in no map (Unregister, Broadcast).
THEOREM LifecycleCorrect == Spec => []ChannelLifecycle
<1>1. IInv => ChannelLifecycle
  BY DEF IInv
<1> QED
  BY <1>1, Inductive, PTL

-----------------------------------------------------------------------------
(* The refinement of FanOut, and no gaps *)

\* The stages of a Broadcast: snapshot and slow list are empty outside it and
\* disjoint inside, the drop loop starts when the snapshot is used up, and
\* both hold only channels that are or were registered.
RoundInv ==
  \A s \in Sources :
    /\ srcPc[s] # "send" => todo[s] = {}
    /\ srcPc[s] = "idle" => slow[s] = {}
    /\ todo[s] \cap slow[s] = {}
    /\ todo[s] \cup slow[s] \subseteq clients \cup closed

\* No Broadcast is under way before the first one.
LEMMA RoundInit == Init => RoundInv
  BY DEF Init, RoundInv

\* Every step keeps the stages of Broadcast apart.
LEMMA RoundStep ==
  ASSUME TypeOK, RoundInv, [Next]_vars
  PROVE  RoundInv'
<1> USE DEF TypeOK, RoundInv, GoSrc, AtSrc
<1>1. ASSUME NEW c \in Conns, ConnStep(c)
      PROVE  RoundInv'
  <2>1. UNCHANGED srcVars /\ clients \cup closed \subseteq clients' \cup closed'
    BY <1>1 DEF ConnStep, RegisterCount, RegisterUndo, RegisterInsert, Recv,
                Return, UnregisterGone, UnregisterClose, UnregisterDone, Close
  <2> QED
    BY <2>1 DEF srcVars
<1>2. ASSUME NEW s \in Sources, Broadcast(s)
      PROVE  RoundInv'
  BY <1>2 DEF Broadcast
<1>3. ASSUME NEW s \in Sources, NEW c \in Conns, Send(s, c)
      PROVE  RoundInv'
  <2>1. CASE SendFull(s, c)
    BY <1>3, <2>1 DEF Send, SendFull
  <2>2. CASE SendOk(s, c) \/ SendClosed(c)
    BY <1>3, <2>2 DEF Send, SendOk, SendClosed
  <2> QED
    BY <1>3, <2>1, <2>2 DEF Send
<1>4. ASSUME NEW s \in Sources, SendsDone(s)
      PROVE  RoundInv'
  BY <1>4 DEF SendsDone
<1>5. ASSUME NEW s \in Sources, DropLock(s) \/ DropCount(s) \/ DropUnlock(s)
      PROVE  RoundInv'
  BY <1>5 DEF DropLock, DropCount, DropUnlock
<1>6. ASSUME NEW s \in Sources, NEW c \in Conns, Drop(s, c)
      PROVE  RoundInv'
  <2>1. CASE c \in clients
    BY <1>6, <2>1 DEF Drop, Close
  <2>2. CASE c \notin clients
    BY <1>6, <2>2 DEF Drop
  <2> QED
    BY <2>1, <2>2
<1>7. ASSUME UNCHANGED vars
      PROVE  RoundInv'
  BY <1>7 DEF vars
<1> QED
  BY <1>1, <1>2, <1>3, <1>4, <1>5, <1>6, <1>7 DEF Next, SourceStep, Halted

-----------------------------------------------------------------------------
(* Sequences *)

\* Receiving moves a message from the queue to the history: what was given
\* stays the same.
LEMMA GivenAfterRecv ==
  ASSUME NEW S, NEW g \in Seq(S), NEW q \in Seq(S), q # <<>>
  PROVE  Append(g, Head(q)) \o Tail(q) = g \o q
<1>1. /\ Head(q) = q[1] /\ Head(q) \in S /\ Tail(q) \in Seq(S)
      /\ Len(q) \in Nat \ {0}
  BY HeadTailProperties, EmptySeq
<1>2. Tail(q) = SubSeq(q, 2, Len(q))
  BY TailIsSubSeq
<1>3. SubSeq(q, 1, Len(q)) = <<q[1]>> \o SubSeq(q, 1 + 1, Len(q))
  BY <1>1, SubSeqRecursiveFirst
<1>4. q = <<Head(q)>> \o Tail(q)
  BY <1>1, <1>2, <1>3, SubSeqFull
<1>5. Append(g, Head(q)) = g \o <<Head(q)>> /\ <<Head(q)>> \in Seq(S)
  BY <1>1
<1>6. (g \o <<Head(q)>>) \o Tail(q) = g \o (<<Head(q)>> \o Tail(q))
  BY <1>1, <1>5, ConcatAssociative
<1> QED
  BY <1>4, <1>5, <1>6

\* While a message is queued, the reader is behind what it was given.
LEMMA ReadBehind ==
  ASSUME NEW S, NEW g \in Seq(S), NEW q \in Seq(S), q # <<>>
  PROVE  Len(g) < Len(g \o q)
<1>1. Len(g \o q) = Len(g) + Len(q)
  BY ConcatProperties
<1>2. Len(g) \in Nat /\ Len(q) \in Nat /\ Len(q) # 0
  BY EmptySeq, LenProperties
<1> QED
  BY <1>1, <1>2

\* Sending appends to what was given.
LEMMA GivenAfterSend ==
  ASSUME NEW S, NEW g \in Seq(S), NEW q \in Seq(S), NEW e \in S
  PROVE  g \o Append(q, e) = Append(g \o q, e)
<1>1. Append(q, e) = q \o <<e>> /\ <<e>> \in Seq(S)
  OBVIOUS
<1>2. g \o q \in Seq(S)
  BY ConcatProperties
<1>3. Append(g \o q, e) = (g \o q) \o <<e>>
  BY <1>2
<1> QED
  BY <1>1, <1>3, ConcatAssociative

-----------------------------------------------------------------------------
(* The simulation *)

\* A step that changes nothing FanOut can see.
Invisible ==
  UNCHANGED <<clients, closed, queue, got, sent>> /\ Owed' = Owed

\* What FanOut cannot see is a stuttering step of it.
LEMMA InvisibleStutters == Invisible => UNCHANGED Promise!vars
  BY DEF Invisible, Promise!vars, Given

\* An empty broker is an empty FanOut.
LEMMA RefineInit == Init => Promise!Init
<1> SUFFICES ASSUME Init
             PROVE  Promise!Init
  OBVIOUS
<1>1. Given = [c \in Conns |-> <<>>]
  <2>1. <<>> \o <<>> = <<>>
    OBVIOUS
  <2> QED
    BY <2>1 DEF Init, Given
<1>2. Owed = [s \in Sources |-> {}]
  BY DEF Init, Owed
<1>3. [c \in Conns |-> Len(got[c])] = [c \in Conns |-> 0]
  BY DEF Init
<1> QED
  BY <1>1, <1>2, <1>3 DEF Init, Promise!Init

\* Inserting the channel is joining: the add before it left room, because the
\* registered clients and this one all hold a slot.
LEMMA RefineRegisterInsert ==
  ASSUME TypeOK, ChannelLifecycle, HeldInv, RoundInv,
         NEW c \in Conns, RegisterInsert(c)
  PROVE  Promise!Join(c)
<1>1. c \notin clients \cup closed
  BY DEF RegisterInsert, At, ChannelLifecycle
<1>2. Cardinality(clients) < MaxClients
  <2>1. clients \cup {c} \subseteq Held
    BY DEF RegisterInsert, At, TypeOK, ChannelLifecycle, Held, Slots, Over,
           Adding
  <2>2. IsFiniteSet(Held)
    BY SlotsFinite, FS_Subset DEF Held
  <2>3. /\ IsFiniteSet(clients) /\ IsFiniteSet(clients \cup {c})
        /\ Cardinality(clients \cup {c}) <= Cardinality(Held)
    BY <2>1, <2>2, FS_Subset
  <2>4. Cardinality(clients \cup {c}) = Cardinality(clients) + 1
    BY <1>1, <2>3, FS_AddElement
  <2>5. Cardinality(clients) \in Nat /\ Cardinality(Held) \in Nat
    BY <2>2, <2>3, FS_CardinalityType
  <2> QED
    BY <2>3, <2>4, <2>5, MaxClientsAssumption DEF HeldInv
<1>3. Owed' = Owed
  BY <1>1 DEF RegisterInsert, srcVars, RoundInv, Owed
<1>4. Promise!Cardinality(clients) = Cardinality(clients)
  BY DEF Promise!Cardinality, Cardinality
<1>5. UNCHANGED <<closed, sent, got, queue>>
  BY DEF RegisterInsert, srcVars
<1>6. UNCHANGED <<Given, [d \in Conns |-> Len(got[d])]>>
  BY <1>5 DEF Given
<1>7. clients' = clients \cup {c}
  BY DEF RegisterInsert
<1> QED
  BY <1>1, <1>2, <1>3, <1>4, <1>5, <1>6, <1>7 DEF Promise!Join

\* A receive takes the oldest message the client was given and has not read.
LEMMA RefineRecv ==
  ASSUME TypeOK, NEW c \in Conns, Recv(c)
  PROVE  Promise!Read(c)
<1>1. queue[c] \in Seq(Message) /\ got[c] \in Seq(Message) /\ queue[c] # <<>>
  BY DEF TypeOK, Recv
<1>2. /\ got' = [got EXCEPT ![c] = Append(got[c], Head(queue[c]))]
      /\ queue' = [queue EXCEPT ![c] = Tail(queue[c])]
      /\ UNCHANGED <<clients, closed, todo, slow, sent>>
  BY DEF Recv, srcVars
<1>3. Append(got[c], Head(queue[c])) \o Tail(queue[c]) = got[c] \o queue[c]
  BY <1>1, GivenAfterRecv
<1>4. Given' = Given
  <2>1. ASSUME NEW d \in Conns
        PROVE  got'[d] \o queue'[d] = got[d] \o queue[d]
    BY <1>2, <1>3 DEF TypeOK
  <2> QED
    BY <2>1 DEF Given
<1>5. Len(got[c]) < Len(Given[c])
  <2>1. Given[c] = got[c] \o queue[c]
    BY DEF Given
  <2> QED
    BY <1>1, <2>1, ReadBehind, Zenon
<1>6. Len(Append(got[c], Head(queue[c]))) = Len(got[c]) + 1
  BY <1>1, HeadTailProperties
<1> DEFINE read == [d \in Conns |-> Len(got[d])]
<1>7. read' = [read EXCEPT ![c] = read[c] + 1]
  <2>1. ASSUME NEW d \in Conns
        PROVE  Len(got'[d]) = IF d = c THEN Len(got[c]) + 1 ELSE Len(got[d])
    BY <1>2, <1>6 DEF TypeOK
  <2> QED
    BY <2>1
<1>8. Owed' = Owed
  BY <1>2 DEF Owed
<1> QED
  BY <1>2, <1>4, <1>5, <1>7, <1>8 DEF Promise!Read

\* Closing a registered channel is how a client leaves.
LEMMA RefineClose ==
  ASSUME NEW c \in Conns, c \in clients, Close(c),
         UNCHANGED <<queue, got, sent, todo>>,
         \/ UNCHANGED slow
         \/ \E s \in Sources : slow' = [slow EXCEPT ![s] = slow[s] \ {c}],
         slow \in [Sources -> SUBSET Conns]
  PROVE  Promise!Leave(c)
<1>1. clients' = clients \ {c}
  BY DEF Close
<1>2. ASSUME NEW s \in Sources
      PROVE  (todo'[s] \cup slow'[s]) \cap clients' =
               ((todo[s] \cup slow[s]) \cap clients) \ {c}
  <2>1. slow'[s] = slow[s] \/ slow'[s] = slow[s] \ {c}
    OBVIOUS
  <2> QED
    BY <1>1, <2>1
<1>3. Owed' = [s \in Sources |-> Owed[s] \ {c}]
  BY <1>2 DEF Owed
<1> QED
  BY <1>3 DEF Close, Promise!Leave, Given

\* The snapshot is the set of members the new message is owed to.
LEMMA RefineBroadcast ==
  ASSUME TypeOK, RoundInv, NEW s \in Sources, Broadcast(s)
  PROVE  Promise!Publish(s)
<1>1. Owed[s] = {}
  BY DEF Broadcast, AtSrc, RoundInv, Owed
<1>2. Owed' = [Owed EXCEPT ![s] = clients]
  BY DEF Broadcast, TypeOK, Owed
<1> QED
  BY <1>1, <1>2 DEF Broadcast, Promise!Publish, Given

\* A send that finds room gives the client the source's last message.
LEMMA RefineSendOk ==
  ASSUME TypeOK, SentInv, RoundInv, NEW s \in Sources, NEW c \in Conns,
         Send(s, c), SendOk(s, c)
  PROVE  Promise!Deliver(s, c)
<1>0. PICK msg : msg = [src |-> s, seq |-> sent[s]]
  OBVIOUS
<1>1. /\ c \in todo[s] /\ c \in clients /\ c \notin slow[s]
      /\ srcPc[s] = "send"
  BY DEF Send, AtSrc, SendOk, RoundInv
<1>2. msg \in Message
  BY <1>0, <1>1 DEF SentInv, Message
<1>3. /\ queue' = [queue EXCEPT ![c] = Append(queue[c], msg)]
      /\ todo' = [todo EXCEPT ![s] = todo[s] \ {c}]
      /\ UNCHANGED <<clients, closed, got, sent, slow>>
  BY <1>0 DEF Send, SendOk
<1>4. queue[c] \in Seq(Message) /\ got[c] \in Seq(Message)
  BY DEF TypeOK
<1>5. got[c] \o Append(queue[c], msg) = Append(got[c] \o queue[c], msg)
  <2>1. \A g, q \in Seq(Message), e \in Message :
          g \o Append(q, e) = Append(g \o q, e)
    BY GivenAfterSend
  <2> QED
    BY <1>2, <1>4, <2>1, Zenon
<1>6. Given' = [Given EXCEPT ![c] = Append(Given[c], msg)]
  <2>1. ASSUME NEW d \in Conns
        PROVE  got'[d] \o queue'[d] = IF d = c THEN Append(got[c] \o queue[c], msg)
                                               ELSE got[d] \o queue[d]
    BY <1>3, <1>5 DEF TypeOK
  <2> QED
    BY <2>1 DEF Given
<1>7. Len(Given[c]) - Len(got[c]) < ChannelBuf
  <2>1. /\ Len(got[c] \o queue[c]) = Len(got[c]) + Len(queue[c])
        /\ Len(got[c]) \in Nat /\ Len(queue[c]) \in Nat
    BY <1>4, ConcatProperties, LenProperties
  <2> QED
    BY <2>1, ChannelBufAssumption DEF SendOk, Given
<1>8. Owed' = [Owed EXCEPT ![s] = Owed[s] \ {c}]
  BY <1>1, <1>3 DEF TypeOK, Owed
<1>9. c \in Owed[s]
  BY <1>1 DEF Owed
<1>10. UNCHANGED [d \in Conns |-> Len(got[d])]
  BY <1>3
<1> QED
  BY <1>0, <1>3, <1>6, <1>7, <1>8, <1>9, <1>10 DEF Promise!Deliver

\* A full buffer moves the client from the snapshot to the slow list, and a
\* closed channel is nobody's any more.
LEMMA RefineSendOther ==
  ASSUME TypeOK, ChannelLifecycle, NEW s \in Sources, NEW c \in Conns,
         Send(s, c), SendFull(s, c) \/ SendClosed(c)
  PROVE  Invisible
<1>1. CASE SendFull(s, c)
  <2>1. Owed' = Owed
    BY <1>1 DEF Send, SendFull, TypeOK, Owed
  <2> QED
    BY <1>1, <2>1 DEF Send, SendFull, Invisible
<1>2. CASE SendClosed(c)
  <2>1. c \notin clients
    BY <1>2 DEF SendClosed, ChannelLifecycle, TypeOK
  <2>2. Owed' = Owed
    BY <1>2, <2>1 DEF Send, SendClosed, TypeOK, Owed
  <2> QED
    BY <1>2, <2>2 DEF Send, SendClosed, Invisible
<1> QED
  BY <1>1, <1>2

\* Every step of the broker is one of FanOut or cannot be seen there.
LEMMA RefineStep ==
  ASSUME IInv, RoundInv, [Next]_vars
  PROVE  [Promise!Next]_Promise!vars
<1> USE DEF IInv
<1>1. ASSUME NEW c \in Conns, ConnStep(c)
      PROVE  Promise!Next \/ Invisible
  <2>1. CASE RegisterInsert(c)
    <3>1. Promise!Join(c)
      BY <2>1, RefineRegisterInsert
    <3> QED
      BY <3>1 DEF Promise!Next
  <2>2. CASE Recv(c)
    <3>1. Promise!Read(c)
      BY <2>2, RefineRecv
    <3> QED
      BY <3>1 DEF Promise!Next
  <2>3. CASE UnregisterClose(c)
    <3>1. /\ c \in clients /\ Close(c) /\ slow \in [Sources -> SUBSET Conns]
          /\ UNCHANGED <<queue, got, sent, todo, slow>>
      BY <2>3 DEF UnregisterClose, srcVars, TypeOK
    <3>2. Promise!Leave(c)
      BY <3>1, RefineClose
    <3> QED
      BY <3>2 DEF Promise!Next
  <2>4. CASE \/ RegisterCount(c) \/ RegisterUndo(c) \/ Return(c)
             \/ UnregisterGone(c) \/ UnregisterDone(c)
    <3>1. UNCHANGED <<clients, closed, queue, got, srcVars>>
      BY <2>4 DEF RegisterCount, RegisterUndo, Return, UnregisterGone,
                  UnregisterDone
    <3> QED
      BY <3>1 DEF srcVars, Invisible, Owed
  <2> QED
    BY <1>1, <2>1, <2>2, <2>3, <2>4 DEF ConnStep
<1>2. ASSUME NEW s \in Sources, Broadcast(s)
      PROVE  Promise!Next
  <2>1. Promise!Publish(s)
    BY <1>2, RefineBroadcast
  <2> QED
    BY <2>1 DEF Promise!Next
<1>3. ASSUME NEW s \in Sources, NEW c \in Conns, Send(s, c)
      PROVE  Promise!Next \/ Invisible
  <2>1. CASE SendOk(s, c)
    <3>1. Promise!Deliver(s, c)
      BY <1>3, <2>1, RefineSendOk
    <3> QED
      BY <3>1 DEF Promise!Next
  <2>2. CASE SendFull(s, c) \/ SendClosed(c)
    BY <1>3, <2>2, RefineSendOther
  <2> QED
    BY <1>3, <2>1, <2>2 DEF Send
<1>4. ASSUME NEW s \in Sources,
             SendsDone(s) \/ DropLock(s) \/ DropCount(s) \/ DropUnlock(s)
      PROVE  Invisible
  <2>1. UNCHANGED <<clients, closed, queue, got, sent, todo, slow>>
    BY <1>4 DEF SendsDone, DropLock, DropCount, DropUnlock
  <2> QED
    BY <2>1 DEF Invisible, Owed
<1>5. ASSUME NEW s \in Sources, NEW c \in Conns, Drop(s, c)
      PROVE  Promise!Next \/ Invisible
  <2>1. /\ slow' = [slow EXCEPT ![s] = slow[s] \ {c}]
        /\ slow \in [Sources -> SUBSET Conns]
        /\ UNCHANGED <<queue, got, sent, todo>>
    BY <1>5 DEF Drop, TypeOK
  <2>2. CASE c \in clients
    <3>1. Close(c)
      BY <1>5, <2>2 DEF Drop
    <3>2. Promise!Leave(c)
      BY <2>1, <2>2, <3>1, RefineClose
    <3> QED
      BY <3>2 DEF Promise!Next
  <2>3. CASE c \notin clients
    <3>1. UNCHANGED <<clients, closed>>
      BY <1>5, <2>3 DEF Drop
    <3>2. ASSUME NEW t \in Sources
          PROVE  (todo[t] \cup slow'[t]) \cap clients =
                   (todo[t] \cup slow[t]) \cap clients
      BY <2>1, <2>3
    <3>3. Owed' = Owed
      BY <2>1, <3>1, <3>2 DEF Owed
    <3> QED
      BY <2>1, <3>1, <3>3 DEF Invisible
  <2> QED
    BY <2>2, <2>3
<1>6. ASSUME UNCHANGED vars
      PROVE  Invisible
  BY <1>6 DEF vars, Invisible, Owed
<1>7. Promise!Next \/ Invisible
  BY <1>1, <1>2, <1>3, <1>4, <1>5, <1>6 DEF Next, SourceStep, Halted
<1> QED
  BY <1>7, InvisibleStutters

\* The broker implements FanOut: what FanOutSpec says of the checked instance
\* holds for every number of clients and sources, cap and buffer size.
THEOREM Refines == Spec => FanOutSpec
<1>1. IInv /\ RoundInv /\ [Next]_vars => RoundInv'
  BY RoundStep DEF IInv
<1>2. IInv /\ RoundInv /\ [Next]_vars => [Promise!Next]_Promise!vars
  BY RefineStep
<1>3. Spec => []IInv
  BY Inductive
<1> QED
  BY <1>1, <1>2, <1>3, RoundInit, RefineInit, PTL
     DEF Spec, FanOutSpec, Promise!Spec

-----------------------------------------------------------------------------
(* Gaps *)

\* In what a client was given, the next message of a source has the next number.
Gapless(q, s) ==
  \A i \in DOMAIN q : q[i].src = s =>
    \A j \in Later(q, s, i) :
      (\A k \in Later(q, s, i) : j <= k) => q[j].seq = q[i].seq + 1

\* The last message of a source, if there is one, has the number n.
LastIs(q, s, n) ==
  \A i \in DOMAIN q : q[i].src = s /\ Later(q, s, i) = {} => q[i].seq = n

\* NoGap, and of a client that s has still to serve that it got the message before.
\* A channel that is not registered yet was given nothing.
Stream(c, s) ==
  /\ Gapless(got[c] \o queue[c], s)
  /\ c \in clients /\ c \notin todo[s] \cup slow[s] => LastIs(got[c] \o queue[c], s, sent[s])
  /\ c \in clients /\ c \in todo[s] => LastIs(got[c] \o queue[c], s, sent[s] - 1)
StreamInv == \A c \in Conns, s \in Sources : Stream(c, s)
FreshInv ==
  \A c \in Conns : connPc[c] \in {"new", "over", "adding"} => got[c] = <<>> /\ queue[c] = <<>>

\* The next message of s after its last one leaves no gap.
LEMMA StreamAppendOwn ==
  ASSUME NEW q \in Seq(Message), NEW e \in Message, NEW s, e.src = s, NEW n \in Int,
         e.seq = n + 1, Gapless(q, s), LastIs(q, s, n)
  PROVE  Gapless(Append(q, e), s) /\ LastIs(Append(q, e), s, n + 1)
<1> DEFINE end == Len(q) + 1
<1>1. PICK r : r = Append(q, e)
  OBVIOUS
<1>2. /\ DOMAIN q = 1..Len(q) /\ DOMAIN r = 1..Len(q) + 1 /\ Len(q) \in Nat
      /\ \A i \in 1..Len(q) : r[i] = q[i]
      /\ r[Len(q) + 1] = e
  BY <1>1
<1>3. e.src = s
  OBVIOUS
<1>4. /\ \A i \in 1..Len(q) : Later(r, s, i) = Later(q, s, i) \cup {Len(q) + 1}
      /\ Later(r, s, Len(q) + 1) = {}
  BY ONLY <1>2, <1>3 DEF Later
<1>5. /\ DOMAIN q = 1..Len(q) /\ DOMAIN r = 1..end /\ Len(q) \in Nat
      /\ \A i \in 1..Len(q) : r[i] = q[i] /\ Later(r, s, i) = Later(q, s, i) \cup {end}
      /\ r[end] = e /\ Later(r, s, end) = {}
  BY <1>2, <1>4
<1>6. \A i \in 1..Len(q) : Later(q, s, i) \subseteq 1..Len(q)
  BY <1>5 DEF Later
<1>7. ASSUME NEW i \in DOMAIN r, r[i].src = s, NEW j \in Later(r, s, i),
             \A k \in Later(r, s, i) : j <= k
      PROVE  r[j].seq = r[i].seq + 1
  <2>1. i \in 1..Len(q) /\ q[i].src = s /\ r[i] = q[i]
    BY <1>5, <1>7
  <2>2. CASE Later(q, s, i) = {}
    <3>1. j = end /\ q[i].seq = n
      BY <1>5, <1>7, <2>1, <2>2 DEF LastIs
    <3> QED
      BY <1>5, <2>1, <3>1
  <2>3. CASE Later(q, s, i) # {}
    <3>1. PICK k \in Later(q, s, i) : TRUE
      BY <2>3
    <3>2. j <= k /\ k \in 1..Len(q) /\ j \in Later(q, s, i) \cup {end}
      BY <1>5, <1>6, <1>7, <2>1
    <3>3. j \in Later(q, s, i) /\ j \in 1..Len(q)
      BY <1>5, <1>6, <2>1, <3>2
    <3>4. \A l \in Later(q, s, i) : j <= l
      BY <1>5, <1>7, <2>1
    <3>5. q[j].seq = q[i].seq + 1
      BY <1>5, <2>1, <3>3, <3>4 DEF Gapless
    <3> QED
      BY <1>5, <2>1, <3>3, <3>5
  <2> QED
    BY <2>2, <2>3
<1>8. ASSUME NEW i \in DOMAIN r, Later(r, s, i) = {}
      PROVE  r[i].seq = n + 1
  <2>1. i \notin 1..Len(q)
    BY <1>5, <1>8
  <2>2. i = end
    BY <1>5, <2>1
  <2> QED
    BY <1>5, <2>2
<1> QED
  BY <1>1, <1>7, <1>8 DEF Gapless, LastIs

\* A message of another source changes nothing for s.
LEMMA StreamAppendOther ==
  ASSUME NEW q \in Seq(Message), NEW e \in Message, NEW s, e.src # s
  PROVE  /\ Gapless(q, s) => Gapless(Append(q, e), s)
         /\ \A n : LastIs(q, s, n) => LastIs(Append(q, e), s, n)
<1> DEFINE end == Len(q) + 1
<1>1. PICK r : r = Append(q, e)
  OBVIOUS
<1>2. /\ DOMAIN q = 1..Len(q) /\ DOMAIN r = 1..Len(q) + 1 /\ Len(q) \in Nat
      /\ \A i \in 1..Len(q) : r[i] = q[i]
      /\ r[Len(q) + 1] = e
  BY <1>1
<1>3. e.src # s
  OBVIOUS
<1>4. \A i \in 1..Len(q) : Later(r, s, i) = Later(q, s, i)
  BY ONLY <1>2, <1>3 DEF Later
<1>5. /\ DOMAIN q = 1..Len(q) /\ DOMAIN r = 1..end /\ Len(q) \in Nat
      /\ \A i \in 1..Len(q) : r[i] = q[i] /\ Later(r, s, i) = Later(q, s, i)
      /\ r[end] = e
  BY <1>2, <1>4
<1>6. \A i \in 1..Len(q) : Later(q, s, i) \subseteq 1..Len(q)
  BY <1>5 DEF Later
<1>7. \A i \in DOMAIN r : r[i].src = s => i \in 1..Len(q)
  BY <1>5
<1>8. Gapless(q, s) => Gapless(r, s)
  BY <1>5, <1>6, <1>7 DEF Gapless
<1>9. \A n : LastIs(q, s, n) => LastIs(r, s, n)
  BY <1>5, <1>6, <1>7 DEF LastIs
<1> QED
  BY <1>1, <1>8, <1>9

\* Nobody sends to a channel before it is registered.
LEMMA FreshStep ==
  ASSUME TypeOK, ChannelLifecycle, RoundInv, FreshInv, [Next]_vars
  PROVE  FreshInv'
<1> USE DEF TypeOK, FreshInv, At, Go, connVars, srcVars
<1>1. ASSUME NEW c \in Conns, ConnStep(c)
      PROVE  FreshInv'
  <2>1. CASE Recv(c)
    BY <2>1 DEF Recv
  <2>2. CASE ~Recv(c)
    BY <1>1, <2>2 DEF ConnStep, RegisterCount, RegisterUndo, RegisterInsert, Return,
       UnregisterGone, UnregisterClose, UnregisterDone
  <2> QED
    BY <2>1, <2>2
<1>2. ASSUME NEW s \in Sources, NEW c \in Conns, Send(s, c)
      PROVE  FreshInv'
  <2>1. connPc[c] \notin {"new", "over", "adding"} /\ connPc' = connPc /\ got' = got
    BY <1>2 DEF Send, RoundInv, ChannelLifecycle
  <2>2. \A d \in Conns : d # c => queue'[d] = queue[d]
    BY <1>2 DEF Send, SendOk, SendFull, SendClosed
  <2> QED
    BY <2>1, <2>2
<1>3. ASSUME NEW s \in Sources,
             \/ Broadcast(s) \/ SendsDone(s) \/ DropLock(s) \/ DropCount(s) \/ DropUnlock(s)
             \/ \E c \in Conns : Drop(s, c)
      PROVE  FreshInv'
  BY <1>3 DEF Broadcast, SendsDone, DropLock, DropCount, DropUnlock, Drop
<1>4. CASE UNCHANGED vars
  BY <1>4 DEF vars
<1> QED
  BY <1>1, <1>2, <1>3, <1>4 DEF Next, SourceStep, Halted

\* A step that gives c nothing, and takes it from no list of s but to the slow one.
LEMMA StreamCalm ==
  ASSUME NEW c \in Conns, NEW s \in Sources, Stream(c, s),
         got'[c] \o queue'[c] = got[c] \o queue[c], sent'[s] = sent[s],
         c \in clients' =>
           /\ c \in clients /\ (c \in todo'[s] => c \in todo[s])
           /\ c \in todo[s] \cup slow[s] => c \in todo'[s] \cup slow'[s]
  PROVE  Stream(c, s)'
<1>1. /\ Gapless(got'[c] \o queue'[c], s)
      /\ c \in clients' /\ c \notin todo'[s] \cup slow'[s] =>
           LastIs(got'[c] \o queue'[c], s, sent'[s])
      /\ c \in clients' /\ c \in todo'[s] => LastIs(got'[c] \o queue'[c], s, sent'[s] - 1)
  BY DEF Stream
<1> QED
  BY <1>1 DEF Stream


\* What a send gives a client and its snapshot keeps the numbers in step.
LEMMA StreamSend ==
  ASSUME TypeOK, SentInv, ChannelLifecycle, RoundInv, NEW t \in Sources, NEW d \in Conns,
         Send(t, d), NEW c \in Conns, NEW s \in Sources, Stream(c, s)
  PROVE  Stream(c, s)'
<1> USE DEF TypeOK
<1>1. /\ d \in todo[t] /\ srcPc[t] = "send" /\ sent[t] \in 1..MaxBroadcasts
      /\ todo' = [todo EXCEPT ![t] = @ \ {d}] /\ UNCHANGED <<clients, got, sent>>
  BY DEF Send, AtSrc, SentInv
<1>2. CASE SendOk(t, d)
  <2> DEFINE e == [src |-> t, seq |-> sent[t]]
             q == got[c] \o queue[c]
  <2>1. /\ queue' = [queue EXCEPT ![d] = Append(@, e)] /\ slow' = slow
        /\ d \notin closed /\ e \in Message /\ e.src = t /\ e.seq = sent[t]
    BY <1>1, <1>2 DEF SendOk, Message
  <2> HIDE DEF e
  <2>2. CASE c # d
    <3>1. queue'[c] = queue[c] /\ (c \in todo'[s] <=> c \in todo[s])
      BY <1>1, <2>1, <2>2
    <3> QED
      BY <1>1, <2>1, <3>1, StreamCalm
  <2>3. CASE c = d
    <3>1. q \in Seq(Message) /\ got'[c] \o queue'[c] = Append(q, e)
      <4>1. got[c] \in Seq(Message) /\ queue[c] \in Seq(Message)
        OBVIOUS
      <4>2. queue'[c] = Append(queue[c], e) /\ got'[c] = got[c]
        BY <1>1, <2>1, <2>3
      <4>3. \A g, r \in Seq(Message), m \in Message : g \o Append(r, m) = Append(g \o r, m)
        BY GivenAfterSend
      <4>4. got[c] \o Append(queue[c], e) = Append(got[c] \o queue[c], e)
        BY <2>1, <4>1, <4>3, Zenon
      <4> QED
        BY <4>1, <4>2, <4>4
    <3>2. c \in clients /\ c \notin slow[t]
      BY <1>1, <2>1, <2>3 DEF RoundInv
    <3>3. CASE s = t
      <4>1. sent[t] - 1 \in Int /\ e.seq = (sent[t] - 1) + 1 /\ (sent[t] - 1) + 1 = sent[t]
        BY <1>1, <2>1
      <4>2. Gapless(q, s) /\ LastIs(q, s, sent[t] - 1)
        BY <1>1, <2>3, <3>2, <3>3 DEF Stream
      <4>3. Gapless(Append(q, e), s) /\ LastIs(Append(q, e), s, (sent[t] - 1) + 1)
        <5> HIDE DEF q
        <5> QED
          BY <2>1, <3>1, <3>3, <4>1, <4>2, StreamAppendOwn
      <4>4. c \notin todo'[s] /\ sent'[s] = sent[t]
        BY <1>1, <2>3, <3>3
      <4> HIDE DEF q
      <4>5. /\ Gapless(got'[c] \o queue'[c], s)
            /\ LastIs(got'[c] \o queue'[c], s, sent'[s])
        BY <3>1, <4>1, <4>3, <4>4
      <4> QED
        BY <4>4, <4>5 DEF Stream
    <3>4. CASE s # t
      <4>1. Gapless(q, s) /\ todo'[s] = todo[s] /\ sent'[s] = sent[s] /\ slow'[s] = slow[s]
        BY <1>1, <2>1, <3>4 DEF Stream
      <4>2. /\ Gapless(q, s) => Gapless(Append(q, e), s)
            /\ \A n : LastIs(q, s, n) => LastIs(Append(q, e), s, n)
        <5> HIDE DEF q
        <5> QED
          BY <2>1, <3>1, <3>4, StreamAppendOther
      <4>3. /\ c \notin todo[s] \cup slow[s] => LastIs(q, s, sent[s])
            /\ c \in todo[s] => LastIs(q, s, sent[s] - 1)
        BY <3>2 DEF Stream
      <4> HIDE DEF q
      <4>4. /\ Gapless(got'[c] \o queue'[c], s)
            /\ c \notin todo[s] \cup slow[s] => LastIs(got'[c] \o queue'[c], s, sent[s])
            /\ c \in todo[s] => LastIs(got'[c] \o queue'[c], s, sent[s] - 1)
        BY <3>1, <4>1, <4>2, <4>3
      <4> QED
        BY <4>1, <4>4 DEF Stream
    <3> QED
      BY <3>3, <3>4
  <2> QED
    BY <2>2, <2>3
<1>3. CASE SendFull(t, d)
  <2>1. /\ slow' = [slow EXCEPT ![t] = @ \cup {d}] /\ queue' = queue
    BY <1>3 DEF SendFull
  <2>2. /\ c \in todo'[s] => c \in todo[s]
        /\ c \in todo[s] \cup slow[s] => c \in todo'[s] \cup slow'[s]
    BY <1>1, <2>1
  <2> QED
    BY <1>1, <2>1, <2>2, StreamCalm
<1>4. CASE SendClosed(d)
  <2>1. queue' = queue /\ slow' = slow /\ d \notin clients
    BY <1>4 DEF SendClosed, ChannelLifecycle
  <2>2. c \in clients' => /\ c \in clients /\ (c \in todo'[s] => c \in todo[s])
                          /\ c \in todo[s] \cup slow[s] => c \in todo'[s] \cup slow'[s]
    BY <1>1, <2>1
  <2> QED
    BY <1>1, <2>1, <2>2, StreamCalm
<1> QED
  BY <1>2, <1>3, <1>4 DEF Send

\* No step of a handler, a Broadcast or a drop loop opens a gap.
LEMMA StreamStep ==
  ASSUME TypeOK, SentInv, ChannelLifecycle, RoundInv, FreshInv, StreamInv, [Next]_vars
  PROVE  StreamInv'
<1> SUFFICES ASSUME NEW c \in Conns, NEW s \in Sources
             PROVE  Stream(c, s)'
  BY DEF StreamInv
<1>0. Stream(c, s)
  BY DEF StreamInv
<1> USE DEF TypeOK
<1>1. ASSUME NEW d \in Conns, ConnStep(d)
      PROVE  Stream(c, s)'
  <2>1. CASE RegisterInsert(d)
    <3>1. clients' = clients \cup {d} /\ UNCHANGED <<got, queue, sent, todo, slow>>
          /\ connPc[d] = "adding"
      BY <2>1 DEF RegisterInsert, At, srcVars
    <3>2. CASE c # d
      BY <1>0, <3>1, <3>2, StreamCalm
    <3>3. CASE c = d
      <4>1. c \notin todo[s] \cup slow[s] /\ got[c] = <<>> /\ queue[c] = <<>>
        BY <3>1, <3>3 DEF RoundInv, ChannelLifecycle, FreshInv
      <4>2. got'[c] \o queue'[c] = <<>>
        BY <3>1, <4>1
      <4>3. Gapless(<<>>, s) /\ LastIs(<<>>, s, sent'[s])
        BY DEF Gapless, LastIs
      <4>4. c \notin todo'[s]
        BY <3>1, <4>1
      <4> QED
        BY <4>2, <4>3, <4>4 DEF Stream
    <3> QED
      BY <3>2, <3>3
  <2>2. CASE Recv(d)
    <3>1. /\ got' = [got EXCEPT ![d] = Append(@, Head(queue[d]))] /\ queue[d] # <<>>
          /\ queue' = [queue EXCEPT ![d] = Tail(@)] /\ UNCHANGED <<clients, sent, todo, slow>>
      BY <2>2 DEF Recv, srcVars
    <3>2. got'[c] \o queue'[c] = got[c] \o queue[c]
      <4>1. got[d] \in Seq(Message) /\ queue[d] \in Seq(Message)
        OBVIOUS
      <4>2. Append(got[d], Head(queue[d])) \o Tail(queue[d]) = got[d] \o queue[d]
        BY <3>1, <4>1, GivenAfterRecv
      <4> QED
        BY <3>1, <4>2
    <3> QED
      BY <1>0, <3>1, <3>2, StreamCalm
  <2>3. CASE ~RegisterInsert(d) /\ ~Recv(d)
    <3>1. UNCHANGED <<got, queue, sent, todo, slow>> /\ clients' \subseteq clients
      BY <1>1, <2>3 DEF ConnStep, RegisterCount, RegisterUndo, Return, UnregisterGone,
         UnregisterClose, UnregisterDone, Close, srcVars
    <3> QED
      BY <1>0, <3>1, StreamCalm
  <2> QED
    BY <2>1, <2>2, <2>3
<1>2. ASSUME NEW t \in Sources, Broadcast(t)
      PROVE  Stream(c, s)'
  <2>1. /\ sent' = [sent EXCEPT ![t] = @ + 1] /\ todo' = [todo EXCEPT ![t] = clients]
        /\ slow' = [slow EXCEPT ![t] = {}] /\ UNCHANGED <<clients, queue, got>>
        /\ todo[t] = {} /\ slow[t] = {}
    BY <1>2 DEF Broadcast, AtSrc, RoundInv
  <2>2. CASE s # t
    BY <1>0, <2>1, <2>2, StreamCalm
  <2>3. CASE s = t
    <3>1. todo'[s] = clients /\ sent'[s] - 1 = sent[s]
      BY <2>1, <2>3
    <3>2. Gapless(got'[c] \o queue'[c], s)
      BY <1>0, <2>1 DEF Stream
    <3>3. c \in clients => LastIs(got'[c] \o queue'[c], s, sent'[s] - 1)
      BY <1>0, <2>1, <2>3, <3>1 DEF Stream
    <3> QED
      BY <2>1, <3>1, <3>2, <3>3 DEF Stream
  <2> QED
    BY <2>2, <2>3
<1>3. ASSUME NEW t \in Sources, NEW d \in Conns, Send(t, d)
      PROVE  Stream(c, s)'
  BY <1>0, <1>3, StreamSend
<1>4. ASSUME NEW t \in Sources,
             SendsDone(t) \/ DropLock(t) \/ DropCount(t) \/ DropUnlock(t)
      PROVE  Stream(c, s)'
  <2>1. UNCHANGED <<clients, queue, got, sent, todo, slow>>
    BY <1>4 DEF SendsDone, DropLock, DropCount, DropUnlock
  <2> QED
    BY <1>0, <2>1, StreamCalm
<1>5. ASSUME NEW t \in Sources, NEW d \in Conns, Drop(t, d)
      PROVE  Stream(c, s)'
  <2>1. /\ clients' = clients \ {d} /\ slow' = [slow EXCEPT ![t] = @ \ {d}]
        /\ UNCHANGED <<queue, got, sent, todo>>
    BY <1>5 DEF Drop, Close
  <2>2. c \in clients' => c # d /\ c \in clients
    BY <2>1
  <2> QED
    BY <1>0, <2>1, <2>2, StreamCalm
<1>6. CASE UNCHANGED vars
  <2>1. UNCHANGED <<clients, queue, got, sent, todo, slow>>
    BY <1>6 DEF vars
  <2> QED
    BY <1>0, <2>1, StreamCalm
<1> QED
  BY <1>1, <1>2, <1>3, <1>4, <1>5, <1>6 DEF Next, SourceStep, Halted

\* What each client is given of each source has no gap, and all of the last
\* broadcast but for who it is still owed to or drops, for any number of clients,
\* broadcasters and messages (Broadcast and its drop loop).
THEOREM GapsCorrect == Spec => []NoGap
<1> DEFINE Inv == IInv /\ RoundInv /\ FreshInv /\ StreamInv
<1>1. Init => Inv
  <2> SUFFICES ASSUME Init
               PROVE  Inv
    OBVIOUS
  <2>1. FreshInv
    BY DEF Init, FreshInv
  <2>2. ASSUME NEW c \in Conns, NEW s \in Sources
        PROVE  Stream(c, s)
    <3>1. got[c] \o queue[c] = <<>>
      <4>1. <<>> \o <<>> = <<>>
        OBVIOUS
      <4> QED
        BY <4>1 DEF Init
    <3>2. \A n : Gapless(<<>>, s) /\ LastIs(<<>>, s, n)
      BY DEF Gapless, LastIs
    <3> QED
      BY <3>1, <3>2 DEF Stream
  <2> QED
    BY <2>1, <2>2, InitIInv, RoundInit DEF StreamInv
<1>2. Inv /\ [Next]_vars => Inv'
  <2> SUFFICES ASSUME Inv, [Next]_vars
               PROVE  Inv'
    OBVIOUS
  <2>1. IInv'
    BY NextIInv
  <2>2. RoundInv' /\ FreshInv' /\ StreamInv'
    BY RoundStep, FreshStep, StreamStep DEF IInv
  <2> QED
    BY <2>1, <2>2
<1>3. Inv => NoGap
  BY DEF StreamInv, Stream, Gapless, LastIs, NoGap
<1> QED
  BY <1>1, <1>2, <1>3, PTL DEF Spec

=============================================================================
