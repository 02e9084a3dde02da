--------------------------- MODULE ServiceProofs ---------------------------
(* Proofs about Service for every set of disks and clients, every length   *)
(* of the history and every bound of the clock.                            *)
EXTENDS Service, TLAPS

\* What Prune spares is kept, with the row at the very edge that GetSince no
\* longer shows: the two comparisons differ, and in the safe direction.
KeptInv == \A r \in kept : r.ts + History >= now => r \in rows

ServiceIInv == ServiceTypeOK /\ KeptInv

\* The invariant holds before the first start.
LEMMA ServiceInit == Init => ServiceIInv
<1> SUFFICES ASSUME Init
             PROVE  ServiceIInv
  OBVIOUS
<1>1. /\ pc \in [Pollers -> {"off"}] /\ ticker \in [Pollers -> {"none"}]
      /\ \A p \in Pollers : pc[p] = "off"
  BY DEF Init
<1>2. now \in 0..MaxTime
  BY MaxTimeAssumption DEF Init
<1>3. ServiceTypeOK
  BY <1>1, <1>2 DEF Init, ServiceTypeOK
<1> QED
  BY <1>3 DEF Init, ServiceIInv, KeptInv

\* Every step of main, of the pollers and of the world around keeps the types.
LEMMA ServiceTypeStep ==
  ASSUME ServiceTypeOK, [Next]_vars
  PROVE  ServiceTypeOK'
<1> USE DEF ServiceTypeOK, procVars, pollVars, fileVars
<1>1. ASSUME MainStep
      PROVE  ServiceTypeOK'
  <2>1. CASE Start
    BY <2>1 DEF Start
  <2>2. CASE OpenOk
    BY <2>2 DEF OpenOk, Pollers
  <2>3. CASE OpenFails
    BY <2>3 DEF OpenFails
  <2>4. CASE Listen
    BY <2>4 DEF Listen, Off, Pollers
  <2>5. CASE Signal \/ ServeReturns \/ CloseStore
    BY <2>5 DEF Signal, ServeReturns, CloseStore
  <2>6. CASE Exit
    BY <2>6 DEF Exit, Off, Pollers
  <2> QED
    BY <1>1, <2>1, <2>2, <2>3, <2>4, <2>5, <2>6 DEF MainStep
<1>2. ASSUME Crash
      PROVE  ServiceTypeOK'
  BY <1>2 DEF Crash, Off, Pollers
<1>3. ASSUME Corrupt \/ Advance
      PROVE  ServiceTypeOK'
  <2>1. CASE Corrupt
    BY <2>1 DEF Corrupt
  <2>2. CASE Advance
    <3>1. now' \in 0..MaxTime
      BY <2>2, MaxTimeAssumption DEF Advance
    <3> QED
      BY <2>2, <3>1 DEF Advance
  <2> QED
    BY <1>3, <2>1, <2>2
<1>4. ASSUME NEW c \in Clients, Connect(c) \/ Disconnect(c)
      PROVE  ServiceTypeOK'
  BY <1>4 DEF Connect, Disconnect
<1>5. ASSUME NEW p \in Pollers,
             TickerFires(p) \/ WakeTick(p) \/ WakeDone(p) \/ ScanHangs(p)
      PROVE  ServiceTypeOK'
  BY <1>5 DEF TickerFires, WakeTick, WakeDone, ScanHangs, At
<1>6. ASSUME NEW p \in Pollers, ScanOk(p)
      PROVE  ServiceTypeOK'
  BY <1>6 DEF ScanOk, At
<1>7. ASSUME NEW p \in Pollers, ScanFails(p) \/ Tell(p)
      PROVE  ServiceTypeOK'
  BY <1>7 DEF ScanFails, Tell, BackToWait, At
<1>8. ASSUME NEW d \in Disks, Insert(d)
      PROVE  ServiceTypeOK'
  BY <1>8 DEF Insert, Reading
<1>9. ASSUME Prune
      PROVE  ServiceTypeOK'
  BY <1>9 DEF Prune
<1>10. ASSUME UNCHANGED vars
       PROVE  ServiceTypeOK'
  BY <1>10 DEF vars
<1> QED
  BY <1>1, <1>2, <1>3, <1>4, <1>5, <1>6, <1>7, <1>8, <1>9, <1>10
     DEF Next, ScanEnds, SaveStep

\* No step loses a reading of the window: the file is given up together with
\* the history, an insert stores what it records, a prune spares the window
\* and the clock only leaves readings behind.
LEMMA KeptStep ==
  ASSUME ServiceTypeOK, KeptInv, [Next]_vars
  PROVE  KeptInv'
<1> USE DEF KeptInv
<1>1. ASSUME UNCHANGED <<rows, kept, now>>
      PROVE  KeptInv'
  BY <1>1
<1>2. ASSUME OpenFails \/ Corrupt
      PROVE  KeptInv'
  BY <1>2 DEF OpenFails, Corrupt, fileVars
<1>3. ASSUME Advance
      PROVE  KeptInv'
  <2>1. /\ now' = now + 1 /\ rows' = rows /\ kept' = kept
        /\ now \in Nat /\ \A r \in kept : r.ts \in Nat
    BY <1>3, MaxTimeAssumption
       DEF Advance, fileVars, ServiceTypeOK, Reading
  <2> QED
    BY <2>1, HistoryAssumption
<1>4. ASSUME NEW d \in Disks, Insert(d)
      PROVE  KeptInv'
  BY <1>4 DEF Insert
<1>5. ASSUME Prune
      PROVE  KeptInv'
  BY <1>5 DEF Prune
<1>6. ASSUME MainStep \/ Crash
      PROVE  OpenFails \/ UNCHANGED <<rows, kept, now>>
  BY <1>6 DEF MainStep, Crash, Start, OpenOk, Listen, Signal, ServeReturns,
              CloseStore, Exit, fileVars
<1>7. ASSUME NEW c \in Clients, Connect(c) \/ Disconnect(c)
      PROVE  UNCHANGED <<rows, kept, now>>
  BY <1>7 DEF Connect, Disconnect, fileVars
<1>8. ASSUME NEW p \in Pollers,
             \/ TickerFires(p) \/ WakeTick(p) \/ WakeDone(p)
             \/ ScanEnds(p) \/ Tell(p)
      PROVE  UNCHANGED <<rows, kept, now>>
  BY <1>8 DEF TickerFires, WakeTick, WakeDone, ScanEnds, ScanOk, ScanFails,
              ScanHangs, Tell, fileVars
<1>9. ASSUME UNCHANGED vars
      PROVE  UNCHANGED <<rows, kept, now>>
  BY <1>9 DEF vars, fileVars
<1> QED
  BY <1>1, <1>2, <1>3, <1>4, <1>5, <1>6, <1>7, <1>8, <1>9 DEF Next, SaveStep

\* The types of Service, and that no poller waits without a ticker.
THEOREM ServiceTypeCorrect == Spec => []ServiceTypeOK
<1>1. ServiceTypeOK /\ [Next]_vars => ServiceTypeOK'
  BY ServiceTypeStep
<1>2. Init => ServiceTypeOK
  BY ServiceInit DEF ServiceIInv
<1> QED
  BY <1>1, <1>2, PTL DEF Spec

\* Every reading stored within the last History hours is returned by
\* GetSince, however often the process crashed, was stopped or restarted.
THEOREM HistoryCorrect == Spec => []HistoryKept
<1>1. Init => ServiceIInv
  BY ServiceInit
<1>2. ServiceIInv /\ [Next]_vars => ServiceIInv'
  BY ServiceTypeStep, KeptStep DEF ServiceIInv
<1>3. ServiceIInv => HistoryKept
  <2> SUFFICES ASSUME ServiceIInv, NEW r \in kept, r.ts + History > now
               PROVE  r \in GetSince
    BY DEF HistoryKept
  <2>1. r.ts \in Nat /\ now \in Nat
    BY MaxTimeAssumption DEF ServiceIInv, ServiceTypeOK, Reading
  <2>2. r.ts + History >= now
    BY <2>1, HistoryAssumption
  <2> QED
    BY <2>2 DEF ServiceIInv, KeptInv, GetSince
<1> QED
  BY <1>1, <1>2, <1>3, PTL DEF Spec

=============================================================================
