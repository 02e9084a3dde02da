------------------------------- MODULE FanOut -------------------------------
(***************************************************************************)
(* What internal/broker promises, without locks, counters or snapshots:    *)
(* each message of a source is owed to the members at the time of its      *)
(* publication.  A member is given what it is owed, or it has to leave     *)
(* before the source publishes again; a client that left is given no more  *)
(* but may still read what it was given.                                   *)
(***************************************************************************)
EXTENDS Naturals, FiniteSets, Sequences

CONSTANTS Conns, Sources, MaxClients, ChannelBuf, MaxBroadcasts

VARIABLES
  member,  \* clients that are served
  left,    \* clients that are served no more
  log,     \* log[c]: all that c was given
  read,    \* read[c]: how much of log[c] the client has taken
  sent,    \* sent[s]: messages s has published
  owed     \* owed[s]: members that s has still to give its last message

vars == <<member, left, log, read, sent, owed>>

Init ==
  /\ member = {}
  /\ left = {}
  /\ log = [c \in Conns |-> <<>>]
  /\ read = [c \in Conns |-> 0]
  /\ sent = [s \in Sources |-> 0]
  /\ owed = [s \in Sources |-> {}]

Join(c) ==
  /\ c \notin member \cup left
  /\ Cardinality(member) < MaxClients
  /\ member' = member \cup {c}
  /\ UNCHANGED <<left, log, read, sent, owed>>

Leave(c) ==
  /\ c \in member
  /\ member' = member \ {c}
  /\ left' = left \cup {c}
  /\ owed' = [s \in Sources |-> owed[s] \ {c}]
  /\ UNCHANGED <<log, read, sent>>

Publish(s) ==
  /\ owed[s] = {}
  /\ sent[s] < MaxBroadcasts
  /\ sent' = [sent EXCEPT ![s] = @ + 1]
  /\ owed' = [owed EXCEPT ![s] = member]
  /\ UNCHANGED <<member, left, log, read>>

Deliver(s, c) ==
  /\ c \in owed[s]
  /\ Len(log[c]) - read[c] < ChannelBuf
  /\ log' = [log EXCEPT ![c] = Append(@, [src |-> s, seq |-> sent[s]])]
  /\ owed' = [owed EXCEPT ![s] = @ \ {c}]
  /\ UNCHANGED <<member, left, read, sent>>

Read(c) ==
  /\ read[c] < Len(log[c])
  /\ read' = [read EXCEPT ![c] = @ + 1]
  /\ UNCHANGED <<member, left, log, sent, owed>>

Next ==
  \/ \E c \in Conns : Join(c) \/ Leave(c) \/ Read(c)
  \/ \E s \in Sources : Publish(s) \/ \E c \in Conns : Deliver(s, c)

Spec == Init /\ [][Next]_vars

=============================================================================
