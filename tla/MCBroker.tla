------------------------------ MODULE MCBroker ------------------------------
(* Broker on small instances. *)
EXTENDS Broker, TLC

Symmetry == Permutations(Conns) \cup Permutations(Sources)

\* Bound: one source may broadcast twice, the other once.
FewBroadcasts == \A s, t \in Sources : s # t => sent[s] + sent[t] <= 3

=============================================================================
