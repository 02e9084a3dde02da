------------------------------ MODULE MCEvents ------------------------------
(* Events on small instances. *)
EXTENDS Events

\* The broker's history of received messages is not read by any action.
WithoutHistory ==
  <<clients, count, closed, queue, mu, connPc, srcPc, todo, slow, sent, panic,
    pollVars, pageVars>>

\* Bound: a behaviour has one notice of the other sources or one refresh, or it has
\* two refreshes and two collections.
FewNotices ==
  \A s \in Sources \ {Smart}, c \in Conns :
    sent[s] + asked[c] <= 1 \/ (sent[s] = 0 /\ cache <= 2)

=============================================================================
