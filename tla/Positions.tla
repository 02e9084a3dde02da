------------------------------ MODULE Positions ------------------------------
(* Sorting and filtering without recursion: the k-th of a sorted sequence is the *)
(* member that has k - 1 others before it.                                       *)
EXTENDS Naturals, FiniteSets, Sequences

\* The members of a finite set in the order that Less gives them.
Sorted(S, Less(_, _)) ==
  [k \in 1..Cardinality(S) |->
    CHOOSE x \in S : Cardinality({y \in S : Less(y, x)}) = k - 1]

\* A set of numbers as a rising sequence.
Ascending(S) == Sorted(S, LAMBDA i, j : i < j)

\* What q has at these positions, in order.
Kept(q, at) == [k \in DOMAIN Ascending(at) |-> q[Ascending(at)[k]]]

=============================================================================
