----------------------------- MODULE MCService -----------------------------
(* Service on small instances. *)
EXTENDS Service, TLC

Symmetry == Permutations(Disks)

=============================================================================
