------------------------------ MODULE Commands ------------------------------
(* What the collectors share: the outcome of a CommandRunner and of ParseInt. *)

CONSTANTS
  Failed,     \* the command returned an error (also: it exited non-zero)
  Bad         \* a field that is no integer

=============================================================================
