------------------------------ MODULE MCPanels ------------------------------
(* Panels on a small instance. *)
EXTENDS Panels, TLC

=============================================================================
