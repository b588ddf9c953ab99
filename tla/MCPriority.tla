----------------------------- MODULE MCPriority -----------------------------
(* An instance of Priority for TLC. *)
EXTENDS Priority, TLC

Symmetry == Permutations(Handles)
=============================================================================
