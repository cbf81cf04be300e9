----------------------------- MODULE MCJobSystem -----------------------------
(* JobSystem with constants small enough for TLC. *)
EXTENDS JobSystem, TLC

Symmetry == Permutations(Nodes) \cup Permutations(Requests)
=============================================================================
