----------------------------- MODULE MCScheduler -----------------------------
(* Scheduler with constants small enough for TLC. *)
EXTENDS Scheduler, TLC

Symmetry == Permutations(Nodes) \cup Permutations(Requests)
=============================================================================
