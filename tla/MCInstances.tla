----------------------------- MODULE MCInstances -----------------------------
(* Instances, for TLC. *)
EXTENDS Instances
=============================================================================
