----------------------------- MODULE MCJobIntake -----------------------------
(* JobIntake with constants small enough for TLC.  The dead letter queue has *)
(* none of its own.                                                          *)
EXTENDS JobIntake

MCPolicies ==
    [q \in Queues |-> IF q = JobsQueue
                      THEN {[dlq |-> d, max |-> 1] : d \in Queues \ {q}}
                      ELSE {}]
=============================================================================
