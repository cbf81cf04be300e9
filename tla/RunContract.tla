----------------------------- MODULE RunContract -----------------------------
(***************************************************************************)
(* What scheduler and agents together promise about the executions of a    *)
(* job, with no polls, no PATCHes and no crashes: one at a time, one for   *)
(* the submission and one for each retry, and a retry only for an          *)
(* execution that took place and is over.                                  *)
(***************************************************************************)
EXTENDS Naturals

CONSTANTS JobIds, MaxJobRetries

VARIABLES
    live,      \* the jobs being executed
    starts,    \* how often each job was started
    retries    \* how often each job was granted a retry

contractVars == <<live, starts, retries>>

Init ==
    /\ live = {}
    /\ starts = [id \in JobIds |-> 0]
    /\ retries = starts

Start(id) ==
    /\ id \notin live
    /\ starts[id] <= retries[id]
    /\ live' = live \cup {id}
    /\ starts' = [starts EXCEPT ![id] = @ + 1]
    /\ UNCHANGED retries

\* A crash of an agent may end several.
End(ids) ==
    /\ live' = live \ ids
    /\ UNCHANGED <<starts, retries>>

Retry(id) ==
    /\ id \notin live
    /\ retries[id] < starts[id]
    /\ retries[id] < MaxJobRetries
    /\ retries' = [retries EXCEPT ![id] = @ + 1]
    /\ UNCHANGED <<live, starts>>

Next ==
    \/ \E id \in JobIds : Start(id) \/ Retry(id)
    \/ \E ids \in SUBSET JobIds : End(ids)

Spec == Init /\ [][Next]_contractVars
=============================================================================
