----------------------------- MODULE JobContract -----------------------------
(***************************************************************************)
(* What the scheduler promises about a job, with no database, no handlers  *)
(* and no crashes: an accepted job is never lost, it changes status only   *)
(* in these ways, and it is queued again at most MaxJobRetries times.      *)
(***************************************************************************)
EXTENDS Naturals

CONSTANTS JobIds, MaxJobRetries

VARIABLES status, retries

contractVars == <<status, retries>>

Init ==
    /\ status = [id \in JobIds |-> "absent"]
    /\ retries = [id \in JobIds |-> 0]

Accept(id) ==
    /\ status[id] = "absent"
    /\ status' = [status EXCEPT ![id] = "pending"]
    /\ UNCHANGED retries

\* An agent's word that the job runs, or that it ended well, is believed
\* whatever the job's status.
Believe(id, s) ==
    /\ status[id] # "absent"
    /\ status' = [status EXCEPT ![id] = s]
    /\ UNCHANGED retries

Requeue(id) ==
    /\ status[id] # "absent"
    /\ retries[id] < MaxJobRetries
    /\ status' = [status EXCEPT ![id] = "pending"]
    /\ retries' = [retries EXCEPT ![id] = @ + 1]

Fail(id) ==
    /\ status[id] # "absent"
    /\ retries[id] >= MaxJobRetries
    /\ status' = [status EXCEPT ![id] = "failed"]
    /\ UNCHANGED retries

\* Running jobs whose time is up fail, retries or not.
Expire(ids) ==
    /\ \A id \in ids : status[id] = "running"
    /\ status' = [id \in JobIds |-> IF id \in ids THEN "failed" ELSE status[id]]
    /\ UNCHANGED retries

Next ==
    \/ \E id \in JobIds : Accept(id) \/ Requeue(id) \/ Fail(id)
    \/ \E id \in JobIds, s \in {"running", "done"} : Believe(id, s)
    \/ \E ids \in SUBSET JobIds : Expire(ids)

Spec == Init /\ [][Next]_contractVars
=============================================================================
