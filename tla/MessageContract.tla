--------------------------- MODULE MessageContract ---------------------------
(***************************************************************************)
(* What queue service and scheduler together promise about a message of    *)
(* the jobs queue, with no requests, no handlers and no crashes: it waits  *)
(* until its work is done or it is a dead letter, is never lost, replaced  *)
(* or queued again, and becomes one job, and one more for each time the    *)
(* work on it was cut short.                                               *)
(***************************************************************************)
EXTENDS Naturals

CONSTANT MsgIds

VARIABLES
    place,    \* "absent", "waiting", "dead" (a dead letter) or "gone"
    work,     \* the messages that ask for a job
    jobs,     \* how many jobs were made of each
    cuts      \* how often the work on each was cut short

contractVars == <<place, work, jobs, cuts>>

Init ==
    /\ place = [id \in MsgIds |-> "absent"]
    /\ work = {}
    /\ jobs = [id \in MsgIds |-> 0]
    /\ cuts = jobs

Goes(id, from, to) ==
    /\ place[id] = from
    /\ place' = [place EXCEPT ![id] = to]
    /\ UNCHANGED <<jobs, cuts>>

Accept(id) == Goes(id, "absent", "waiting") /\ work' \in {work, work \cup {id}}

Bury(id) == Goes(id, "waiting", "dead") /\ UNCHANGED work

\* It is dropped when its job was made, or if it asks for none.
Finish(id) ==
    /\ id \in work => jobs[id] > 0
    /\ Goes(id, "waiting", "gone")
    /\ UNCHANGED work

\* Whoever receives a dead letter may delete it.
Forget(id) == Goes(id, "dead", "gone") /\ UNCHANGED work

\* Work that has begun ends, wherever the message is by then.
Work(id) ==
    /\ id \in work /\ jobs[id] <= cuts[id]
    /\ jobs' = [jobs EXCEPT ![id] = @ + 1]
    /\ UNCHANGED <<place, work, cuts>>

Cut(id) ==
    /\ cuts' = [cuts EXCEPT ![id] = @ + 1]
    /\ UNCHANGED <<place, work, jobs>>

Next == \E id \in MsgIds :
    Accept(id) \/ Bury(id) \/ Finish(id) \/ Forget(id) \/ Work(id) \/ Cut(id)

Spec == Init /\ [][Next]_contractVars
=============================================================================
