------------------------------ MODULE JobSystem ------------------------------
(***************************************************************************)
(* The scheduler together with the agents that run its jobs                *)
(* (ec2-agent/src/jobs.rs).  Each node has one worker loop, which polls,   *)
(* marks a job running, and then runs it: a run-once job blocks the loop,  *)
(* a service gets a task of its own.  Every PATCH is a message that may be *)
(* lost, answered with a lost reply, or served long after its sender gave  *)
(* up.                                                                     *)
(* Agents crash, leaving processes behind; the scheduler crashes too.      *)
(***************************************************************************)
EXTENDS Scheduler

CONSTANTS
    FleetViews,   \* what a node's instance list may look like to its worker
    MaxRuns,      \* bound on how often one job is started
    NoOne         \* the job of an idle worker

VARIABLES
    worker,       \* the loop of start_job_worker on each node
    procs,        \* executions alive on the nodes
    patches,      \* PATCH /jobs/{id} requests in flight
    runs,         \* how often each job has been started
    expired,      \* jobs the timeout watcher has failed
    fleet         \* summary of the instances registered for each node

agentVars == <<worker, procs, patches, runs, expired, fleet>>
vars == <<schedulerVars, agentVars>>

\* owned: the agent that started the execution still waits for its end.
Proc == [job : JobIds, run : 1 .. MaxRuns, node : Nodes,
         kind : {"run", "service"}, owned : BOOLEAN]
\* waited: the worker that sent the request still waits for the answer.
Patch == {m \in [job : JobIds, status : PatchStatus, waited : BOOLEAN] :
             m.waited => m.status = "running"}
Idle == [pc |-> "idle", job |-> NoOne]
WorkerState == [pc : {"marking", "blocked"}, job : JobIds] \cup {Idle}

ASSUME JobSystemConstants ==
    /\ MaxRuns \in Nat
    /\ NoOne \notin JobIds
    /\ FleetViews \subseteq {"none", "running", "starting", "terminated"}

SystemTypeOK ==
    /\ TypeOK
    /\ worker \in [Nodes -> WorkerState]
    /\ procs \subseteq Proc
    /\ patches \subseteq Patch
    /\ runs \in [JobIds -> 0 .. MaxRuns]
    /\ expired \subseteq JobIds
    /\ fleet \in [Nodes -> FleetViews]

SystemInit ==
    /\ Init
    /\ worker = [n \in Nodes |-> Idle]
    /\ procs = {}
    /\ patches = {}
    /\ runs = [id \in JobIds |-> 0]
    /\ expired = {}
    /\ fleet \in [Nodes -> FleetViews]

-----------------------------------------------------------------------------
\* The worker goes on to ask for jobs when the node has no instance at all or
\* a running one.  An instance list that cannot be fetched counts as empty.
MayPoll(n) == fleet[n] \in {"none", "running"}

Mark(id, w) == [job |-> id, status |-> "running", waited |-> w]
Report(id, s) == [job |-> id, status |-> s, waited |-> FALSE]

\* One turn of the loop up to the PATCH "running": the first offered job is
\* taken; the scheduler answers the poll from its state at this moment.
Poll(n) ==
    /\ worker[n] = Idle
    /\ MayPoll(n)
    /\ \E id \in Offered(n) :
           /\ worker' = [worker EXCEPT ![n] = [pc |-> "marking", job |-> id]]
           /\ patches' = patches \cup {Mark(id, TRUE)}
    /\ UNCHANGED <<schedulerVars, procs, runs, expired, fleet>>

\* The worker waiting for the answer to a PATCH "running".
Waiting(id) == {n \in Nodes : worker[n] = [pc |-> "marking", job |-> id]}

GoIdle(ns) == worker' = [n \in Nodes |-> IF n \in ns THEN Idle ELSE worker[n]]

\* Node n no longer waits for the answer to its mark, which stays in flight.
Abandon(n) ==
    patches' = {IF m.waited /\ n \in Waiting(m.job) THEN [m EXCEPT !.waited = FALSE] ELSE m :
                   m \in patches}

\* The worker sees that its job is marked and starts it.
Start(n, id, kind) ==
    /\ runs[id] < MaxRuns
    /\ runs' = [runs EXCEPT ![id] = @ + 1]
    /\ procs' = procs \cup {[job |-> id, run |-> runs'[id], node |-> n,
                             kind |-> kind, owned |-> TRUE]}
    /\ worker' = [worker EXCEPT
                    ![n] = IF kind = "run" THEN [pc |-> "blocked", job |-> id] ELSE Idle]

\* The scheduler serves a PATCH "running".  If its sender still waits, the
\* reply reaches it, and the job starts, or is lost, and the job does not.
ServeMark(id, w) ==
    /\ Mark(id, w) \in patches
    /\ patches' = patches \ {Mark(id, w)}
    /\ UpdateJob(id, "running", "nil")
    /\ \/ /\ IF w THEN GoIdle(Waiting(id)) ELSE UNCHANGED worker
          /\ UNCHANGED <<procs, runs>>
       \/ /\ w
          /\ \E n \in Waiting(id) : Start(n, id, jobs[id].kind)
    /\ UNCHANGED <<expired, fleet>>

\* The scheduler serves the report of an ended execution; nobody acts on the
\* answer.
ServeReport(id, s) ==
    /\ Report(id, s) \in patches
    /\ patches' = patches \ {Report(id, s)}
    /\ UpdateJob(id, s, IF s = "done" THEN "ok" ELSE "error")
    /\ UNCHANGED <<worker, procs, runs, expired, fleet>>

\* Mutant: the error is logged and the worker is not sent back to its loop.
DropPatchAndStay(m) ==
    /\ patches' = patches \ {m}
    /\ UNCHANGED <<schedulerVars, worker, procs, runs, expired, fleet>>

\* A PATCH is lost, or answered 404: its sender gets an error and forgets it.
DropPatch(m) ==
    /\ patches' = patches \ {m}
    /\ IF m.waited THEN GoIdle(Waiting(m.job)) ELSE UNCHANGED worker
    /\ UNCHANGED <<schedulerVars, procs, runs, expired, fleet>>

\* The worker's connection breaks while its PATCH is still to be served.
GiveUp(n) ==
    /\ worker[n].pc = "marking"
    /\ GoIdle({n})
    /\ Abandon(n)
    /\ UNCHANGED <<schedulerVars, procs, runs, expired, fleet>>

\* An execution ends.  If its agent still waits for it, the agent reports
\* the outcome once, whatever becomes of the report, and a blocked worker
\* goes back to its loop.
Exit(p, s) ==
    /\ procs' = procs \ {p}
    /\ IF p.owned
       THEN /\ patches' = patches \cup {Report(p.job, s)}
            /\ IF p.kind = "run" THEN GoIdle({p.node}) ELSE UNCHANGED worker
       ELSE UNCHANGED <<patches, worker>>
    /\ UNCHANGED <<schedulerVars, runs, expired, fleet>>

\* The agent of node n dies and starts afresh.  Its children may outlive it;
\* nobody waits for them any more.
AgentCrash(n) ==
    /\ GoIdle({n})
    /\ Abandon(n)
    /\ \E dead \in SUBSET {p \in procs : p.node = n} :
           procs' = {IF p.node = n THEN [p EXCEPT !.owned = FALSE] ELSE p : p \in procs \ dead}
    /\ UNCHANGED <<schedulerVars, runs, expired, fleet>>

\* Instances of the node are launched, become ready, fail or are terminated.
FleetChange(n) ==
    /\ \E view \in FleetViews : fleet' = [fleet EXCEPT ![n] = view]
    /\ UNCHANGED <<schedulerVars, worker, procs, patches, runs, expired>>

Expire(overdue) ==
    /\ WatchJobTimeouts(overdue)
    /\ expired' = expired \cup overdue
    /\ UNCHANGED <<worker, procs, patches, runs, fleet>>

Submit ==
    /\ \/ \E r \in Requests, n \in Nodes, k \in {"run", "service"} : AllocateId(r, n, k)
       \/ \E s \in submits : InsertJob(s)
    /\ UNCHANGED agentVars

SchedulerRestart == Restart /\ UNCHANGED agentVars

SystemNext ==
    \/ Submit
    \/ SchedulerRestart
    \/ \E overdue \in SUBSET JobIds : Expire(overdue)
    \/ \E n \in Nodes : Poll(n) \/ GiveUp(n) \/ AgentCrash(n) \/ FleetChange(n)
    \/ \E id \in JobIds, w \in BOOLEAN : ServeMark(id, w)
    \/ \E id \in JobIds, s \in Finished : ServeReport(id, s)
    \/ \E m \in patches : DropPatch(m)
    \/ \E p \in procs, s \in Finished : Exit(p, s)

SystemSpec == SystemInit /\ [][SystemNext]_vars

\* The loops run on tickers for ever: a worker that may poll time and again
\* does, and a job that stays running is timed out.  The network does not
\* refuse the PATCHes of a job for ever, and run-once commands end.  Agents
\* may crash for ever, services may run for ever, reports may all be lost.
Fairness ==
    /\ \A n \in Nodes :
           /\ SF_vars(Poll(n))
           /\ WF_vars(\E p \in procs, s \in Finished :
                         p.node = n /\ p.owned /\ p.kind = "run" /\ Exit(p, s))
    /\ \A id \in JobIds :
           /\ SF_vars(ServeMark(id, TRUE))
           /\ WF_vars(\E overdue \in SUBSET JobIds : id \in overdue /\ Expire(overdue))

FairSystemSpec == SystemSpec /\ Fairness
-----------------------------------------------------------------------------
\* One job is never executed by two live processes: not after a timeout that
\* leaves the first one running, a lost reply, a late report, a crash of the
\* agent that orphans it, or a crash of the scheduler.
NoConcurrentRuns == \A p, q \in procs : p.job = q.job => p = q

\* A job is started at most once more than it may be retried, whatever is
\* lost, late or crashes; nothing else in the code counts executions.
RunsBounded == \A id \in JobIds : runs[id] <= MaxJobRetries + 1

ExecutingOn(n) == {p.job : p \in {q \in procs : q.node = n}}
InUse(n) == Cardinality(ExecutingOn(n) \ expired)

\* A node executes no more than MaxJobsPerNode jobs, those the watcher has
\* given up on set aside, although the limit is read at a poll and acted upon
\* two messages later.
CapacityUnlessExpired ==
    \A n \in Nodes : InUse(n) <= MaxJobsPerNode

\* A job that waits to be started carries nothing of its earlier attempt, and
\* a finished one the outcome of its status, in whichever order reports,
\* retries and timeouts were applied.
OutcomeMatchesStatus ==
    \A id \in Known :
        LET job == jobs[id] IN
        /\ job.status = "pending" => job.exit = "nil" /\ ~job.finished
        /\ job.status = "done" => job.exit = "ok" /\ job.finished
        /\ job.status = "failed" => job.exit = "error" /\ job.finished

\* Scheduler and agents, with what gets lost, comes late or crashes, implement
\* what RunContract promises of a job's executions.
Executions == INSTANCE RunContract WITH
    live <- {p.job : p \in procs},
    starts <- runs,
    retries <- [id \in JobIds |-> IF id \in Known THEN jobs[id].retry ELSE 0]

RunsKept == Executions!Spec

Finishes(n) ==
    \A id \in JobIds :
        id \in WithStatus("pending") \cap OnNode(n) ~>
            id \in WithStatus("done") \cup WithStatus("failed")

\* A pending job is not forgotten: while its node's worker may poll, the job
\* is in the end done or failed, whatever crashes and reports get lost, and
\* although hung services hold the node's slots until they time out.
PendingFinishes == \A n \in Nodes : <>[]MayPoll(n) => Finishes(n)

\* docs/architecture/jobs.md: "MAX_JOBS_PER_NODE (default 1) limits how many
\* jobs run in parallel per node."
CapacityRespected ==
    \A n \in Nodes : Cardinality(ExecutingOn(n)) <= MaxJobsPerNode

\* docs/architecture/jobs.md: "Second failure is final."
SecondFailureFinal ==
    [][\A id \in WithStatus("failed") :
           jobs[id].retry = MaxJobRetries => jobs'[id].status = "failed"]_vars

-----------------------------------------------------------------------------
(* The invariant from which the first three properties follow.             *)

Reports(id) == {m \in patches : m.job = id /\ m.status \in Finished}
Quiet(id) == Reports(id) = {} /\ \A p \in procs : p.job # id

\* A job whose mark is awaited has neither a live process nor a report under
\* way, has not used the run it was polled for, and finds a free slot.
MarkingInv ==
    \A n \in Nodes, id \in JobIds :
        worker[n] = [pc |-> "marking", job |-> id] =>
            /\ id \in OnNode(n)
            /\ Quiet(id)
            /\ runs[id] <= jobs[id].retry
            /\ InUse(n) < MaxJobsPerNode

\* A job being executed is not pending, has not been reported on, and is
\* running unless the watcher gave it up.
ProcInv ==
    \A p \in procs :
        /\ p.job \in OnNode(p.node)
        /\ Reports(p.job) = {}
        /\ jobs[p.job].status # "pending"
        /\ p.job \in expired \/ jobs[p.job].status = "running"

\* At most one report of a job is under way, and then it is not pending.
ReportInv ==
    \A m \in patches :
        /\ m.job \in Known
        /\ m.status \in Finished =>
               jobs[m.job].status # "pending" /\ Reports(m.job) = {m}

\* Runs are paid for with retries, one being free.
RunInv ==
    \A id \in JobIds :
        IF id \in Known
        THEN /\ runs[id] <= jobs[id].retry + 1
             /\ jobs[id].status = "pending" => runs[id] <= jobs[id].retry
        ELSE runs[id] = 0

\* The four parts together, with what they imply about processes and slots.
ExecInv ==
    /\ MarkingInv /\ ProcInv /\ ReportInv /\ RunInv
    /\ NoConcurrentRuns /\ CapacityUnlessExpired
=============================================================================
