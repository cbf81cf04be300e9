------------------------------ MODULE Services ------------------------------
(***************************************************************************)
(* The life of service processes on one node: the tasks the agent runs for *)
(* service jobs (ec2-agent, jobs.rs, run_service), the poller that kills   *)
(* what was stopped, and the registry's table of services (services.go).   *)
(* A task makes three calls, each sent once and any of them lost: it       *)
(* registers the process, reports its end to the registry, and to the      *)
(* scheduler, which gives a failed job one more try.                       *)
(*                                                                         *)
(* The timeouts of the scheduler are left to JobSystem.  Statements of the *)
(* table other than Save do not fail.                                      *)
(***************************************************************************)
EXTENDS Naturals, Sequences

CONSTANTS
    Jobs,         \* service jobs pinned to the node
    MaxRuns,      \* bound on the processes of one job
    MaxSeq,       \* bound on the service number
    MaxFailedSaves \* bound on failing saves

maxJobRetries == 1

Ids == 1 .. MaxSeq
None == 0
Runs == [job : Jobs, run : 1 .. MaxRuns]
Job == [status : {"pending", "running", "done", "failed"},
        runs : 0 .. MaxRuns, retries : 0 .. maxJobRetries]
Service == [id : Ids, run : Runs, status : {"running", "stopped", "done", "crashed"}]
Task == [pc : {"none", "registering", "numbered", "waiting", "patching", "reporting", "over"},
         svc : Ids \cup {None}]

ASSUME ServicesConstants ==
    /\ MaxRuns \in Nat /\ MaxSeq \in Nat /\ MaxFailedSaves \in Nat

VARIABLES
    seq,          \* ServiceStore.seq
    rows,         \* the services table, in the order of its rowids
    creating,     \* handlers of POST /services with a number, before Save
    tasks,        \* run_service for each process
    procs,        \* the processes
    pids,         \* service_pids: which process each id stands for
    polled,       \* ids the kill poller has still to look at
    jobs,         \* the jobs, as far as the scheduler's retry goes
    given,        \* the numbers given out, and for which process
    stopped,      \* processes whose service a client stopped
    killed,       \* processes that were sent SIGTERM
    unheard,      \* processes with a call lost, or whose agent died
    saveFaults    \* failed saves

tableVars == <<seq, rows, creating, saveFaults>>
agentVars == <<tasks, procs, pids, polled>>
traceVars == <<given, stopped, killed, unheard>>
serviceVars == <<tableVars, agentVars, jobs, traceVars>>

ServicesTypeOK ==
    /\ seq \in 0 .. MaxSeq
    /\ rows \in Seq(Service) /\ Len(rows) <= MaxSeq
    /\ creating \subseteq [id : Ids, run : Runs]
    /\ tasks \in [Runs -> Task]
    /\ procs \in [Runs -> {"none", "alive", "ok", "error"}]
    /\ pids \subseteq [id : Ids, run : Runs]
    /\ polled \subseteq Ids
    /\ jobs \in [Jobs -> Job]
    /\ given \subseteq [id : Ids, run : Runs]
    /\ stopped \subseteq Runs /\ killed \subseteq Runs /\ unheard \subseteq Runs
    /\ saveFaults \in 0 .. MaxFailedSaves

ServicesInit ==
    /\ seq = 0 /\ rows = <<>> /\ creating = {} /\ saveFaults = 0
    /\ tasks = [r \in Runs |-> [pc |-> "none", svc |-> None]]
    /\ procs = [r \in Runs |-> "none"]
    /\ pids = {} /\ polled = {}
    /\ jobs = [j \in Jobs |-> [status |-> "pending", runs |-> 0, retries |-> 0]]
    /\ given = {} /\ stopped = {} /\ killed = {} /\ unheard = {}

At(r, pc) == tasks[r].pc = pc
Go(r, pc) == tasks' = [tasks EXCEPT ![r].pc = pc]
Saved(id) == \E k \in DOMAIN rows : rows[k].id = id

\* ServiceStore.UpdateStatus, which may find no row.
UpdateStatus(id, s) ==
    rows' = [k \in DOMAIN rows |-> IF rows[k].id = id THEN [rows[k] EXCEPT !.status = s] ELSE rows[k]]

\* Mutant: any failure is tried again.
AlwaysRetried(job) ==
    [job EXCEPT !.status = "pending"]

\* What the scheduler makes of a failed job.
Failed(job) ==
    IF job.retries < maxJobRetries
    THEN [status |-> "pending", runs |-> job.runs, retries |-> job.retries + 1]
    ELSE [job EXCEPT !.status = "failed"]

-----------------------------------------------------------------------------
\* The worker has marked the job; its task builds the command and spawns it.
Spawn(j) ==
    /\ jobs[j].status = "pending" /\ jobs[j].runs < MaxRuns
    /\ jobs' = [jobs EXCEPT
                  ![j] = [status |-> "running", runs |-> @.runs + 1, retries |-> @.retries]]
    /\ LET r == [job |-> j, run |-> jobs[j].runs + 1] IN
           /\ procs' = [procs EXCEPT ![r] = "alive"]
           /\ Go(r, "registering")
    /\ UNCHANGED <<tableVars, pids, polled, traceVars>>

\* The archive, the image, the command or the spawn fails: the job is reported
\* failed, and the report arrives or is lost.
SpawnFails(j) ==
    /\ jobs[j].status = "pending"
    /\ jobs' \in {[jobs EXCEPT ![j] = Failed(@)], [jobs EXCEPT ![j].status = "running"]}
    /\ UNCHANGED <<tableVars, agentVars, traceVars>>

\* The call of register_service is lost: the process has no service.
RegisterLost(r) ==
    /\ At(r, "registering")
    /\ Go(r, "waiting")
    /\ unheard' = unheard \cup {r}
    /\ UNCHANGED <<tableVars, procs, pids, polled, jobs, given, stopped, killed>>

\* POST /services: Create takes a number.
TakeNumber(r) ==
    /\ At(r, "registering") /\ seq < MaxSeq
    /\ seq' = seq + 1
    /\ creating' = creating \cup {[id |-> seq', run |-> r]}
    /\ given' = given \cup {[id |-> seq', run |-> r]}
    /\ Go(r, "numbered")
    /\ UNCHANGED <<rows, saveFaults, procs, pids, polled, jobs, stopped, killed, unheard>>

\* ServiceStore.Save: a row with this id is overwritten.
Upsert(c) ==
    LET row == [id |-> c.id, run |-> c.run, status |-> "running"] IN
    IF Saved(c.id)
    THEN [k \in DOMAIN rows |-> IF rows[k].id = c.id THEN row ELSE rows[k]]
    ELSE Append(rows, row)

\* The rest of Create, which only logs a failed Save, and the answer: when it
\* arrives, the task enters the process into service_pids.
SaveService(c) ==
    /\ creating' = creating \ {c}
    /\ \/ rows' = Upsert(c) /\ UNCHANGED saveFaults
       \/ /\ saveFaults < MaxFailedSaves
          /\ saveFaults' = saveFaults + 1
          /\ UNCHANGED rows
    /\ IF ~At(c.run, "numbered") THEN UNCHANGED <<tasks, pids, unheard>>
       ELSE \/ /\ tasks' = [tasks EXCEPT ![c.run] = [pc |-> "waiting", svc |-> c.id]]
               /\ pids' = {p \in pids : p.id # c.id} \cup {c}
               /\ UNCHANGED unheard
            \/ /\ Go(c.run, "waiting")
               /\ unheard' = unheard \cup {c.run}
               /\ UNCHANGED pids
    /\ UNCHANGED <<seq, procs, polled, jobs, given, stopped, killed>>

\* The process exits, by itself or after a signal, with zero or not.
ProcessEnds(r) ==
    /\ procs[r] = "alive"
    /\ procs' \in {[procs EXCEPT ![r] = s] : s \in {"ok", "error"}}
    /\ UNCHANGED <<tableVars, tasks, pids, polled, jobs, traceVars>>

\* Mutant: the registry is not told of the end.
ReapSilently(r) ==
    /\ At(r, "waiting") /\ procs[r] # "alive"
    /\ Go(r, "reporting")
    /\ pids' = {p \in pids : p.id # tasks[r].svc}
    /\ UNCHANGED <<tableVars, procs, polled, jobs, traceVars>>

\* child.wait() returns; the id leaves service_pids.
Reap(r) ==
    /\ At(r, "waiting") /\ procs[r] # "alive"
    /\ Go(r, IF tasks[r].svc = None THEN "reporting" ELSE "patching")
    /\ pids' = {p \in pids : p.id # tasks[r].svc}
    /\ UNCHANGED <<tableVars, procs, polled, jobs, traceVars>>

\* Mutant: the update forgets which service it is about.
NotifyAll(r) ==
    /\ At(r, "patching")
    /\ Go(r, "reporting")
    /\ rows' = [k \in DOMAIN rows |->
                   [rows[k] EXCEPT !.status = IF procs[r] = "ok" THEN "done" ELSE "crashed"]]
    /\ UNCHANGED <<seq, creating, saveFaults, procs, pids, polled, jobs, traceVars>>

\* PATCH /services/{id} with the end of the process is served, or lost.
NotifyRegistry(r) ==
    /\ At(r, "patching")
    /\ Go(r, "reporting")
    /\ \/ /\ UpdateStatus(tasks[r].svc, IF procs[r] = "ok" THEN "done" ELSE "crashed")
          /\ UNCHANGED unheard
       \/ unheard' = unheard \cup {r} /\ UNCHANGED rows
    /\ UNCHANGED <<seq, creating, saveFaults, procs, pids, polled, jobs, given, stopped, killed>>

\* The report of the job is served, or lost.
NotifyScheduler(r) ==
    /\ At(r, "reporting")
    /\ Go(r, "over")
    /\ \/ jobs' = [jobs EXCEPT
                     ![r.job] = IF procs[r] = "ok" THEN [@ EXCEPT !.status = "done"] ELSE Failed(@)]
       \/ UNCHANGED jobs
    /\ UNCHANGED <<tableVars, procs, pids, polled, traceVars>>

\* DELETE /services/{id}
StopService(id) ==
    /\ Saved(id)
    /\ UpdateStatus(id, "stopped")
    /\ stopped' = stopped \cup {rows[k].run : k \in {k \in DOMAIN rows : rows[k].id = id}}
    /\ UNCHANGED <<seq, creating, saveFaults, agentVars, jobs, given, killed, unheard>>

\* Mutant: the filter on the status is ignored.
ListedIds == {rows[k].id : k \in DOMAIN rows}

\* GET /services?node_id=...&status=stopped
StoppedIds == {rows[k].id : k \in {k \in DOMAIN rows : rows[k].status = "stopped"}}

\* One poll of kill_stopped_services; the list is then worked off.
PollStopped ==
    /\ polled = {}
    /\ polled' = StoppedIds
    /\ UNCHANGED <<tableVars, tasks, procs, pids, jobs, traceVars>>

\* Mutant: the id is forgotten before it is looked up.
ForgetStopped(id) ==
    /\ id \in polled
    /\ polled' = polled \ {id}
    /\ pids' = {p \in pids : p.id # id}
    /\ UNCHANGED <<tableVars, tasks, procs, jobs, traceVars>>

\* A process that is known by the id gets SIGTERM, and the id is forgotten; one
\* that has exited and was not reaped yet does not mind.
KillStopped(id) ==
    /\ id \in polled
    /\ polled' = polled \ {id}
    /\ killed' = killed \cup {p.run : p \in {p \in pids : p.id = id}}
    /\ pids' = {p \in pids : p.id # id}
    /\ UNCHANGED <<tableVars, tasks, procs, jobs, given, stopped, unheard>>

\* The agent dies and is started again: its processes go on without a task.
AgentCrash ==
    /\ tasks' = [r \in Runs |->
                    IF tasks[r].pc \in {"none", "over"} THEN tasks[r] ELSE [tasks[r] EXCEPT !.pc = "over"]]
    /\ unheard' = unheard \cup {r \in Runs : tasks[r].pc \notin {"none", "over"}}
    /\ pids' = {} /\ polled' = {}
    /\ UNCHANGED <<tableVars, procs, jobs, given, stopped, killed>>

\* The registry dies with its handlers; numbering goes on after the row that
\* was inserted last.  Tasks that waited for an answer get an error.
ServicesRestart ==
    /\ seq' = IF rows = <<>> THEN 0 ELSE rows[Len(rows)].id
    /\ creating' = {}
    /\ tasks' = [r \in Runs |-> IF At(r, "numbered") THEN [tasks[r] EXCEPT !.pc = "waiting"] ELSE tasks[r]]
    /\ unheard' = unheard \cup {r \in Runs : At(r, "numbered")}
    /\ UNCHANGED <<rows, saveFaults, procs, pids, polled, jobs, given, stopped, killed>>

TaskStep(r) ==
    \/ RegisterLost(r) \/ TakeNumber(r) \/ Reap(r)
    \/ NotifyRegistry(r) \/ NotifyScheduler(r)

ServicesNext ==
    \/ \E j \in Jobs : Spawn(j) \/ SpawnFails(j)
    \/ \E r \in Runs : TaskStep(r) \/ ProcessEnds(r)
    \/ \E c \in creating : SaveService(c)
    \/ \E id \in Ids : StopService(id) \/ KillStopped(id)
    \/ PollStopped
    \/ AgentCrash
    \/ ServicesRestart

ServicesSpec == ServicesInit /\ [][ServicesNext]_serviceVars
-----------------------------------------------------------------------------
\* Another process was given a number that this one was given.
SharesNumber(r) ==
    \E g, h \in given : g.run = r /\ h.run # r /\ g.id = h.id

\* The poller works off a list that is old by the time it kills: still it only
\* signals processes of services a client stopped, unless a number was given
\* out twice, after a failed or overtaken save and a restart.
KillsOnlyStopped ==
    \A r \in killed : r \in stopped \/ SharesNumber(r)

\* While the process of a stopped service lives, nothing takes the mark off
\* again before the poller has seen it: a crash report overwrites it only
\* once the process is gone, and the retry of the job gets a row of its own.
StoppedRow(r) == \E k \in DOMAIN rows : rows[k].run = r /\ rows[k].status = "stopped"
StopHolds ==
    [][\A r \in Runs :
          StoppedRow(r) /\ procs[r] = "alive" /\ ~SharesNumber(r) => StoppedRow(r)']_serviceVars

\* A row that says running for a process that is gone, when no task is left
\* to correct it, stems from a call that was lost or from an agent that died.
StaleRowsExplained ==
    \A k \in DOMAIN rows :
        LET r == rows[k].run IN
        rows[k].status = "running" /\ procs[r] # "alive" /\ At(r, "over") => r \in unheard

\* A crash report or the kill itself gives a stopped service's job its retry,
\* so that the service comes back under a new id.  Stopping it a second time is
\* the end of it.
SecondStopFinal ==
    \A r, s \in stopped :
        r.job = s.job /\ r.run < s.run =>
            \A t \in Runs : t.job = s.job /\ t.run > s.run => procs[t] = "none"

\* A process that the agent knows by the id of its service, and whose service
\* a client stopped, is sent the signal, unless it exits before, the agent
\* dies, or its number is shared.
StoppedIsSignalled ==
    \A r \in Runs :
        (StoppedRow(r) /\ \E p \in pids : p.run = r)
            ~> (r \in killed \/ procs[r] # "alive" \/ r \in unheard \/ SharesNumber(r))
=============================================================================
