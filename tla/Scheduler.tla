------------------------------ MODULE Scheduler ------------------------------
(***************************************************************************)
(* The job table of control-plane/scheduler: the in-memory map `jobs`, the *)
(* SQLite table behind it, the sequence counter that numbers jobs, the     *)
(* handlers that submit, list and update jobs, the timeout watcher, and a  *)
(* crash and restart of the process.                                       *)
(*                                                                         *)
(* The environment is open here: anybody may PATCH any job at any time, as *)
(* the handler allows.  JobSystem closes it with the real agents.          *)
(*                                                                         *)
(* Time is abstracted: at a tick of the watcher the set of running jobs    *)
(* whose running_at is older than the timeout may be any set.              *)
(***************************************************************************)
EXTENDS Naturals, FiniteSets

CONSTANTS
    Nodes,            \* compute nodes the registry may hand out
    Requests,         \* units of work clients ask for
    MaxSeq,           \* bound on the job sequence number
    MaxJobRetries,    \* maxJobRetries
    MaxJobsPerNode,   \* maxJobsPerNode(), the MAX_JOBS_PER_NODE setting
    SavesMayFail,     \* whether jobStore.Save may return an error
    NoJob             \* the entry of an id the table does not hold

JobIds == 1 .. MaxSeq
Finished == {"done", "failed"}
PatchStatus == {"running"} \cup Finished

\* The fields of Job that decide what the scheduler does.  `exit` abstracts
\* the exit code; output, environment and timestamps are left out.
Job == [request  : Requests,
        node     : Nodes,
        kind     : {"run", "service"},
        status   : {"pending"} \cup PatchStatus,
        retry    : 0 .. MaxJobRetries,
        exit     : {"nil", "ok", "error"},
        finished : BOOLEAN]

\* A POST handler that has taken its number and not yet taken jobsMu.
Submission == [id : JobIds, request : Requests, node : Nodes,
               kind : {"run", "service"}]

ASSUME SchedulerConstants ==
    /\ MaxSeq \in Nat
    /\ MaxJobRetries \in Nat
    /\ MaxJobsPerNode \in Nat \ {0}
    /\ SavesMayFail \in BOOLEAN
    /\ NoJob \notin Job

VARIABLES
    jobs,       \* the map guarded by jobsMu
    db,         \* the rows of the jobs table
    jobSeq,     \* the atomic counter
    submits,    \* submissions between AddUint64 and Lock
    receipts,   \* 201 replies clients have received
    notices     \* job-status messages handed to snsPublish

schedulerVars == <<jobs, db, jobSeq, submits, receipts, notices>>

TypeOK ==
    /\ jobs \in [JobIds -> Job \cup {NoJob}]
    /\ db \in [JobIds -> Job \cup {NoJob}]
    /\ jobSeq \in 0 .. MaxSeq
    /\ submits \subseteq Submission
    /\ receipts \subseteq [id : JobIds, request : Requests]
    /\ notices \subseteq [id : JobIds, status : Finished]

Rows(table) == {id \in JobIds : table[id] # NoJob}
Known == Rows(jobs)
WithStatus(s) == {id \in Known : jobs[id].status = s}
OnNode(n) == {id \in Known : jobs[id].node = n}

Init ==
    /\ jobs = [id \in JobIds |-> NoJob]
    /\ db = jobs
    /\ jobSeq = 0
    /\ submits = {}
    /\ receipts = {}
    /\ notices = {}

\* jobStore.Save of the listed jobs: one upsert per job; an error is only
\* logged, and each row is then what it was.
Save(ids) ==
    \E lost \in SUBSET ids :
        /\ lost # {} => SavesMayFail
        /\ db' = [id \in JobIds |-> IF id \in ids \ lost THEN jobs'[id] ELSE db[id]]

-----------------------------------------------------------------------------
\* POST /jobs, first part: the request is valid, the registry named a node,
\* and the handler takes the next sequence number without holding the lock.
AllocateId(r, n, k) ==
    /\ jobSeq < MaxSeq
    /\ r \notin {s.request : s \in submits \cup receipts}
    /\ jobSeq' = jobSeq + 1
    /\ submits' = submits \cup {[id |-> jobSeq', request |-> r, node |-> n, kind |-> k]}
    /\ UNCHANGED <<jobs, db, receipts, notices>>

NewJob(s) == [request |-> s.request, node |-> s.node, kind |-> s.kind,
              status |-> "pending", retry |-> 0, exit |-> "nil",
              finished |-> FALSE]

\* POST /jobs, second part: insert and save under jobsMu, then reply 201.
\* The reply may be lost, and the client may then submit the work again.
InsertJob(s) ==
    /\ submits' = submits \ {s}
    /\ jobs' = [jobs EXCEPT ![s.id] = NewJob(s)]
    /\ Save({s.id})
    /\ \/ receipts' = receipts \cup {[id |-> s.id, request |-> s.request]}
       \/ UNCHANGED receipts
    /\ UNCHANGED <<jobSeq, notices>>

\* Mutant: one job more than the limit.
OfferedPastLimit(n) ==
    IF Cardinality(OnNode(n) \cap WithStatus("running")) > MaxJobsPerNode
    THEN {}
    ELSE OnNode(n) \cap WithStatus("pending")

\* GET /jobs?node_id=n&status=pending, the poll of an agent: nothing while
\* the node is at capacity.
Offered(n) ==
    IF Cardinality(OnNode(n) \cap WithStatus("running")) >= MaxJobsPerNode
    THEN {}
    ELSE OnNode(n) \cap WithStatus("pending")

\* Mutants: one attempt too many, one too few.
MayRetryOnceMore(job) == job.retry <= MaxJobRetries
MayRetryOnceLess(job) == job.retry + 1 < MaxJobRetries

MayRetry(job) == job.retry < MaxJobRetries

\* Mutants: the retry is not counted; the failed attempt's outcome stays.
RequeuedForFree(job) == [job EXCEPT !.status = "pending", !.exit = "nil", !.finished = FALSE]
RequeuedAsIs(job) == [job EXCEPT !.retry = @ + 1, !.status = "pending"]

Requeued(job) ==
    [job EXCEPT !.retry = @ + 1, !.status = "pending", !.exit = "nil",
                !.finished = FALSE]

Reported(job, s, x) ==
    [job EXCEPT !.status = s, !.exit = IF x = "nil" THEN @ ELSE x,
                !.finished = @ \/ s \in Finished]

\* PATCH /jobs/{id}.  The current status is not looked at.  The publication
\* to the SNS topic is handed to a goroutine after the unlock.
UpdateJob(id, s, x) ==
    /\ id \in Known
    /\ \/ /\ s = "failed"
          /\ MayRetry(jobs[id])
          /\ jobs' = [jobs EXCEPT ![id] = Requeued(@)]
          /\ UNCHANGED notices
       \/ /\ s = "failed" => ~MayRetry(jobs[id])
          /\ jobs' = [jobs EXCEPT ![id] = Reported(@, s, x)]
          /\ notices' = IF s \in Finished
                        THEN notices \cup {[id |-> id, status |-> s]}
                        ELSE notices
    /\ Save({id})
    /\ UNCHANGED <<jobSeq, submits, receipts>>

\* Mutants: a timeout spends a retry, like a failure; or is forgotten.
TimedOutWithRetry(job) == IF MayRetry(job) THEN Requeued(job) ELSE Reported(job, "failed", "error")
TimedOutToPending(job) == [job EXCEPT !.status = "pending"]

TimedOut(job) ==
    [job EXCEPT !.status = "failed", !.exit = "error", !.finished = TRUE]

\* One tick of watchJobTimeouts: the overdue running jobs become failed
\* without a retry and without a notice.
WatchJobTimeouts(overdue) ==
    /\ overdue # {}
    /\ overdue \subseteq WithStatus("running")
    /\ jobs' = [id \in JobIds |-> IF id \in overdue THEN TimedOut(jobs[id])
                                                    ELSE jobs[id]]
    /\ Save(overdue)
    /\ UNCHANGED <<jobSeq, submits, receipts, notices>>

\* Mutant: as many rows, so many numbers given out.
CountedSeq(table, n) == n = Cardinality(Rows(table))

HighestSeq(table, n) ==
    /\ \A id \in Rows(table) : id <= n
    /\ n = 0 \/ n \in Rows(table)

\* Mutant: only unfinished jobs are loaded.
RestartUnfinished ==
    /\ jobs' = [id \in JobIds |-> IF id \in Rows(db) /\ db[id].finished THEN NoJob ELSE db[id]]
    /\ jobSeq' \in 0 .. MaxSeq
    /\ HighestSeq(db, jobSeq')
    /\ submits' = {}
    /\ UNCHANGED <<db, receipts, notices>>

\* The process dies, its open handlers with it, and main() reloads the table
\* and continues after the highest number it holds.
Restart ==
    /\ jobs' = db
    /\ jobSeq' \in 0 .. MaxSeq
    /\ HighestSeq(db, jobSeq')
    /\ submits' = {}
    /\ UNCHANGED <<db, receipts, notices>>

Next ==
    \/ \E r \in Requests, n \in Nodes, k \in {"run", "service"} : AllocateId(r, n, k)
    \/ \E s \in submits : InsertJob(s)
    \/ \E id \in JobIds, s \in PatchStatus, x \in {"nil", "ok", "error"} :
           UpdateJob(id, s, x)
    \/ \E overdue \in SUBSET JobIds : WatchJobTimeouts(overdue)
    \/ Restart

Spec == Init /\ [][Next]_schedulerVars
-----------------------------------------------------------------------------
\* Every number held by an open submission is one the table has never used,
\* no two submissions hold the same one, and the counter is ahead of all of
\* them: the counter is incremented outside jobsMu and restored at a restart
\* from whatever rows reached the database by then (main.go 96-101, 201).
FreshIds ==
    /\ \A s \in submits : s.id \notin Known /\ s.id <= jobSeq
    /\ \A s, t \in submits : s.id = t.id => s = t
    /\ \A id \in Known : id <= jobSeq

\* A client that was told 201 finds its own job under that id for ever, in
\* memory and on disk, across crashes of the scheduler.  Holds when saves do
\* not fail; a failed save is only logged (main.go 217).
ReceiptsHonoured ==
    \A c \in receipts :
        \A table \in {jobs, db} :
            /\ table[c.id] # NoJob
            /\ table[c.id].request = c.request

\* A subscriber that is told a job failed is told so only when the job has no
\* retry left: an attempt that is going to be repeated is never announced, and
\* a restart does not give an announced job its retry back.
FailureNoticesFinal ==
    \A m \in notices :
        m.status = "failed" =>
            /\ m.id \in Known
            /\ jobs[m.id].retry = MaxJobRetries

\* No two clients hold the same job id for different work, as the comment on
\* parseJobSeq says ("so we don't reuse IDs after restart").
IdsNotReused ==
    \A a, b \in receipts : a.id = b.id => a.request = b.request

\* The scheduler, with its handlers, its database and its crashes, implements
\* the contract: nobody can see from the table that it crashed.
Contract == INSTANCE JobContract WITH
    status <- [id \in JobIds |-> IF id \in Known THEN jobs[id].status ELSE "absent"],
    retries <- [id \in JobIds |-> IF id \in Known THEN jobs[id].retry ELSE 0]

ContractSpec == Contract!Spec
=============================================================================
