---------------------------- MODULE ServicesProofs ----------------------------
(***************************************************************************)
(* Proofs about service processes, their table and the kill poller, for    *)
(* any number of jobs, processes, numbers, lost calls and crashes.         *)
(***************************************************************************)
EXTENDS Services, FiniteSetTheorems, TLAPS

\* The types, except that the length of the table is bounded.
Shapes ==
    /\ seq \in 0 .. MaxSeq /\ saveFaults \in 0 .. MaxFailedSaves
    /\ rows \in Seq(Service)
    /\ creating \subseteq [id : Ids, run : Runs]
    /\ tasks \in [Runs -> Task]
    /\ procs \in [Runs -> {"none", "alive", "ok", "error"}]
    /\ pids \subseteq [id : Ids, run : Runs]
    /\ polled \subseteq Ids
    /\ jobs \in [Jobs -> Job]
    /\ given \subseteq [id : Ids, run : Runs]
    /\ stopped \subseteq Runs /\ killed \subseteq Runs /\ unheard \subseteq Runs

\* The id is the primary key of the table.
KeyInv == \A k, m \in DOMAIN rows : rows[k].id = rows[m].id => k = m

Active == {"registering", "numbered", "waiting", "patching", "reporting"}

\* A run is counted when it is spawned.
Counted ==
    \A r \in Runs : r.run > jobs[r.job].runs => tasks[r].pc = "none" /\ procs[r] = "none"

\* A job waits for the task of its last run.
Awaited ==
    \A r \in Runs : tasks[r].pc \in Active =>
        r.run = jobs[r.job].runs /\ jobs[r.job].status = "running"

\* The end of a process is reported after it has ended.
Ended == \A r \in Runs : tasks[r].pc \in {"patching", "reporting"} => procs[r] # "alive"

\* Each run after the first was paid for by the one retry.
Paid ==
    \A j \in Jobs : /\ jobs[j].runs <= jobs[j].retries + 1
                    /\ jobs[j].status = "pending" => jobs[j].runs <= jobs[j].retries

RunInv == Counted /\ Awaited /\ Ended /\ Paid

\* Handlers, tasks, rows and the agent's map name processes by numbers that
\* were given to them.
GivenInv ==
    /\ creating \subseteq given /\ pids \subseteq given
    /\ \A r \in Runs : tasks[r].svc # None => [id |-> tasks[r].svc, run |-> r] \in given
    /\ \A k \in DOMAIN rows : [id |-> rows[k].id, run |-> rows[k].run] \in given

\* A handler works for a task that waits for it, or that died meanwhile; no
\* two work for the same one, and none has its row before it saves it.
CreateInv ==
    /\ \A c \in creating : At(c.run, "numbered") \/ (At(c.run, "over") /\ c.run \in unheard)
    /\ \A c, d \in creating : c.run = d.run => c = d
    /\ \A c \in creating : \A k \in DOMAIN rows : ~(rows[k].id = c.id /\ rows[k].run = c.run)
    /\ \A r \in Runs : tasks[r].pc \in {"none", "registering", "numbered"} =>
           \A k \in DOMAIN rows : rows[k].run # r

\* A row that says running belongs to a task that will correct it, or to a
\* process whose call was lost.
RowInv ==
    \A k \in DOMAIN rows :
        LET r == rows[k].run IN
        /\ rows[k].status = "stopped" => r \in stopped
        /\ rows[k].status = "running" /\ r \notin unheard =>
               tasks[r].pc \in {"waiting", "patching"} /\ tasks[r].svc = rows[k].id

\* An id the poller has in hand was, at some time, that of a stopped service.
PollInv == \A id \in polled : \E g \in given : g.id = id /\ g.run \in stopped

Inv ==
    /\ Shapes /\ KeyInv /\ RunInv /\ GivenInv /\ CreateInv /\ RowInv /\ PollInv
    /\ KillsOnlyStopped

-----------------------------------------------------------------------------
LEMMA GoEffect ==
    ASSUME Shapes, NEW r \in Runs, NEW pc \in Active \cup {"none", "over"}, Go(r, pc)
    PROVE  /\ tasks' \in [Runs -> Task]
           /\ tasks'[r].pc = pc /\ tasks'[r].svc = tasks[r].svc
           /\ \A q \in Runs \ {r} : tasks'[q] = tasks[q]
BY DEF Shapes, Go, Task, Active

LEMMA JobAndRun ==
    \A r \in Runs : r.job \in Jobs /\ r.run \in 1 .. MaxRuns
BY DEF Runs

LEMMA RowRuns ==
    ASSUME Shapes
    PROVE  \A k \in DOMAIN rows : rows[k] \in Service /\ rows[k].run \in Runs /\ rows[k].id \in Ids
<1>1. \A k \in DOMAIN rows : rows[k] \in Service
  BY DEF Shapes
<1> QED
  BY <1>1 DEF Service

LEMMA FailedJob ==
    \A job \in Job : /\ Failed(job) \in Job
                     /\ Failed(job).runs = job.runs
                     /\ \/ Failed(job).status = "pending" /\ Failed(job).retries = job.retries + 1
                        \/ Failed(job).status = "failed" /\ Failed(job).retries = job.retries
BY ServicesConstants DEF Failed, Job, maxJobRetries

LEMMA InitInv == ServicesInit => Inv
<1> SUFFICES ASSUME ServicesInit PROVE Inv
  OBVIOUS
<1> USE DEF ServicesInit
<1>1. Shapes
  <2>1. [pc |-> "none", svc |-> None] \in Task
    BY DEF Task
  <2>2. [status |-> "pending", runs |-> 0, retries |-> 0] \in Job
    BY ServicesConstants DEF Job, maxJobRetries
  <2> QED
    BY <2>1, <2>2, ServicesConstants DEF Shapes
<1>2. RunInv
  BY JobAndRun DEF RunInv, Counted, Awaited, Ended, Paid, Active
<1>3. KeyInv /\ GivenInv /\ CreateInv /\ RowInv /\ PollInv /\ KillsOnlyStopped
  BY DEF KeyInv, GivenInv, CreateInv, RowInv, PollInv, KillsOnlyStopped
<1> QED
  BY <1>1, <1>2, <1>3 DEF Inv

LEMMA SpawnInv ==
    ASSUME Inv, NEW j \in Jobs, Spawn(j)
    PROVE  Inv'
<1> DEFINE r == [job |-> j, run |-> jobs[j].runs + 1]
<1>1. /\ jobs[j].status = "pending" /\ jobs[j].runs < MaxRuns
      /\ jobs' = [jobs EXCEPT ![j] = [status |-> "running", runs |-> jobs[j].runs + 1,
                                      retries |-> jobs[j].retries]]
      /\ procs' = [procs EXCEPT ![r] = "alive"]
      /\ Go(r, "registering")
      /\ UNCHANGED <<tableVars, pids, polled, traceVars>>
  BY DEF Spawn, Inv, Shapes
<1>2. r \in Runs /\ r.job = j /\ r.run = jobs[j].runs + 1
  BY <1>1, ServicesConstants DEF Runs, Inv, Shapes, Job
<1> HIDE DEF r
<1>3. /\ tasks' \in [Runs -> Task]
      /\ tasks'[r].pc = "registering" /\ tasks'[r].svc = tasks[r].svc
      /\ \A q \in Runs \ {r} : tasks'[q] = tasks[q]
  BY <1>1, <1>2, GoEffect DEF Inv, Active
<1>4. tasks[r].pc = "none" /\ procs[r] = "none"
  <2>1. r.run > jobs[r.job].runs
    BY <1>2 DEF Inv, Shapes, Job
  <2> QED
    BY <1>2, <2>1 DEF Inv, RunInv, Counted
<1>5. /\ jobs' \in [Jobs -> Job]
      /\ jobs'[j].status = "running" /\ jobs'[j].runs = jobs[j].runs + 1
      /\ jobs'[j].retries = jobs[j].retries
      /\ \A i \in Jobs \ {j} : jobs'[i] = jobs[i]
  BY <1>1, ServicesConstants DEF Inv, Shapes, Job
<1>6. Shapes'
  BY <1>1, <1>3, <1>5 DEF Inv, Shapes, tableVars, traceVars
<1>7. RunInv'
  <2>1. Counted'
    BY <1>1, <1>2, <1>3, <1>5, JobAndRun DEF Inv, Shapes, RunInv, Counted, Job
  <2>2. Awaited'
    <3> SUFFICES ASSUME NEW q \in Runs, tasks'[q].pc \in Active
                 PROVE  q.run = jobs'[q.job].runs /\ jobs'[q.job].status = "running"
      BY DEF Awaited
    <3>1. CASE q = r
      BY <1>2, <1>5, <3>1
    <3>2. CASE q # r
      <4>1. q.run = jobs[q.job].runs /\ jobs[q.job].status = "running"
        BY <1>3, <3>2 DEF Inv, RunInv, Awaited
      <4> QED
        BY <1>1, <1>5, <4>1, JobAndRun
    <3> QED
      BY <3>1, <3>2
  <2>3. Ended'
    BY <1>1, <1>2, <1>3 DEF Inv, Shapes, RunInv, Ended
  <2>4. Paid'
    BY <1>1, <1>5 DEF Inv, Shapes, RunInv, Paid, Job
  <2> QED
    BY <2>1, <2>2, <2>3, <2>4 DEF RunInv
<1>8. GivenInv'
  BY <1>1, <1>3 DEF Inv, GivenInv, tableVars, traceVars
<1>9. \A q \in Runs : tasks[q].pc # "none" => tasks'[q] = tasks[q]
  BY <1>3, <1>4
<1>10. CreateInv'
  BY <1>1, <1>3, <1>4, <1>9 DEF Inv, Shapes, CreateInv, At, tableVars, traceVars
<1>11. RowInv'
  BY <1>1, <1>9, RowRuns DEF Inv, RowInv, tableVars, traceVars
<1> QED
  BY <1>1, <1>6, <1>7, <1>8, <1>10, <1>11 DEF Inv, KeyInv, PollInv, KillsOnlyStopped, SharesNumber,
     tableVars, traceVars

LEMMA SpawnFailsInv ==
    ASSUME Inv, NEW j \in Jobs, SpawnFails(j)
    PROVE  Inv'
<1>1. /\ jobs[j].status = "pending"
      /\ \/ jobs' = [jobs EXCEPT ![j] = Failed(jobs[j])]
         \/ jobs' = [jobs EXCEPT ![j].status = "running"]
      /\ UNCHANGED <<tableVars, agentVars, traceVars>>
  BY DEF SpawnFails, Inv, Shapes
<1>2. /\ jobs' \in [Jobs -> Job]
      /\ jobs'[j].runs = jobs[j].runs
      /\ \/ jobs'[j].status = "pending" /\ jobs'[j].retries = jobs[j].retries + 1
         \/ jobs'[j].status # "pending" /\ jobs'[j].retries = jobs[j].retries
      /\ \A i \in Jobs \ {j} : jobs'[i] = jobs[i]
  <2>1. CASE jobs' = [jobs EXCEPT ![j] = Failed(jobs[j])]
    BY <2>1, FailedJob DEF Inv, Shapes
  <2>2. CASE jobs' = [jobs EXCEPT ![j].status = "running"]
    BY <2>2 DEF Inv, Shapes, Job
  <2> QED
    BY <1>1, <2>1, <2>2
<1>3. Shapes'
  BY <1>1, <1>2 DEF Inv, Shapes, tableVars, agentVars, traceVars
<1>4. \A i \in Jobs : /\ jobs'[i].runs = jobs[i].runs
                      /\ jobs[i].status = "running" => jobs'[i].status = "running"
  BY <1>1, <1>2
<1>5. Paid'
  <2>1. jobs[j] \in Job /\ jobs[j].runs <= jobs[j].retries
    BY <1>1 DEF Inv, Shapes, RunInv, Paid
  <2>2. jobs'[j].runs <= jobs'[j].retries + 1
        /\ (jobs'[j].status = "pending" => jobs'[j].runs <= jobs'[j].retries)
    BY <1>2, <2>1 DEF Job, maxJobRetries
  <2> QED
    BY <1>2, <2>2 DEF Inv, RunInv, Paid
<1>6. Counted' /\ Ended'
  <2>1. UNCHANGED <<tasks, procs>>
    BY <1>1 DEF agentVars
  <2>2. ASSUME NEW r \in Runs, r.run > jobs'[r.job].runs
        PROVE  tasks'[r].pc = "none" /\ procs'[r] = "none"
    <3>1. r.run > jobs[r.job].runs
      BY <1>4, <2>2, JobAndRun
    <3> QED
      BY <2>1, <3>1 DEF Inv, RunInv, Counted
  <2> QED
    BY <2>1, <2>2 DEF Inv, RunInv, Counted, Ended
<1>7. Awaited'
  <2>1. \A r \in Runs : tasks'[r].pc \in Active =>
            r.run = jobs[r.job].runs /\ jobs[r.job].status = "running"
    BY <1>1 DEF Inv, RunInv, Awaited, agentVars
  <2> SUFFICES ASSUME NEW r \in Runs, tasks'[r].pc \in Active
               PROVE  r.run = jobs'[r.job].runs /\ jobs'[r.job].status = "running"
    BY DEF Awaited
  <2>2. r.job \in Jobs
    BY JobAndRun
  <2> QED
    BY <1>4, <2>1, <2>2
<1> QED
  BY <1>1, <1>3, <1>5, <1>6, <1>7
  DEF Inv, RunInv, KeyInv, GivenInv, CreateInv, RowInv, PollInv, KillsOnlyStopped, SharesNumber, At,
      tableVars, agentVars, traceVars

LEMMA RegisterLostInv ==
    ASSUME Inv, NEW r \in Runs, RegisterLost(r)
    PROVE  Inv'
<1>1. /\ tasks[r].pc = "registering" /\ Go(r, "waiting")
      /\ unheard' = unheard \cup {r}
      /\ UNCHANGED <<seq, rows, creating, saveFaults>>
      /\ UNCHANGED <<procs, pids, polled, jobs, given, stopped, killed>>
  BY DEF RegisterLost, At, tableVars
<1>2. /\ tasks' \in [Runs -> Task]
      /\ tasks'[r].pc = "waiting" /\ tasks'[r].svc = tasks[r].svc
      /\ \A q \in Runs \ {r} : tasks'[q] = tasks[q]
  BY <1>1, GoEffect DEF Inv, Active
<1>3. Shapes'
  BY <1>1, <1>2 DEF Inv, Shapes
<1>4. RunInv'
  BY <1>1, <1>2 DEF Inv, RunInv, Counted, Awaited, Ended, Paid, Active
<1>5. GivenInv'
  BY <1>1, <1>2 DEF Inv, GivenInv
<1>6. CreateInv'
  BY <1>1, <1>2 DEF Inv, Shapes, CreateInv, At
<1>7. RowInv'
  BY <1>1, <1>2, RowRuns DEF Inv, RowInv
<1> QED
  BY <1>1, <1>3, <1>4, <1>5, <1>6, <1>7
  DEF Inv, KeyInv, PollInv, KillsOnlyStopped, SharesNumber

LEMMA TakeNumberInv ==
    ASSUME Inv, NEW r \in Runs, TakeNumber(r)
    PROVE  Inv'
<1> DEFINE c == [id |-> seq + 1, run |-> r]
<1>1. /\ tasks[r].pc = "registering" /\ seq < MaxSeq /\ Go(r, "numbered")
      /\ seq' = seq + 1
      /\ creating' = creating \cup {c} /\ given' = given \cup {c}
      /\ UNCHANGED <<rows, saveFaults>>
      /\ UNCHANGED <<procs, pids, polled, jobs, stopped, killed, unheard>>
  BY DEF TakeNumber, At
<1>2. /\ c \in [id : Ids, run : Runs] /\ c.run = r /\ seq' \in 0 .. MaxSeq
  BY <1>1, ServicesConstants DEF Inv, Shapes, Ids
<1> HIDE DEF c
<1>3. /\ tasks' \in [Runs -> Task]
      /\ tasks'[r].pc = "numbered" /\ tasks'[r].svc = tasks[r].svc
      /\ \A q \in Runs \ {r} : tasks'[q] = tasks[q]
  BY <1>1, GoEffect DEF Inv, Active
<1>4. Shapes'
  BY <1>1, <1>2, <1>3 DEF Inv, Shapes
<1>5. RunInv'
  BY <1>1, <1>3 DEF Inv, RunInv, Counted, Awaited, Ended, Paid, Active
<1>6. GivenInv'
  BY <1>1, <1>3 DEF Inv, GivenInv
<1>7. CreateInv'
  <2>1. \A d \in creating : d.run \in Runs /\ d.run # r
    BY <1>1 DEF Inv, Shapes, CreateInv, At
  <2>2. \A k \in DOMAIN rows : rows[k].run # r
    BY <1>1 DEF Inv, CreateInv
  <2> QED
    BY <1>1, <1>2, <1>3, <2>1, <2>2 DEF Inv, CreateInv, At
<1>8. RowInv'
  BY <1>1, <1>3, RowRuns DEF Inv, RowInv
<1>9. PollInv' /\ KillsOnlyStopped'
  BY <1>1 DEF Inv, PollInv, KillsOnlyStopped, SharesNumber
<1> QED
  BY <1>1, <1>4, <1>5, <1>6, <1>7, <1>8, <1>9 DEF Inv, KeyInv

LEMMA ProcessEndsInv ==
    ASSUME Inv, NEW r \in Runs, ProcessEnds(r)
    PROVE  Inv'
<1>1. /\ procs[r] = "alive"
      /\ procs' \in {[procs EXCEPT ![r] = s] : s \in {"ok", "error"}}
      /\ UNCHANGED <<tableVars, tasks, pids, polled, jobs, traceVars>>
  BY DEF ProcessEnds
<1>2. /\ procs' \in [Runs -> {"none", "alive", "ok", "error"}]
      /\ procs'[r] # "alive" /\ \A q \in Runs \ {r} : procs'[q] = procs[q]
  BY <1>1 DEF Inv, Shapes
<1>3. RunInv'
  BY <1>1, <1>2 DEF Inv, RunInv, Counted, Awaited, Ended, Paid
<1> QED
  BY <1>1, <1>2, <1>3
  DEF Inv, Shapes, KeyInv, GivenInv, CreateInv, RowInv, PollInv, KillsOnlyStopped, SharesNumber,
      At, tableVars, traceVars

LEMMA ReapInv ==
    ASSUME Inv, NEW r \in Runs, Reap(r)
    PROVE  Inv'
<1> DEFINE pc == IF tasks[r].svc = None THEN "reporting" ELSE "patching"
<1>1. /\ tasks[r].pc = "waiting" /\ procs[r] # "alive" /\ Go(r, pc)
      /\ pids' \subseteq pids
      /\ UNCHANGED <<tableVars, procs, polled, jobs, traceVars>>
  BY DEF Reap, At
<1>2. /\ pc \in {"reporting", "patching"}
      /\ tasks[r].svc \in Ids => pc = "patching"
  BY DEF Ids, None
<1> HIDE DEF pc
<1>3. /\ tasks' \in [Runs -> Task]
      /\ tasks'[r].pc = pc /\ tasks'[r].svc = tasks[r].svc
      /\ \A q \in Runs \ {r} : tasks'[q] = tasks[q]
  BY <1>1, <1>2, GoEffect DEF Inv, Active
<1>4. Shapes'
  BY <1>1, <1>3 DEF Inv, Shapes, tableVars, traceVars
<1>5. RunInv'
  BY <1>1, <1>2, <1>3 DEF Inv, RunInv, Counted, Awaited, Ended, Paid, Active
<1>6. GivenInv'
  BY <1>1, <1>3 DEF Inv, GivenInv, tableVars, traceVars
<1>7. CreateInv'
  BY <1>1, <1>2, <1>3 DEF Inv, Shapes, CreateInv, At, tableVars, traceVars
<1>8. RowInv'
  BY <1>1, <1>2, <1>3, RowRuns DEF Inv, RowInv, tableVars, traceVars
<1> QED
  BY <1>1, <1>4, <1>5, <1>6, <1>7, <1>8
  DEF Inv, KeyInv, PollInv, KillsOnlyStopped, SharesNumber, tableVars, traceVars

\* What saving the row of a handler makes of the table.
LEMMA UpsertEffect ==
    ASSUME Inv, NEW c \in creating
    PROVE  /\ Upsert(c) \in Seq(Service)
           /\ \A k \in DOMAIN Upsert(c) :
                 \/ /\ Upsert(c)[k].id = c.id /\ Upsert(c)[k].run = c.run
                    /\ Upsert(c)[k].status = "running"
                 \/ k \in DOMAIN rows /\ rows[k].id # c.id /\ Upsert(c)[k] = rows[k]
           /\ \A k, m \in DOMAIN Upsert(c) : Upsert(c)[k].id = Upsert(c)[m].id => k = m
           /\ \A k \in DOMAIN rows : k \in DOMAIN Upsert(c) /\ Upsert(c)[k].id = rows[k].id
<1> DEFINE row == [id |-> c.id, run |-> c.run, status |-> "running"]
<1>1. row \in Service /\ row.id = c.id /\ row.run = c.run /\ row.status = "running"
  BY DEF Inv, Shapes, Service
<1> HIDE DEF row
<1>2. CASE Saved(c.id)
  <2>1. Upsert(c) = [k \in DOMAIN rows |-> IF rows[k].id = c.id THEN row ELSE rows[k]]
    BY <1>2 DEF Upsert, row
  <2>2. Upsert(c) \in Seq(Service)
    BY <1>1, <2>1 DEF Inv, Shapes
  <2> QED
    BY <1>1, <2>1, <2>2 DEF Inv, KeyInv
<1>3. CASE ~Saved(c.id)
  <2>1. Upsert(c) = Append(rows, row)
    BY <1>3 DEF Upsert, row
  <2>2. \A k \in DOMAIN rows : rows[k].id # c.id
    BY <1>3 DEF Saved
  <2>3. rows \in Seq(Service)
    BY DEF Inv, Shapes
  <2>4. /\ DOMAIN rows = 1 .. Len(rows) /\ Len(rows) \in Nat
        /\ DOMAIN Append(rows, row) = 1 .. Len(rows) + 1
        /\ Append(rows, row)[Len(rows) + 1] = row
        /\ \A k \in DOMAIN rows : Append(rows, row)[k] = rows[k]
    BY <1>1, <2>3
  <2>5. \A k \in DOMAIN Append(rows, row) : k \in DOMAIN rows \/ k = Len(rows) + 1
    BY <2>4
  <2>6. Append(rows, row) \in Seq(Service)
    BY <1>1, <2>3
  <2> QED
    BY <1>1, <2>1, <2>2, <2>4, <2>5, <2>6 DEF Inv, KeyInv
<1> QED
  BY <1>2, <1>3

LEMMA SaveServiceInv ==
    ASSUME Inv, NEW c \in creating, SaveService(c)
    PROVE  Inv'
<1>1. /\ creating' = creating \ {c}
      /\ \/ rows' = Upsert(c) /\ UNCHANGED saveFaults
         \/ /\ saveFaults < MaxFailedSaves /\ saveFaults' = saveFaults + 1
            /\ UNCHANGED rows
      /\ UNCHANGED <<seq, procs, polled, jobs, given, stopped, killed>>
  BY DEF SaveService
<1>2. \/ ~At(c.run, "numbered") /\ UNCHANGED <<tasks, pids, unheard>>
      \/ /\ At(c.run, "numbered")
         /\ tasks' = [tasks EXCEPT ![c.run] = [pc |-> "waiting", svc |-> c.id]]
         /\ pids' = {p \in pids : p.id # c.id} \cup {c}
         /\ UNCHANGED unheard
      \/ /\ At(c.run, "numbered") /\ Go(c.run, "waiting")
         /\ unheard' = unheard \cup {c.run}
         /\ UNCHANGED pids
  BY DEF SaveService
<1>3. c.run \in Runs /\ c.id \in Ids /\ c \in given /\ c = [id |-> c.id, run |-> c.run]
  BY DEF Inv, Shapes, GivenInv
\* The task goes on if it waits, and then knows the number or was not heard.
<1>4. /\ tasks' \in [Runs -> Task]
      /\ \A q \in Runs \ {c.run} : tasks'[q] = tasks[q]
      /\ \/ /\ tasks'[c.run] = tasks[c.run] /\ tasks[c.run].pc = "over"
            /\ c.run \in unheard /\ unheard' = unheard
         \/ /\ tasks[c.run].pc = "numbered" /\ tasks'[c.run].pc = "waiting"
            /\ tasks'[c.run].svc = c.id /\ unheard' = unheard
         \/ /\ tasks[c.run].pc = "numbered" /\ tasks'[c.run].pc = "waiting"
            /\ tasks'[c.run].svc = tasks[c.run].svc
            /\ unheard' = unheard \cup {c.run}
  <2>1. CASE ~At(c.run, "numbered")
    BY <1>2, <1>3, <2>1 DEF Inv, Shapes, CreateInv, At
  <2>2. CASE tasks' = [tasks EXCEPT ![c.run] = [pc |-> "waiting", svc |-> c.id]]
             /\ At(c.run, "numbered") /\ UNCHANGED unheard
    <3>1. [pc |-> "waiting", svc |-> c.id] \in Task
      BY <1>3 DEF Task
    <3> QED
      BY <1>3, <2>2, <3>1 DEF Inv, Shapes, At
  <2>3. CASE /\ At(c.run, "numbered") /\ Go(c.run, "waiting")
             /\ unheard' = unheard \cup {c.run}
    BY <1>3, <2>3, GoEffect DEF Inv, Active, At
  <2> QED
    BY <1>2, <2>1, <2>2, <2>3
<1>5. unheard \subseteq unheard' /\ unheard' \subseteq Runs
  BY <1>3, <1>4 DEF Inv, Shapes
<1>6. pids' \subseteq pids \cup {c}
  BY <1>2
<1>7. /\ rows' \in Seq(Service)
      /\ \A k \in DOMAIN rows' :
            \/ rows'[k].id = c.id /\ rows'[k].run = c.run /\ rows'[k].status = "running"
            \/ k \in DOMAIN rows /\ rows'[k] = rows[k]
      /\ KeyInv'
  BY <1>1, UpsertEffect DEF Inv, Shapes, KeyInv
<1>8. Shapes'
  <2>1. saveFaults' \in 0 .. MaxFailedSaves
    BY <1>1, ServicesConstants DEF Inv, Shapes
  <2>2. pids' \subseteq [id : Ids, run : Runs] /\ creating' \subseteq [id : Ids, run : Runs]
    BY <1>1, <1>6 DEF Inv, Shapes
  <2> QED
    BY <1>1, <1>4, <1>5, <1>7, <2>1, <2>2 DEF Inv, Shapes
<1>9. RunInv'
  BY <1>1, <1>3, <1>4 DEF Inv, RunInv, Counted, Awaited, Ended, Paid, Active
<1>10. GivenInv'
  <2>1. \A r \in Runs : tasks'[r].svc # None => [id |-> tasks'[r].svc, run |-> r] \in given
    BY <1>3, <1>4 DEF Inv, GivenInv
  <2>2. \A k \in DOMAIN rows' : [id |-> rows'[k].id, run |-> rows'[k].run] \in given
    BY <1>3, <1>7 DEF Inv, GivenInv
  <2> QED
    BY <1>1, <1>3, <1>6, <2>1, <2>2 DEF Inv, GivenInv
<1>11. CreateInv'
  <2>1. \A d \in creating' : d.run \in Runs /\ d.run # c.run /\ d \in creating
    BY <1>1 DEF Inv, Shapes, CreateInv
  <2>2. \A d \in creating' : At(d.run, "numbered")' \/ (At(d.run, "over")' /\ d.run \in unheard')
    BY <1>4, <1>5, <2>1 DEF Inv, CreateInv, At
  <2>3. \A d \in creating' : \A k \in DOMAIN rows' :
            ~(rows'[k].id = d.id /\ rows'[k].run = d.run)
    BY <1>7, <2>1 DEF Inv, CreateInv
  <2>4. \A r \in Runs : tasks'[r].pc \in {"none", "registering", "numbered"} =>
            \A k \in DOMAIN rows' : rows'[k].run # r
    BY <1>4, <1>7 DEF Inv, CreateInv
  <2> QED
    BY <1>1, <2>2, <2>3, <2>4 DEF Inv, CreateInv
<1>12. RowInv'
  <2> SUFFICES ASSUME NEW k \in DOMAIN rows'
               PROVE  /\ rows'[k].status = "stopped" => rows'[k].run \in stopped
                      /\ rows'[k].status = "running" /\ rows'[k].run \notin unheard' =>
                            /\ tasks'[rows'[k].run].pc \in {"waiting", "patching"}
                            /\ tasks'[rows'[k].run].svc = rows'[k].id
    BY <1>1 DEF RowInv
  <2>1. CASE rows'[k].id = c.id /\ rows'[k].run = c.run /\ rows'[k].status = "running"
    BY <1>4, <1>5, <2>1
  <2>2. CASE k \in DOMAIN rows /\ rows'[k] = rows[k]
    <3>1. rows[k].run \in Runs
      BY <2>2, RowRuns DEF Inv
    <3>2. CASE rows[k].run = c.run
      \* A task with a number has no row yet, and one that is over is not heard.
      BY <1>4, <1>5, <2>2, <3>1, <3>2 DEF Inv, CreateInv, RowInv
    <3>3. CASE rows[k].run # c.run
      BY <1>4, <1>5, <2>2, <3>1, <3>3 DEF Inv, RowInv
    <3> QED
      BY <3>2, <3>3
  <2> QED
    BY <1>7, <2>1, <2>2
<1> QED
  BY <1>1, <1>7, <1>8, <1>9, <1>10, <1>11, <1>12
  DEF Inv, PollInv, KillsOnlyStopped, SharesNumber

LEMMA NotifySchedulerInv ==
    ASSUME Inv, NEW r \in Runs, NotifyScheduler(r)
    PROVE  Inv'
<1> DEFINE j == r.job
<1>1. /\ tasks[r].pc = "reporting" /\ Go(r, "over")
      /\ \/ jobs' = [jobs EXCEPT ![j] = [jobs[j] EXCEPT !.status = "done"]]
         \/ jobs' = [jobs EXCEPT ![j] = Failed(jobs[j])]
         \/ UNCHANGED jobs
      /\ UNCHANGED <<tableVars, procs, pids, polled, traceVars>>
  BY JobAndRun DEF NotifyScheduler, At, Inv, Shapes
<1>2. j \in Jobs
  BY JobAndRun
<1> HIDE DEF j
<1>3. /\ tasks' \in [Runs -> Task]
      /\ tasks'[r].pc = "over" /\ tasks'[r].svc = tasks[r].svc
      /\ \A q \in Runs \ {r} : tasks'[q] = tasks[q]
  BY <1>1, GoEffect DEF Inv, Active
<1>4. /\ jobs' \in [Jobs -> Job]
      /\ jobs'[j].runs = jobs[j].runs
      /\ \/ jobs'[j].status = "pending" /\ jobs'[j].retries = jobs[j].retries + 1
         \/ jobs'[j].status # "pending" /\ jobs'[j].retries = jobs[j].retries
         \/ jobs'[j] = jobs[j]
      /\ \A i \in Jobs \ {j} : jobs'[i] = jobs[i]
  <2>1. jobs[j] \in Job
    BY <1>2 DEF Inv, Shapes
  <2>2. CASE jobs' = [jobs EXCEPT ![j] = [jobs[j] EXCEPT !.status = "done"]]
    BY <1>2, <2>1, <2>2 DEF Inv, Shapes, Job
  <2>3. CASE jobs' = [jobs EXCEPT ![j] = Failed(jobs[j])]
    BY <1>2, <2>1, <2>3, FailedJob DEF Inv, Shapes
  <2> QED
    BY <1>1, <2>2, <2>3 DEF Inv, Shapes
<1>5. Shapes'
  BY <1>1, <1>3, <1>4 DEF Inv, Shapes, tableVars, traceVars
<1>6. \A i \in Jobs : jobs'[i].runs = jobs[i].runs
  BY <1>4
<1>7. Counted' /\ Ended'
  <2>1. \A q \in Runs : q.job \in Jobs
    BY JobAndRun
  <2> QED
    BY <1>1, <1>3, <1>6, <2>1 DEF Inv, RunInv, Counted, Ended, Awaited, Active
<1>8. Awaited'
  <2> SUFFICES ASSUME NEW q \in Runs, tasks'[q].pc \in Active
               PROVE  q.run = jobs'[q.job].runs /\ jobs'[q.job].status = "running"
    BY DEF Awaited
  <2>1. q # r /\ tasks[q].pc \in Active
    BY <1>3 DEF Active
  <2>2. /\ q.run = jobs[q.job].runs /\ jobs[q.job].status = "running"
        /\ r.run = jobs[r.job].runs
    BY <1>1, <2>1 DEF Inv, RunInv, Awaited, Active
  <2>3. q.job # j
    BY <2>1, <2>2 DEF Runs, j
  <2> QED
    BY <1>4, <2>2, <2>3, JobAndRun
<1>9. Paid'
  <2>1. /\ jobs[j] \in Job /\ jobs'[j] \in Job
        /\ jobs[j].runs <= jobs[j].retries + 1
        /\ jobs[j].status = "pending" => jobs[j].runs <= jobs[j].retries
    BY <1>2, <1>4 DEF Inv, Shapes, RunInv, Paid
  <2>2. /\ jobs'[j].runs <= jobs'[j].retries + 1
        /\ jobs'[j].status = "pending" => jobs'[j].runs <= jobs'[j].retries
    BY <1>4, <2>1 DEF Job, maxJobRetries
  <2> QED
    BY <1>4, <2>2 DEF Inv, RunInv, Paid
<1>10. GivenInv'
  BY <1>1, <1>3 DEF Inv, GivenInv, tableVars, traceVars
<1>11. CreateInv'
  BY <1>1, <1>3 DEF Inv, Shapes, CreateInv, At, tableVars, traceVars
<1>12. RowInv'
  BY <1>1, <1>3, RowRuns DEF Inv, RowInv, tableVars, traceVars
<1> QED
  BY <1>1, <1>5, <1>7, <1>8, <1>9, <1>10, <1>11, <1>12
  DEF Inv, RunInv, KeyInv, PollInv, KillsOnlyStopped, SharesNumber, tableVars, traceVars

\* What an update of the status makes of the table.
LEMMA UpdateEffect ==
    ASSUME Shapes, NEW id, NEW s \in {"running", "stopped", "done", "crashed"},
           UpdateStatus(id, s)
    PROVE  /\ rows' \in Seq(Service) /\ DOMAIN rows' = DOMAIN rows
           /\ \A k \in DOMAIN rows :
                 /\ rows'[k].id = rows[k].id /\ rows'[k].run = rows[k].run
                 /\ rows'[k].status = IF rows[k].id = id THEN s ELSE rows[k].status
<1>1. \A k \in DOMAIN rows : rows[k] \in Service
  BY DEF Shapes
<1>2. \A row \in Service : /\ [row EXCEPT !.status = s] \in Service
                           /\ [row EXCEPT !.status = s].id = row.id
                           /\ [row EXCEPT !.status = s].run = row.run
                           /\ [row EXCEPT !.status = s].status = s
  BY DEF Service
<1>3. rows' = [k \in DOMAIN rows |->
                  IF rows[k].id = id THEN [rows[k] EXCEPT !.status = s] ELSE rows[k]]
  BY DEF UpdateStatus
<1>4. \A k \in DOMAIN rows : rows'[k] \in Service
  BY <1>1, <1>2, <1>3
<1>5. DOMAIN rows = 1 .. Len(rows) /\ Len(rows) \in Nat
  BY DEF Shapes
<1>6. rows' \in [1 .. Len(rows) -> Service]
  BY <1>3, <1>4, <1>5
<1> QED
  BY <1>1, <1>2, <1>3, <1>5, <1>6

LEMMA NotifyRegistryInv ==
    ASSUME Inv, NEW r \in Runs, NotifyRegistry(r)
    PROVE  Inv'
<1>1. /\ tasks[r].pc = "patching" /\ Go(r, "reporting")
      /\ unheard \subseteq unheard' /\ unheard' \subseteq Runs
      /\ UNCHANGED <<seq, creating, saveFaults, procs, pids, polled, jobs, given, stopped, killed>>
  BY DEF NotifyRegistry, At, Inv, Shapes
<1>2. /\ rows' \in Seq(Service) /\ DOMAIN rows' = DOMAIN rows
      /\ \A k \in DOMAIN rows :
            /\ rows'[k].id = rows[k].id /\ rows'[k].run = rows[k].run
            /\ rows'[k].status \in {rows[k].status, "done", "crashed"}
      /\ r \in unheard' \/ \A k \in DOMAIN rows :
                              rows[k].id = tasks[r].svc => rows'[k].status \in {"done", "crashed"}
  <2>1. CASE UpdateStatus(tasks[r].svc, IF procs[r] = "ok" THEN "done" ELSE "crashed")
    <3>1. (IF procs[r] = "ok" THEN "done" ELSE "crashed") \in {"done", "crashed"}
      OBVIOUS
    <3> QED
      BY <2>1, <3>1, UpdateEffect DEF Inv
  <2>2. CASE unheard' = unheard \cup {r} /\ UNCHANGED rows
    BY <2>2 DEF Inv, Shapes
  <2> QED
    BY <2>1, <2>2 DEF NotifyRegistry
<1>3. /\ tasks' \in [Runs -> Task]
      /\ tasks'[r].pc = "reporting" /\ tasks'[r].svc = tasks[r].svc
      /\ \A q \in Runs \ {r} : tasks'[q] = tasks[q]
  BY <1>1, GoEffect DEF Inv, Active
<1>4. Shapes'
  BY <1>1, <1>2, <1>3 DEF Inv, Shapes
<1>5. KeyInv'
  BY <1>2 DEF Inv, KeyInv
<1>6. RunInv'
  BY <1>1, <1>3 DEF Inv, RunInv, Counted, Awaited, Ended, Paid, Active
<1>7. GivenInv'
  BY <1>1, <1>2, <1>3 DEF Inv, GivenInv
<1>8. CreateInv'
  BY <1>1, <1>2, <1>3 DEF Inv, Shapes, CreateInv, At
<1>9. RowInv'
  <2> SUFFICES ASSUME NEW k \in DOMAIN rows
               PROVE  /\ rows'[k].status = "stopped" => rows'[k].run \in stopped
                      /\ rows'[k].status = "running" /\ rows'[k].run \notin unheard' =>
                            /\ tasks'[rows'[k].run].pc \in {"waiting", "patching"}
                            /\ tasks'[rows'[k].run].svc = rows'[k].id
    BY <1>1, <1>2 DEF RowInv
  <2>1. rows[k].run \in Runs
    BY RowRuns DEF Inv
  <2>2. rows'[k].status = "stopped" => rows'[k].run \in stopped
    BY <1>2 DEF Inv, RowInv
  <2>3. CASE rows[k].run = r
    BY <1>1, <1>2, <2>2, <2>3 DEF Inv, RowInv
  <2>4. CASE rows[k].run # r
    BY <1>1, <1>2, <1>3, <2>1, <2>2, <2>4 DEF Inv, RowInv
  <2> QED
    BY <2>3, <2>4
<1> QED
  BY <1>1, <1>4, <1>5, <1>6, <1>7, <1>8, <1>9
  DEF Inv, PollInv, KillsOnlyStopped, SharesNumber

LEMMA StopServiceInv ==
    ASSUME Inv, NEW id \in Ids, StopService(id)
    PROVE  Inv'
<1>1. /\ UpdateStatus(id, "stopped")
      /\ stopped' = stopped \cup {rows[k].run : k \in {k \in DOMAIN rows : rows[k].id = id}}
      /\ UNCHANGED <<seq, creating, saveFaults, agentVars, jobs, given, killed, unheard>>
  BY DEF StopService
<1>2. /\ rows' \in Seq(Service) /\ DOMAIN rows' = DOMAIN rows
      /\ \A k \in DOMAIN rows :
            /\ rows'[k].id = rows[k].id /\ rows'[k].run = rows[k].run
            /\ rows'[k].status = IF rows[k].id = id THEN "stopped" ELSE rows[k].status
  BY <1>1, UpdateEffect DEF Inv
<1>3. stopped \subseteq stopped' /\ stopped' \subseteq Runs
  BY <1>1, RowRuns DEF Inv, Shapes
<1>4. Shapes'
  BY <1>1, <1>2, <1>3 DEF Inv, Shapes, agentVars
<1>5. KeyInv' /\ GivenInv'
  BY <1>1, <1>2 DEF Inv, KeyInv, GivenInv, agentVars
<1>6. RunInv' /\ CreateInv'
  BY <1>1, <1>2 DEF Inv, RunInv, Counted, Awaited, Ended, Paid, CreateInv, At, agentVars
<1>7. RowInv'
  BY <1>1, <1>2 DEF Inv, RowInv, agentVars
<1>8. PollInv' /\ KillsOnlyStopped'
  BY <1>1, <1>3 DEF Inv, PollInv, KillsOnlyStopped, SharesNumber, agentVars
<1> QED
  BY <1>4, <1>5, <1>6, <1>7, <1>8 DEF Inv

LEMMA PollStoppedInv ==
    ASSUME Inv, PollStopped
    PROVE  Inv'
<1>1. /\ polled' = StoppedIds
      /\ UNCHANGED <<tableVars, tasks, procs, pids, jobs, traceVars>>
  BY DEF PollStopped
<1>2. polled' \subseteq Ids
  BY <1>1, RowRuns DEF Inv, StoppedIds
<1>3. PollInv'
  <2> SUFFICES ASSUME NEW id \in StoppedIds
               PROVE  \E g \in given : g.id = id /\ g.run \in stopped
    BY <1>1 DEF PollInv, traceVars
  <2>1. PICK k \in DOMAIN rows : rows[k].status = "stopped" /\ rows[k].id = id
    BY DEF StoppedIds
  <2>2. [id |-> id, run |-> rows[k].run] \in given /\ rows[k].run \in stopped
    BY <2>1 DEF Inv, GivenInv, RowInv
  <2> QED
    BY <2>2
<1> QED
  BY <1>1, <1>2, <1>3
  DEF Inv, Shapes, KeyInv, RunInv, Counted, Awaited, Ended, Paid, GivenInv, CreateInv, RowInv,
      KillsOnlyStopped, SharesNumber, At, tableVars, traceVars

LEMMA KillStoppedInv ==
    ASSUME Inv, NEW id \in Ids, KillStopped(id)
    PROVE  Inv'
<1>1. /\ id \in polled /\ polled' = polled \ {id}
      /\ killed' = killed \cup {p.run : p \in {p \in pids : p.id = id}}
      /\ pids' = {p \in pids : p.id # id}
      /\ UNCHANGED <<tableVars, tasks, procs, jobs, given, stopped, unheard>>
  BY DEF KillStopped
<1>2. KillsOnlyStopped'
  <2> SUFFICES ASSUME NEW p \in pids, p.id = id
               PROVE  p.run \in stopped \/ SharesNumber(p.run)
    BY <1>1 DEF Inv, KillsOnlyStopped, SharesNumber
  <2>1. PICK g \in given : g.id = id /\ g.run \in stopped
    BY <1>1 DEF Inv, PollInv
  <2>2. p \in given
    BY DEF Inv, GivenInv
  <2> QED
    BY <2>1, <2>2 DEF SharesNumber
<1>3. Shapes'
  BY <1>1 DEF Inv, Shapes, tableVars
<1> QED
  BY <1>1, <1>2, <1>3
  DEF Inv, KeyInv, RunInv, Counted, Awaited, Ended, Paid, GivenInv, CreateInv, RowInv, PollInv,
      At, tableVars

LEMMA AgentCrashInv ==
    ASSUME Inv, AgentCrash
    PROVE  Inv'
<1>1. /\ tasks' = [r \in Runs |->
                      IF tasks[r].pc \in {"none", "over"} THEN tasks[r]
                      ELSE [tasks[r] EXCEPT !.pc = "over"]]
      /\ unheard' = unheard \cup {r \in Runs : tasks[r].pc \notin {"none", "over"}}
      /\ pids' = {} /\ polled' = {}
      /\ UNCHANGED <<tableVars, procs, jobs, given, stopped, killed>>
  BY DEF AgentCrash
<1>2. /\ tasks' \in [Runs -> Task]
      /\ \A r \in Runs : /\ tasks'[r].svc = tasks[r].svc
                         /\ \/ tasks[r].pc = "none" /\ tasks'[r].pc = "none"
                            \/ tasks[r].pc = "over" /\ tasks'[r].pc = "over"
                            \/ tasks'[r].pc = "over" /\ r \in unheard'
  <2>1. \A t \in Task : [t EXCEPT !.pc = "over"] \in Task
                        /\ [t EXCEPT !.pc = "over"].svc = t.svc
                        /\ [t EXCEPT !.pc = "over"].pc = "over"
    BY DEF Task
  <2> QED
    BY <1>1, <2>1 DEF Inv, Shapes
<1>3. Shapes'
  BY <1>1, <1>2 DEF Inv, Shapes, tableVars
<1>4. RunInv'
  BY <1>1, <1>2 DEF Inv, RunInv, Counted, Awaited, Ended, Paid, Active
<1>5. GivenInv'
  BY <1>1, <1>2 DEF Inv, GivenInv, tableVars
<1>6. CreateInv'
  <2>1. \A c \in creating : c.run \in Runs
    BY DEF Inv, Shapes
  <2> QED
    BY <1>1, <1>2, <2>1 DEF Inv, CreateInv, At, tableVars
<1>7. RowInv'
  BY <1>1, <1>2, RowRuns DEF Inv, RowInv, tableVars
<1> QED
  BY <1>1, <1>3, <1>4, <1>5, <1>6, <1>7
  DEF Inv, KeyInv, PollInv, KillsOnlyStopped, SharesNumber, tableVars

LEMMA ServicesRestartInv ==
    ASSUME Inv, ServicesRestart
    PROVE  Inv'
<1>1. /\ seq' = IF rows = <<>> THEN 0 ELSE rows[Len(rows)].id
      /\ creating' = {}
      /\ tasks' = [r \in Runs |-> IF At(r, "numbered") THEN [tasks[r] EXCEPT !.pc = "waiting"]
                                  ELSE tasks[r]]
      /\ unheard' = unheard \cup {r \in Runs : At(r, "numbered")}
      /\ UNCHANGED <<rows, saveFaults, procs, pids, polled, jobs, given, stopped, killed>>
  BY DEF ServicesRestart
<1>2. seq' \in 0 .. MaxSeq
  <2>1. CASE rows = <<>>
    BY <1>1, <2>1, ServicesConstants
  <2>2. CASE rows # <<>>
    <3>1. Len(rows) \in DOMAIN rows
      BY <2>2 DEF Inv, Shapes
    <3> QED
      BY <1>1, <2>2, <3>1, RowRuns, ServicesConstants DEF Inv, Ids
  <2> QED
    BY <2>1, <2>2
<1>3. /\ tasks' \in [Runs -> Task]
      /\ \A r \in Runs : /\ tasks'[r].svc = tasks[r].svc
                         /\ \/ tasks[r].pc # "numbered" /\ tasks'[r].pc = tasks[r].pc
                            \/ /\ tasks[r].pc = "numbered" /\ tasks'[r].pc = "waiting"
                               /\ r \in unheard'
  <2>1. \A t \in Task : [t EXCEPT !.pc = "waiting"] \in Task
                        /\ [t EXCEPT !.pc = "waiting"].svc = t.svc
                        /\ [t EXCEPT !.pc = "waiting"].pc = "waiting"
    BY DEF Task
  <2> QED
    BY <1>1, <2>1 DEF Inv, Shapes, At
<1>4. Shapes'
  BY <1>1, <1>2, <1>3 DEF Inv, Shapes
<1>5. RunInv'
  BY <1>1, <1>3 DEF Inv, RunInv, Counted, Awaited, Ended, Paid, Active
<1>6. GivenInv'
  BY <1>1, <1>3 DEF Inv, GivenInv
<1>7. CreateInv'
  BY <1>1, <1>3 DEF Inv, CreateInv
<1>8. RowInv'
  BY <1>1, <1>3, RowRuns DEF Inv, RowInv
<1> QED
  BY <1>1, <1>4, <1>5, <1>6, <1>7, <1>8
  DEF Inv, KeyInv, PollInv, KillsOnlyStopped, SharesNumber

LEMMA NextInv ==
    ASSUME Inv, [ServicesNext]_serviceVars
    PROVE  Inv'
<1>1. ASSUME NEW r \in Runs, TaskStep(r) PROVE Inv'
  BY <1>1, RegisterLostInv, TakeNumberInv, ReapInv, NotifyRegistryInv, NotifySchedulerInv
  DEF TaskStep
<1>2. CASE UNCHANGED serviceVars
  BY <1>2
  DEF serviceVars, tableVars, agentVars, traceVars, Inv, Shapes, KeyInv, RunInv, Counted, Awaited,
      Ended, Paid, GivenInv, CreateInv, RowInv, PollInv, KillsOnlyStopped, SharesNumber, At
<1> QED
  BY <1>1, <1>2, SpawnInv, SpawnFailsInv, ProcessEndsInv, SaveServiceInv, StopServiceInv,
     KillStoppedInv, PollStoppedInv, AgentCrashInv, ServicesRestartInv
  DEF ServicesNext

LEMMA ServicesInvariant == ServicesSpec => []Inv
BY InitInv, NextInv, PTL DEF ServicesSpec

\* The ids are a key, so that the table has no more rows than there are ids.
LEMMA InvTypes == Inv => ServicesTypeOK
<1> SUFFICES ASSUME Inv PROVE Len(rows) <= MaxSeq
  BY DEF Inv, Shapes, ServicesTypeOK
<1> DEFINE f == [k \in 1 .. Len(rows) |-> rows[k].id]
<1>1. Len(rows) \in Nat /\ DOMAIN rows = 1 .. Len(rows)
  BY DEF Inv, Shapes
<1>2. f \in [1 .. Len(rows) -> 1 .. MaxSeq]
  BY <1>1, RowRuns DEF Inv, Ids
<1>3. f \in Injection(1 .. Len(rows), 1 .. MaxSeq)
  BY <1>1, <1>2 DEF Inv, KeyInv, Injection, IsInjective
<1>4. ASSUME NEW n \in Nat
      PROVE  IsFiniteSet(1 .. n) /\ Cardinality(1 .. n) = n
  <2>1. /\ IsFiniteSet(1 .. n)
        /\ Cardinality(1 .. n) = IF 1 > n THEN 0 ELSE n - 1 + 1
    BY FS_Interval
  <2> QED
    BY <2>1
<1> QED
  BY <1>1, <1>3, <1>4, ServicesConstants, FS_Injection

-----------------------------------------------------------------------------
\* Tables, tasks, processes and the agent's map keep their types, whatever is
\* lost, crashes or restarts; in particular the table never has two rows with
\* one id (services.go, run_service).
THEOREM ServicesKeepTypes == ServicesSpec => []ServicesTypeOK
BY ServicesInvariant, InvTypes, PTL

\* A signal goes to the process of a stopped service or to one that shares its
\* number, however old the list is that kill_stopped_services works off.
THEOREM PollerKillsStopped == ServicesSpec => []KillsOnlyStopped
BY ServicesInvariant, PTL DEF Inv

\* Rows that say running for ever stem from lost calls and crashes of the agent
\* (run_service, notify_registry).
THEOREM RowsAreCorrected == ServicesSpec => []StaleRowsExplained
<1>1. Inv => StaleRowsExplained
  BY DEF Inv, RowInv, StaleRowsExplained, At
<1> QED
  BY <1>1, ServicesInvariant, PTL

\* The one retry of updateJob brings a stopped service back once at most.
THEOREM StoppedTwiceIsOver == ServicesSpec => []SecondStopFinal
<1>1. ASSUME Inv, NEW r \in stopped, NEW s \in stopped, r.job = s.job, r.run < s.run,
             NEW t \in Runs, t.job = s.job, t.run > s.run
      PROVE  procs[t] = "none"
  <2>1. /\ r \in Runs /\ s \in Runs /\ t.job \in Jobs
        /\ r.run \in Nat \ {0} /\ s.run \in Nat /\ t.run \in Nat
    BY <1>1, JobAndRun DEF Inv, Shapes
  <2>2. jobs[t.job] \in Job /\ jobs[t.job].runs <= jobs[t.job].retries + 1
    BY <1>1, <2>1 DEF Inv, Shapes, RunInv, Paid
  <2>3. jobs[t.job].runs <= 2 /\ jobs[t.job].runs \in Nat
    BY <2>2 DEF Job, maxJobRetries
  <2> QED
    BY <1>1, <2>1, <2>3 DEF Inv, RunInv, Counted
<1>2. Inv => SecondStopFinal
  BY <1>1 DEF SecondStopFinal
<1> QED
  BY <1>2, ServicesInvariant, PTL

\* While a process lives, no report, save or restart takes the mark "stopped"
\* off its service (ServiceStore.Save, UpdateStatus).
THEOREM StopMarksHold == ServicesSpec => StopHolds
<1>1. ASSUME Inv, [ServicesNext]_serviceVars, NEW r \in Runs,
             StoppedRow(r), procs[r] = "alive", ~SharesNumber(r)
      PROVE  StoppedRow(r)'
  <2>1. PICK k \in DOMAIN rows : rows[k].run = r /\ rows[k].status = "stopped"
    BY <1>1 DEF StoppedRow
  <2>2. [id |-> rows[k].id, run |-> r] \in given
    BY <1>1, <2>1 DEF Inv, GivenInv
  <2> SUFFICES k \in DOMAIN rows' /\ rows'[k].run = r /\ rows'[k].status = "stopped"
    BY DEF StoppedRow
  <2>3. CASE UNCHANGED rows
    BY <2>1, <2>3
  <2>4. ASSUME NEW c \in creating, rows' = Upsert(c) PROVE k \in DOMAIN rows' /\ rows'[k] = rows[k]
    \* A handler for this process has not saved its row yet, and one for
    \* another has another number.
    <3>1. c \in given /\ (c.id = rows[k].id => c.run # r)
      BY <1>1, <2>1 DEF Inv, GivenInv, CreateInv
    <3>2. c.id # rows[k].id
      BY <1>1, <2>2, <3>1 DEF SharesNumber
    <3>3. k \in DOMAIN Upsert(c) /\ Upsert(c)[k].id = rows[k].id
      BY <1>1, UpsertEffect
    <3> QED
      BY <1>1, <2>4, <3>2, <3>3, UpsertEffect
  <2>5. ASSUME NEW q \in Runs, NotifyRegistry(q)
        PROVE  k \in DOMAIN rows' /\ rows'[k].run = r /\ rows'[k].status = "stopped"
    <3>1. CASE UNCHANGED rows
      BY <2>1, <3>1
    <3>2. CASE UpdateStatus(tasks[q].svc, IF procs[q] = "ok" THEN "done" ELSE "crashed")
      <4>1. q # r
        BY <1>1, <2>5 DEF NotifyRegistry, At, Inv, RunInv, Ended
      <4>2. tasks[q].svc # rows[k].id
        <5>1. tasks[q].svc # None => [id |-> tasks[q].svc, run |-> q] \in given
          BY <1>1 DEF Inv, GivenInv
        <5>2. rows[k].id # None
          BY <1>1, RowRuns DEF Inv, Ids, None
        <5> QED
          BY <1>1, <2>2, <4>1, <5>1, <5>2 DEF SharesNumber
      <4> QED
        BY <1>1, <2>1, <3>2, <4>2, UpdateEffect DEF Inv
    <3> QED
      BY <2>5, <3>1, <3>2 DEF NotifyRegistry
  <2>6. ASSUME NEW id \in Ids, StopService(id)
        PROVE  k \in DOMAIN rows' /\ rows'[k].run = r /\ rows'[k].status = "stopped"
    <3>1. UpdateStatus(id, "stopped")
      BY <2>6 DEF StopService
    <3> QED
      BY <1>1, <2>1, <3>1, UpdateEffect DEF Inv
  <2> QED
    BY <1>1, <2>1, <2>3, <2>4, <2>5, <2>6
    DEF ServicesNext, TaskStep, Spawn, SpawnFails, RegisterLost, TakeNumber, SaveService,
        ProcessEnds, Reap, NotifyScheduler, KillStopped, PollStopped, AgentCrash, ServicesRestart,
        serviceVars, tableVars, agentVars, traceVars
<1>2. Inv /\ [ServicesNext]_serviceVars =>
          [\A r \in Runs :
              StoppedRow(r) /\ procs[r] = "alive" /\ ~SharesNumber(r)
              => StoppedRow(r)']_serviceVars
  BY <1>1
<1> QED
  BY <1>2, ServicesInvariant, PTL DEF ServicesSpec, StopHolds
=============================================================================
