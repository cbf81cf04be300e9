--------------------------- MODULE SchedulerProofs ---------------------------
(***************************************************************************)
(* Proofs about Scheduler, for every number of nodes, clients and jobs.    *)
(***************************************************************************)
EXTENDS Scheduler, TLAPS

-----------------------------------------------------------------------------
\* The rows a Save writes are those of the new table or the old database.
LEMMA SaveTypeOK ==
    ASSUME NEW ids, Save(ids),
           jobs' \in [JobIds -> Job \cup {NoJob}],
           db \in [JobIds -> Job \cup {NoJob}]
    PROVE  db' \in [JobIds -> Job \cup {NoJob}]
BY DEF Save

\* When saves do not fail, saving the entries that changed keeps the database
\* equal to the map.
LEMMA SaveInSync ==
    ASSUME NEW ids \in SUBSET JobIds, Save(ids), ~SavesMayFail, db = jobs,
           jobs \in [JobIds -> Job \cup {NoJob}],
           jobs' \in [JobIds -> Job \cup {NoJob}],
           \A id \in JobIds \ ids : jobs'[id] = jobs[id]
    PROVE  db' = jobs'
<1>1. PICK lost \in SUBSET ids :
          /\ lost = {}
          /\ db' = [id \in JobIds |-> IF id \in ids \ lost THEN jobs'[id] ELSE db[id]]
  BY DEF Save
<1>2. \A id \in JobIds : db'[id] = jobs'[id]
  BY <1>1
<1>3. db' = [id \in JobIds |-> jobs'[id]]
  BY <1>1, <1>2
<1> QED
  BY <1>3

\* The three ways in which an entry of the table is rewritten keep its type.
LEMMA JobTypes ==
    ASSUME NEW job \in Job, NEW s \in PatchStatus, NEW x \in {"nil", "ok", "error"}
    PROVE  /\ Reported(job, s, x) \in Job
           /\ TimedOut(job) \in Job
           /\ job.retry < MaxJobRetries => Requeued(job) \in Job
<1>1. (job.finished \/ s \in Finished) \in BOOLEAN
  OBVIOUS
<1>2. (IF x = "nil" THEN job.exit ELSE x) \in {"nil", "ok", "error"}
  BY DEF Job
<1>3. Reported(job, s, x) \in Job
  BY <1>1, <1>2 DEF Job, Reported
<1>4. TimedOut(job) \in Job
  BY DEF Job, TimedOut, PatchStatus, Finished
<1>5. ASSUME job.retry < MaxJobRetries PROVE Requeued(job) \in Job
  <2>1. job.retry + 1 \in 0 .. MaxJobRetries
    BY <1>5, SchedulerConstants DEF Job
  <2> QED
    BY <2>1 DEF Job, Requeued
<1> QED
  BY <1>3, <1>4, <1>5

\* What a rewritten entry keeps, and what it becomes.
LEMMA JobFields ==
    ASSUME NEW job \in Job, NEW s, NEW x
    PROVE  /\ Requeued(job).request = job.request
           /\ Requeued(job).node = job.node
           /\ Requeued(job).kind = job.kind
           /\ Requeued(job).retry = job.retry + 1
           /\ Requeued(job).status = "pending"
           /\ Reported(job, s, x).request = job.request
           /\ Reported(job, s, x).node = job.node
           /\ Reported(job, s, x).kind = job.kind
           /\ Reported(job, s, x).retry = job.retry
           /\ Reported(job, s, x).status = s
           /\ TimedOut(job).request = job.request
           /\ TimedOut(job).node = job.node
           /\ TimedOut(job).kind = job.kind
           /\ TimedOut(job).retry = job.retry
           /\ TimedOut(job).status = "failed"
BY DEF Job, Requeued, Reported, TimedOut

LEMMA NewJobType ==
    ASSUME NEW s \in Submission
    PROVE  NewJob(s) \in Job
BY SchedulerConstants DEF Job, NewJob, Submission

LEMMA KnownJobs ==
    ASSUME TypeOK, NEW id \in Known
    PROVE  id \in JobIds /\ jobs[id] \in Job
BY DEF TypeOK, Known, Rows

LEMMA InitTypeOK == Init => TypeOK
BY SchedulerConstants DEF Init, TypeOK, JobIds

LEMMA NextTypeOK == TypeOK /\ [Next]_schedulerVars => TypeOK'
<1> SUFFICES ASSUME TypeOK, [Next]_schedulerVars PROVE TypeOK'
  OBVIOUS
<1> USE SchedulerConstants
<1>1. ASSUME NEW r \in Requests, NEW n \in Nodes, NEW k \in {"run", "service"},
             AllocateId(r, n, k)
      PROVE  TypeOK'
  <2>1. jobSeq' \in 0 .. MaxSeq /\ jobSeq' \in JobIds
    BY <1>1 DEF AllocateId, TypeOK, JobIds
  <2>2. submits' \subseteq Submission
    BY <1>1, <2>1 DEF AllocateId, TypeOK, Submission
  <2> QED
    BY <1>1, <2>1, <2>2 DEF AllocateId, TypeOK
<1>2. ASSUME NEW s \in submits, InsertJob(s)
      PROVE  TypeOK'
  <2>1. s \in Submission /\ s.id \in JobIds /\ s.request \in Requests
    BY DEF TypeOK, Submission
  <2>2. jobs' \in [JobIds -> Job \cup {NoJob}]
    BY <1>2, <2>1, NewJobType DEF InsertJob, TypeOK
  <2>3. db' \in [JobIds -> Job \cup {NoJob}]
    BY <1>2, <2>2, SaveTypeOK DEF InsertJob, TypeOK
  <2>4. receipts' \subseteq [id : JobIds, request : Requests]
    BY <1>2, <2>1 DEF InsertJob, TypeOK
  <2> QED
    BY <1>2, <2>2, <2>3, <2>4 DEF InsertJob, TypeOK
<1>3. ASSUME NEW id \in JobIds, NEW s \in PatchStatus, NEW x \in {"nil", "ok", "error"},
             UpdateJob(id, s, x)
      PROVE  TypeOK'
  <2>1. jobs[id] \in Job
    BY <1>3, KnownJobs DEF UpdateJob, MayRetry
  <2>2. jobs' \in [JobIds -> Job \cup {NoJob}]
    BY <1>3, <2>1, JobTypes DEF UpdateJob, MayRetry, TypeOK
  <2>3. db' \in [JobIds -> Job \cup {NoJob}]
    BY <1>3, <2>2, SaveTypeOK DEF UpdateJob, MayRetry, TypeOK
  <2>4. notices' \subseteq [id : JobIds, status : Finished]
    BY <1>3 DEF UpdateJob, MayRetry, TypeOK
  <2> QED
    BY <1>3, <2>2, <2>3, <2>4 DEF UpdateJob, MayRetry, TypeOK
<1>4. ASSUME NEW overdue \in SUBSET JobIds, WatchJobTimeouts(overdue)
      PROVE  TypeOK'
  <2>1. \A id \in overdue : TimedOut(jobs[id]) \in Job
    BY <1>4, KnownJobs, JobTypes DEF WatchJobTimeouts, WithStatus, PatchStatus, Finished
  <2>2. jobs' \in [JobIds -> Job \cup {NoJob}]
    BY <1>4, <2>1 DEF WatchJobTimeouts, TypeOK
  <2>3. db' \in [JobIds -> Job \cup {NoJob}]
    BY <1>4, <2>2, SaveTypeOK DEF WatchJobTimeouts, TypeOK
  <2> QED
    BY <1>4, <2>2, <2>3 DEF WatchJobTimeouts, TypeOK
<1>5. CASE Restart
  BY <1>5 DEF Restart, TypeOK
<1>6. CASE UNCHANGED schedulerVars
  BY <1>6 DEF schedulerVars, TypeOK
<1> QED
  BY <1>1, <1>2, <1>3, <1>4, <1>5, <1>6 DEF Next

\* The table, the database, the counter, the open submissions, the receipts
\* and the notices keep their types; in particular no retry count exceeds
\* maxJobRetries and no number exceeds the counter's range.
THEOREM SchedulerTypeOK == Spec => []TypeOK
BY InitTypeOK, NextTypeOK, PTL DEF Spec

-----------------------------------------------------------------------------
(* Numbering.  FreshIds is inductive together with the types, whether or   *)
(* not saves fail: a restart throws the open submissions away and puts the *)
(* counter on the highest number the reloaded table holds.                 *)

LEMMA InitFreshIds == Init => FreshIds
BY DEF Init, FreshIds, Known, Rows

\* What each action does to the entries of the table.
LEMMA UpdateEntry ==
    ASSUME TypeOK, NEW id \in JobIds, NEW s \in PatchStatus,
           NEW x \in {"nil", "ok", "error"}, UpdateJob(id, s, x)
    PROVE  /\ id \in Known
           /\ jobs[id] \in Job /\ jobs'[id] \in Job
           /\ \/ /\ s = "failed" /\ jobs[id].retry < MaxJobRetries
                 /\ jobs'[id] = Requeued(jobs[id])
              \/ /\ s = "failed" => ~(jobs[id].retry < MaxJobRetries)
                 /\ jobs'[id] = Reported(jobs[id], s, x)
           /\ \A i \in JobIds \ {id} : jobs'[i] = jobs[i]
           /\ Known' = Known
<1>1. id \in Known /\ jobs[id] \in Job
  BY KnownJobs DEF UpdateJob, MayRetry
<1>2. /\ jobs'[id] \in Job
      /\ \/ /\ s = "failed" /\ jobs[id].retry < MaxJobRetries
            /\ jobs'[id] = Requeued(jobs[id])
         \/ /\ s = "failed" => ~(jobs[id].retry < MaxJobRetries)
            /\ jobs'[id] = Reported(jobs[id], s, x)
  BY <1>1, JobTypes DEF UpdateJob, MayRetry, TypeOK
<1>3. \A i \in JobIds \ {id} : jobs'[i] = jobs[i]
  BY DEF UpdateJob, MayRetry, TypeOK
<1>4. Known' = Known
  BY <1>1, <1>2, <1>3, SchedulerConstants DEF Known, Rows
<1> QED
  BY <1>1, <1>2, <1>3, <1>4

LEMMA TimeoutEntries ==
    ASSUME TypeOK, NEW overdue \in SUBSET JobIds, WatchJobTimeouts(overdue)
    PROVE  /\ overdue \subseteq Known
           /\ \A id \in overdue : jobs'[id] = TimedOut(jobs[id]) /\ jobs'[id] \in Job
           /\ \A id \in JobIds \ overdue : jobs'[id] = jobs[id]
           /\ Known' = Known
<1>1. overdue \subseteq Known
  BY DEF WatchJobTimeouts, WithStatus
<1>2. \A id \in overdue : TimedOut(jobs[id]) \in Job
  BY <1>1, KnownJobs, JobTypes DEF PatchStatus, Finished
<1>3. \A id \in overdue : jobs'[id] = TimedOut(jobs[id]) /\ jobs'[id] \in Job
  BY <1>2 DEF WatchJobTimeouts
<1>4. \A id \in JobIds \ overdue : jobs'[id] = jobs[id]
  BY DEF WatchJobTimeouts
<1>5. Known' = Known
  BY <1>1, <1>3, <1>4, SchedulerConstants DEF Known, Rows
<1> QED
  BY <1>1, <1>3, <1>4, <1>5

LEMMA InsertEntry ==
    ASSUME TypeOK, FreshIds, NEW s \in submits, InsertJob(s)
    PROVE  /\ s.id \in JobIds \ Known
           /\ jobs'[s.id] = NewJob(s) /\ jobs'[s.id] \in Job
           /\ \A i \in JobIds \ {s.id} : jobs'[i] = jobs[i]
           /\ Known' = Known \cup {s.id}
<1>1. s \in Submission /\ s.id \in JobIds \ Known
  BY DEF TypeOK, Submission, FreshIds
<1>2. jobs'[s.id] = NewJob(s) /\ jobs'[s.id] \in Job
  BY <1>1, NewJobType DEF InsertJob, TypeOK
<1>3. \A i \in JobIds \ {s.id} : jobs'[i] = jobs[i]
  BY DEF InsertJob, TypeOK
<1>4. Known' = Known \cup {s.id}
  BY <1>1, <1>2, <1>3, SchedulerConstants DEF Known, Rows
<1> QED
  BY <1>1, <1>2, <1>3, <1>4

LEMMA NextFreshIds == TypeOK /\ FreshIds /\ [Next]_schedulerVars => FreshIds'
<1> SUFFICES ASSUME TypeOK, FreshIds, [Next]_schedulerVars PROVE FreshIds'
  OBVIOUS
<1>1. ASSUME NEW r \in Requests, NEW n \in Nodes, NEW k \in {"run", "service"},
             AllocateId(r, n, k)
      PROVE  FreshIds'
  <2>1. Known' = Known /\ Known \subseteq JobIds
    BY <1>1 DEF AllocateId, Known, Rows
  <2>2. PICK new : new.id = jobSeq + 1 /\ submits' = submits \cup {new}
    BY <1>1 DEF AllocateId
  <2>3. jobSeq' = jobSeq + 1 /\ jobSeq \in Nat
    BY <1>1, SchedulerConstants DEF AllocateId, TypeOK
  <2>4. \A s \in submits : s.id \in Nat /\ s.id <= jobSeq
    BY SchedulerConstants DEF TypeOK, Submission, FreshIds, JobIds
  <2>5. \A id \in Known : id \in Nat /\ id <= jobSeq
    BY <2>1, SchedulerConstants DEF FreshIds, JobIds
  <2> QED
    BY <2>1, <2>2, <2>3, <2>4, <2>5 DEF FreshIds
<1>2. ASSUME NEW s \in submits, InsertJob(s)
      PROVE  FreshIds'
  <2>1. Known' = Known \cup {s.id}
    BY <1>2, InsertEntry
  <2>2. submits' = submits \ {s} /\ jobSeq' = jobSeq
    BY <1>2 DEF InsertJob
  <2> QED
    BY <2>1, <2>2 DEF FreshIds
<1>3. ASSUME NEW id \in JobIds, NEW s \in PatchStatus, NEW x \in {"nil", "ok", "error"},
             UpdateJob(id, s, x)
      PROVE  FreshIds'
  <2>1. Known' = Known
    BY <1>3, UpdateEntry
  <2> QED
    BY <1>3, <2>1 DEF UpdateJob, MayRetry, FreshIds
<1>4. ASSUME NEW overdue \in SUBSET JobIds, WatchJobTimeouts(overdue)
      PROVE  FreshIds'
  <2>1. Known' = Known
    BY <1>4, TimeoutEntries
  <2> QED
    BY <1>4, <2>1 DEF WatchJobTimeouts, FreshIds
<1>5. CASE Restart
  BY <1>5 DEF Restart, FreshIds, HighestSeq, Known, Rows
<1>6. CASE UNCHANGED schedulerVars
  BY <1>6 DEF schedulerVars, FreshIds, Known, Rows
<1> QED
  BY <1>1, <1>2, <1>3, <1>4, <1>5, <1>6 DEF Next

\* No two open submissions ever hold the same number, nor one the table has
\* used, however handlers and crashes interleave and whatever saves fail.
THEOREM NumbersAreFresh == Spec => []FreshIds
<1>1. TypeOK /\ FreshIds /\ [Next]_schedulerVars => (TypeOK /\ FreshIds)'
  BY NextTypeOK, NextFreshIds
<1> QED
  BY <1>1, InitTypeOK, InitFreshIds, PTL DEF Spec

-----------------------------------------------------------------------------
(* Durability.  When saves do not fail, the database and the map are equal *)
(* whenever jobsMu is free, so a restart changes no entry.                 *)

DbInSync == db = jobs

LEMMA NextDbInSync ==
    TypeOK /\ FreshIds /\ DbInSync /\ ~SavesMayFail /\ [Next]_schedulerVars => DbInSync'
<1> SUFFICES ASSUME TypeOK, FreshIds, db = jobs, ~SavesMayFail, [Next]_schedulerVars
             PROVE  db' = jobs'
  BY DEF DbInSync
<1>0. jobs \in [JobIds -> Job \cup {NoJob}] /\ jobs' \in [JobIds -> Job \cup {NoJob}]
  BY NextTypeOK DEF TypeOK
<1>1. ASSUME NEW r \in Requests, NEW n \in Nodes, NEW k \in {"run", "service"},
             AllocateId(r, n, k)
      PROVE  db' = jobs'
  BY <1>1 DEF AllocateId
<1>2. ASSUME NEW s \in submits, InsertJob(s)
      PROVE  db' = jobs'
  <2>1. {s.id} \in SUBSET JobIds /\ \A id \in JobIds \ {s.id} : jobs'[id] = jobs[id]
    BY <1>2, InsertEntry
  <2>2. Save({s.id})
    BY <1>2 DEF InsertJob
  <2> QED
    BY <1>0, <2>1, <2>2, SaveInSync
<1>3. ASSUME NEW id \in JobIds, NEW s \in PatchStatus, NEW x \in {"nil", "ok", "error"},
             UpdateJob(id, s, x)
      PROVE  db' = jobs'
  <2>1. {id} \in SUBSET JobIds /\ \A i \in JobIds \ {id} : jobs'[i] = jobs[i]
    BY <1>3, UpdateEntry
  <2>2. Save({id})
    BY <1>3 DEF UpdateJob, MayRetry
  <2> QED
    BY <1>0, <2>1, <2>2, SaveInSync
<1>4. ASSUME NEW overdue \in SUBSET JobIds, WatchJobTimeouts(overdue)
      PROVE  db' = jobs'
  <2>1. Save(overdue) /\ \A id \in JobIds \ overdue : jobs'[id] = jobs[id]
    BY <1>4, TimeoutEntries DEF WatchJobTimeouts
  <2> QED
    BY <1>0, <2>1, SaveInSync
<1>5. CASE Restart
  BY <1>5 DEF Restart
<1>6. CASE UNCHANGED schedulerVars
  BY <1>6 DEF schedulerVars
<1> QED
  BY <1>1, <1>2, <1>3, <1>4, <1>5, <1>6 DEF Next

LEMMA NextReceipts ==
    ASSUME TypeOK, FreshIds, DbInSync, DbInSync', ReceiptsHonoured, [Next]_schedulerVars
    PROVE  ReceiptsHonoured'
<1> SUFFICES ASSUME NEW c \in receipts'
             PROVE  jobs'[c.id] # NoJob /\ jobs'[c.id].request = c.request
  BY DEF ReceiptsHonoured, DbInSync
<1>0. \A d \in receipts : d.id \in Known /\ jobs[d.id].request = d.request
  BY DEF ReceiptsHonoured, TypeOK, Known, Rows
<1>1. ASSUME NEW r \in Requests, NEW n \in Nodes, NEW k \in {"run", "service"},
             AllocateId(r, n, k)
      PROVE  jobs'[c.id] # NoJob /\ jobs'[c.id].request = c.request
  BY <1>0, <1>1 DEF AllocateId, Known, Rows
<1>2. ASSUME NEW s \in submits, InsertJob(s)
      PROVE  jobs'[c.id] # NoJob /\ jobs'[c.id].request = c.request
  <2>1. /\ s.id \in JobIds \ Known
        /\ jobs'[s.id] = NewJob(s) /\ jobs'[s.id] \in Job
        /\ \A i \in JobIds \ {s.id} : jobs'[i] = jobs[i]
    BY <1>2, InsertEntry
  <2>2. CASE c \in receipts
    BY <1>0, <2>1, <2>2 DEF Known, Rows
  <2>3. CASE c = [id |-> s.id, request |-> s.request]
    BY <2>1, <2>3, SchedulerConstants DEF NewJob
  <2> QED
    BY <1>2, <2>2, <2>3 DEF InsertJob
<1>3. ASSUME NEW id \in JobIds, NEW s \in PatchStatus, NEW x \in {"nil", "ok", "error"},
             UpdateJob(id, s, x)
      PROVE  jobs'[c.id] # NoJob /\ jobs'[c.id].request = c.request
  <2>1. /\ id \in Known
        /\ jobs[id] \in Job /\ jobs'[id] \in Job
        /\ jobs'[id] = Requeued(jobs[id]) \/ jobs'[id] = Reported(jobs[id], s, x)
        /\ \A i \in JobIds \ {id} : jobs'[i] = jobs[i]
    BY <1>3, UpdateEntry
  <2>2. jobs'[id].request = jobs[id].request
    BY <2>1, JobFields
  <2>3. c \in receipts
    BY <1>3 DEF UpdateJob, MayRetry
  <2> QED
    BY <1>0, <2>1, <2>2, <2>3, SchedulerConstants DEF Known, Rows
<1>4. ASSUME NEW overdue \in SUBSET JobIds, WatchJobTimeouts(overdue)
      PROVE  jobs'[c.id] # NoJob /\ jobs'[c.id].request = c.request
  <2>1. /\ \A id \in overdue : jobs'[id] = TimedOut(jobs[id]) /\ jobs'[id] \in Job
        /\ \A id \in JobIds \ overdue : jobs'[id] = jobs[id]
        /\ overdue \subseteq Known
    BY <1>4, TimeoutEntries
  <2>2. \A id \in overdue : jobs'[id].request = jobs[id].request
    BY <2>1, KnownJobs, JobFields
  <2>3. c \in receipts
    BY <1>4 DEF WatchJobTimeouts
  <2> QED
    BY <1>0, <2>1, <2>2, <2>3, SchedulerConstants DEF Known, Rows
<1>5. CASE Restart
  BY <1>0, <1>5 DEF Restart, DbInSync, Known, Rows
<1>6. CASE UNCHANGED schedulerVars
  BY <1>0, <1>6 DEF schedulerVars, Known, Rows
<1> QED
  BY <1>1, <1>2, <1>3, <1>4, <1>5, <1>6 DEF Next

LEMMA NextNotices ==
    ASSUME TypeOK, FreshIds, DbInSync, FailureNoticesFinal, [Next]_schedulerVars
    PROVE  FailureNoticesFinal'
<1> SUFFICES ASSUME NEW m \in notices', m.status = "failed"
             PROVE  m.id \in Known' /\ jobs'[m.id].retry = MaxJobRetries
  BY DEF FailureNoticesFinal
<1> USE DEF FailureNoticesFinal
<1>1. ASSUME NEW r \in Requests, NEW n \in Nodes, NEW k \in {"run", "service"},
             AllocateId(r, n, k)
      PROVE  m.id \in Known' /\ jobs'[m.id].retry = MaxJobRetries
  BY <1>1 DEF AllocateId, Known, Rows
<1>2. ASSUME NEW s \in submits, InsertJob(s)
      PROVE  m.id \in Known' /\ jobs'[m.id].retry = MaxJobRetries
  <2>1. m \in notices /\ m.id \in Known /\ Known \subseteq JobIds
    BY <1>2 DEF InsertJob, Known, Rows
  <2> QED
    BY <1>2, <2>1, InsertEntry
<1>3. ASSUME NEW id \in JobIds, NEW s \in PatchStatus, NEW x \in {"nil", "ok", "error"},
             UpdateJob(id, s, x)
      PROVE  m.id \in Known' /\ jobs'[m.id].retry = MaxJobRetries
  <2>1. /\ id \in Known
        /\ jobs[id] \in Job
        /\ \/ jobs[id].retry < MaxJobRetries
           \/ /\ s = "failed" => ~(jobs[id].retry < MaxJobRetries)
              /\ jobs'[id] = Reported(jobs[id], s, x)
        /\ \A i \in JobIds \ {id} : jobs'[i] = jobs[i]
        /\ Known' = Known
    BY <1>3, UpdateEntry
  <2>2. jobs[id].retry \in 0 .. MaxJobRetries
    BY <2>1 DEF Job
  <2>3. CASE m \in notices
    <3>1. m.id \in Known /\ jobs[m.id].retry = MaxJobRetries /\ Known \subseteq JobIds
      BY <2>3 DEF Known, Rows
    <3>2. CASE m.id = id
      BY <2>1, <3>1, <3>2, JobFields, SchedulerConstants
    <3>3. CASE m.id # id
      BY <2>1, <3>1, <3>3
    <3> QED
      BY <3>2, <3>3
  <2>4. CASE m \notin notices
    <3>1. s = "failed" /\ m.id = id /\ ~(jobs[id].retry < MaxJobRetries)
      BY <1>3, <2>4 DEF UpdateJob, MayRetry
    <3>2. jobs'[id].retry = jobs[id].retry
      BY <2>1, <2>2, <3>1, JobFields, SchedulerConstants
    <3> QED
      BY <2>1, <2>2, <3>1, <3>2, SchedulerConstants
  <2> QED
    BY <2>3, <2>4
<1>4. ASSUME NEW overdue \in SUBSET JobIds, WatchJobTimeouts(overdue)
      PROVE  m.id \in Known' /\ jobs'[m.id].retry = MaxJobRetries
  <2>1. m \in notices /\ m.id \in Known /\ Known \subseteq JobIds
    BY <1>4 DEF WatchJobTimeouts, Known, Rows
  <2>2. CASE m.id \in overdue
    <3>1. jobs[m.id] \in Job
      BY <2>1, KnownJobs
    <3>2. jobs'[m.id] = TimedOut(jobs[m.id]) /\ Known' = Known
      BY <1>4, <2>2, TimeoutEntries
    <3> QED
      BY <2>1, <3>1, <3>2, JobFields
  <2>3. CASE m.id \notin overdue
    BY <1>4, <2>1, <2>3, TimeoutEntries
  <2> QED
    BY <2>2, <2>3
<1>5. CASE Restart
  BY <1>5 DEF Restart, DbInSync, Known, Rows
<1>6. CASE UNCHANGED schedulerVars
  BY <1>6 DEF schedulerVars, Known, Rows
<1> QED
  BY <1>1, <1>2, <1>3, <1>4, <1>5, <1>6 DEF Next

\* The inductive invariant behind durability.
DurableInv == TypeOK /\ FreshIds /\ DbInSync /\ ReceiptsHonoured /\ FailureNoticesFinal

LEMMA InitDurable == Init => DurableInv
BY InitTypeOK, InitFreshIds
   DEF Init, DurableInv, DbInSync, ReceiptsHonoured, FailureNoticesFinal

LEMMA NextDurable ==
    ASSUME ~SavesMayFail, DurableInv, [Next]_schedulerVars
    PROVE  DurableInv'
<1>1. TypeOK' /\ FreshIds' /\ DbInSync'
  BY NextTypeOK, NextFreshIds, NextDbInSync DEF DurableInv
<1> QED
  BY <1>1, NextReceipts, NextNotices DEF DurableInv

LEMMA Durable ==
    ASSUME ~SavesMayFail
    PROVE  Spec => []DurableInv
<1>1. DurableInv /\ [Next]_schedulerVars => DurableInv'
  BY NextDurable
<1> QED
  BY <1>1, InitDurable, PTL DEF Spec

\* When saves do not fail, a client that was told 201 finds its own job under
\* its id for ever, in memory and on disk, across crashes and for every number
\* of clients, nodes and jobs.
THEOREM AcceptedJobsSurvive ==
    ASSUME ~SavesMayFail
    PROVE  Spec => []ReceiptsHonoured
<1>1. DurableInv => ReceiptsHonoured
  BY DEF DurableInv
<1> QED
  BY <1>1, Durable, PTL

\* When saves do not fail, a failure is announced to the job-status topic only
\* of a job that will not be queued again.
THEOREM AnnouncedFailuresAreFinal ==
    ASSUME ~SavesMayFail
    PROVE  Spec => []FailureNoticesFinal
<1>1. DurableInv => FailureNoticesFinal
  BY DEF DurableInv
<1> QED
  BY <1>1, Durable, PTL

-----------------------------------------------------------------------------
(* Refinement of JobContract.                                              *)

LEMMA InitContract == Init => Contract!Init
BY DEF Init, Contract!Init, Known, Rows

LEMMA NextContract ==
    ASSUME DurableInv, [Next]_schedulerVars
    PROVE  [Contract!Next]_(Contract!contractVars)
<1> DEFINE Status == [id \in JobIds |-> IF id \in Known THEN jobs[id].status ELSE "absent"]
           Retries == [id \in JobIds |-> IF id \in Known THEN jobs[id].retry ELSE 0]
<1>0. TypeOK /\ FreshIds /\ db = jobs
  BY DEF DurableInv, DbInSync
<1>1. ASSUME NEW r \in Requests, NEW n \in Nodes, NEW k \in {"run", "service"},
             AllocateId(r, n, k)
      PROVE  Status' = Status /\ Retries' = Retries
  BY <1>1 DEF AllocateId, Known, Rows
<1>2. ASSUME NEW s \in submits, InsertJob(s)
      PROVE  Contract!Accept(s.id) /\ s.id \in JobIds
  <2>1. /\ s.id \in JobIds \ Known
        /\ jobs'[s.id] = NewJob(s)
        /\ \A i \in JobIds \ {s.id} : jobs'[i] = jobs[i]
        /\ Known' = Known \cup {s.id}
    BY <1>0, <1>2, InsertEntry
  <2>2. jobs'[s.id].status = "pending" /\ jobs'[s.id].retry = 0
    BY <2>1 DEF NewJob
  <2> QED
    BY <2>1, <2>2 DEF Contract!Accept
<1>3. ASSUME NEW id \in JobIds, NEW s \in PatchStatus, NEW x \in {"nil", "ok", "error"},
             UpdateJob(id, s, x)
      PROVE  \/ Contract!Requeue(id)
             \/ Contract!Fail(id)
             \/ s \in {"running", "done"} /\ Contract!Believe(id, s)
  <2>1. /\ id \in Known
        /\ jobs[id] \in Job
        /\ \/ s = "failed" /\ jobs[id].retry < MaxJobRetries /\ jobs'[id] = Requeued(jobs[id])
           \/ (s = "failed" => ~(jobs[id].retry < MaxJobRetries)) /\ jobs'[id] = Reported(jobs[id], s, x)
        /\ \A i \in JobIds \ {id} : jobs'[i] = jobs[i]
        /\ Known' = Known
    BY <1>0, <1>3, UpdateEntry
  <2>2. jobs[id].status # "absent"
    BY <2>1 DEF Job, PatchStatus, Finished
  <2>3. CASE s = "failed" /\ jobs[id].retry < MaxJobRetries
    <3>1. jobs'[id].status = "pending" /\ jobs'[id].retry = jobs[id].retry + 1
      BY <2>1, <2>3, JobFields, SchedulerConstants DEF Job
    <3> QED
      BY <2>1, <2>2, <2>3, <3>1 DEF Contract!Requeue
  <2>4. CASE ~(s = "failed" /\ jobs[id].retry < MaxJobRetries)
    <3>1. jobs'[id].status = s /\ jobs'[id].retry = jobs[id].retry
      BY <2>1, <2>4, JobFields
    <3>2. CASE s = "failed"
      <4>1. jobs[id].retry >= MaxJobRetries
        BY <2>1, <2>4, <3>2, SchedulerConstants DEF Job
      <4> QED
        BY <2>1, <2>2, <3>1, <3>2, <4>1 DEF Contract!Fail
    <3>3. CASE s \in {"running", "done"}
      BY <2>1, <2>2, <3>1, <3>3 DEF Contract!Believe
    <3> QED
      BY <3>2, <3>3 DEF PatchStatus, Finished
  <2> QED
    BY <2>3, <2>4
<1>4. ASSUME NEW overdue \in SUBSET JobIds, WatchJobTimeouts(overdue)
      PROVE  Contract!Expire(overdue)
  <2>1. \A id \in overdue : jobs[id].status = "running"
    BY <1>4 DEF WatchJobTimeouts, WithStatus
  <2>2. /\ overdue \subseteq Known /\ Known' = Known
        /\ \A id \in overdue : jobs'[id].status = "failed" /\ jobs'[id].retry = jobs[id].retry
        /\ \A id \in JobIds \ overdue : jobs'[id] = jobs[id]
    BY <1>0, <1>4, TimeoutEntries, KnownJobs, JobFields
  <2> QED
    BY <2>1, <2>2 DEF Contract!Expire
<1>5. ASSUME Restart
      PROVE  Status' = Status /\ Retries' = Retries
  BY <1>0, <1>5 DEF Restart, Known, Rows
<1>6. ASSUME UNCHANGED schedulerVars
      PROVE  Status' = Status /\ Retries' = Retries
  BY <1>6 DEF schedulerVars, Known, Rows
<1>7. CASE \E s \in submits : InsertJob(s)
  BY <1>2, <1>7 DEF Contract!Next
<1>8. CASE \E id \in JobIds, s \in PatchStatus, x \in {"nil", "ok", "error"} : UpdateJob(id, s, x)
  BY <1>3, <1>8 DEF Contract!Next
<1>9. CASE \E overdue \in SUBSET JobIds : WatchJobTimeouts(overdue)
  BY <1>4, <1>9 DEF Contract!Next
<1> QED
  BY <1>1, <1>5, <1>6, <1>7, <1>8, <1>9 DEF Next, Contract!contractVars

\* When saves do not fail, the scheduler with its two-step submissions, its
\* database and its crashes implements the contract, in which none of these
\* exist.
THEOREM ImplementsContract ==
    ASSUME ~SavesMayFail
    PROVE  Spec => ContractSpec
<1>1. DurableInv /\ [Next]_schedulerVars => [Contract!Next]_(Contract!contractVars)
  BY NextContract
<1> QED
  BY <1>1, InitContract, Durable, PTL DEF Spec, ContractSpec, Contract!Spec
=============================================================================
