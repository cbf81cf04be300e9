--------------------------- MODULE JobSystemProofs ---------------------------
(***************************************************************************)
(* Proofs about JobSystem, for every number of nodes, clients, jobs,       *)
(* retries and slots per node.                                             *)
(***************************************************************************)
EXTENDS JobSystem, SchedulerProofs, FiniteSetTheorems

\* Whatever the agents and the network do is for the scheduler one of its own
\* steps, or none.
LEMMA SchedulerStep ==
    ASSUME [SystemNext]_vars
    PROVE  [Next]_schedulerVars
<1>1. CASE Submit
  BY <1>1 DEF Submit, Next
<1>2. CASE SchedulerRestart
  BY <1>2 DEF SchedulerRestart, Next
<1>3. ASSUME NEW overdue \in SUBSET JobIds, Expire(overdue)
      PROVE  Next
  BY <1>3 DEF Expire, Next
<1>4. ASSUME NEW n \in Nodes, Poll(n) \/ GiveUp(n) \/ AgentCrash(n) \/ FleetChange(n)
      PROVE  UNCHANGED schedulerVars
  BY <1>4 DEF Poll, GiveUp, AgentCrash, FleetChange
<1>5. ASSUME NEW id \in JobIds, NEW w \in BOOLEAN, ServeMark(id, w)
      PROVE  Next
  <2>1. UpdateJob(id, "running", "nil")
    BY <1>5 DEF ServeMark
  <2>2. "running" \in PatchStatus /\ "nil" \in {"nil", "ok", "error"}
    BY DEF PatchStatus
  <2> QED
    BY <2>1, <2>2 DEF Next
<1>6. ASSUME NEW id \in JobIds, NEW s \in Finished, ServeReport(id, s)
      PROVE  Next
  <2> DEFINE x == IF s = "done" THEN "ok" ELSE "error"
  <2>1. UpdateJob(id, s, x)
    BY <1>6 DEF ServeReport
  <2>2. s \in PatchStatus /\ x \in {"nil", "ok", "error"}
    BY DEF PatchStatus
  <2> HIDE DEF x
  <2> QED
    BY <2>1, <2>2 DEF Next
<1>7. ASSUME NEW m \in patches, DropPatch(m)
      PROVE  UNCHANGED schedulerVars
  BY <1>7 DEF DropPatch
<1>8. ASSUME NEW p \in procs, NEW s \in Finished, Exit(p, s)
      PROVE  UNCHANGED schedulerVars
  BY <1>8 DEF Exit
<1>9. CASE UNCHANGED vars
  BY <1>9 DEF vars
<1> QED
  BY <1>1, <1>2, <1>3, <1>4, <1>5, <1>6, <1>7, <1>8, <1>9 DEF SystemNext

-----------------------------------------------------------------------------
LEMMA InitSystemTypeOK == SystemInit => SystemTypeOK
BY InitTypeOK, JobSystemConstants
   DEF SystemInit, SystemTypeOK, WorkerState, Idle

\* Sending workers back to their loop keeps the type of `worker`.
LEMMA GoIdleType ==
    ASSUME worker \in [Nodes -> WorkerState], NEW ns, GoIdle(ns)
    PROVE  worker' \in [Nodes -> WorkerState]
BY DEF GoIdle, WorkerState

\* So does giving up on an answer that of `patches`.
LEMMA AbandonType ==
    ASSUME patches \subseteq Patch, NEW n, Abandon(n)
    PROVE  patches' \subseteq Patch
<1>1. \A m \in patches : [m EXCEPT !.waited = FALSE] \in Patch
  BY DEF Patch
<1> QED
  BY <1>1 DEF Abandon

\* An abandoned request is still the same request, and a report stays as it is.
LEMMA AbandonedPatches ==
    ASSUME patches \subseteq Patch, NEW n, Abandon(n)
    PROVE  \A m \in patches' : \E k \in patches :
               m.job = k.job /\ m.status = k.status /\ (m.status \in Finished => m = k)
<1>1. \A k \in patches : /\ [k EXCEPT !.waited = FALSE].job = k.job
                         /\ [k EXCEPT !.waited = FALSE].status = k.status
                         /\ k.waited => k.status \notin Finished
  BY DEF Patch, Finished
<1> QED
  BY <1>1 DEF Abandon

LEMMA NextSystemTypeOK == SystemTypeOK /\ [SystemNext]_vars => SystemTypeOK'
<1> SUFFICES ASSUME SystemTypeOK, [SystemNext]_vars PROVE SystemTypeOK'
  OBVIOUS
<1>0. TypeOK'
  BY SchedulerStep, NextTypeOK DEF SystemTypeOK
<1> DEFINE AgentTypeOK == /\ worker \in [Nodes -> WorkerState]
                          /\ procs \subseteq Proc
                          /\ patches \subseteq Patch
                          /\ runs \in [JobIds -> 0 .. MaxRuns]
                          /\ expired \subseteq JobIds
                          /\ fleet \in [Nodes -> FleetViews]
<1> SUFFICES AgentTypeOK'
  BY <1>0 DEF SystemTypeOK
<1>T. AgentTypeOK /\ TypeOK
  BY DEF SystemTypeOK
<1>1. CASE Submit \/ SchedulerRestart
  BY <1>T, <1>1 DEF Submit, SchedulerRestart, agentVars
<1>2. ASSUME NEW overdue \in SUBSET JobIds, Expire(overdue)
      PROVE  AgentTypeOK'
  BY <1>T, <1>2 DEF Expire
<1>3. ASSUME NEW n \in Nodes, Poll(n)
      PROVE  AgentTypeOK'
  <2>1. PICK id \in JobIds :
            /\ worker' = [worker EXCEPT ![n] = [pc |-> "marking", job |-> id]]
            /\ patches' = patches \cup {Mark(id, TRUE)}
    BY <1>3 DEF Poll, Offered, OnNode, Known, Rows
  <2>2. Mark(id, TRUE) \in Patch
    BY DEF Mark, Patch, PatchStatus
  <2>3. worker' \in [Nodes -> WorkerState]
    BY <1>T, <2>1 DEF WorkerState
  <2> QED
    BY <1>T, <1>3, <2>1, <2>2, <2>3 DEF Poll
<1>4. ASSUME NEW n \in Nodes, GiveUp(n)
      PROVE  AgentTypeOK'
  BY <1>T, <1>4, GoIdleType, AbandonType DEF GiveUp
<1>5. ASSUME NEW n \in Nodes, AgentCrash(n)
      PROVE  AgentTypeOK'
  <2>1. PICK dead : procs' = {IF p.node = n THEN [p EXCEPT !.owned = FALSE] ELSE p :
                                 p \in procs \ dead}
    BY <1>5 DEF AgentCrash
  <2>2. \A p \in procs : [p EXCEPT !.owned = FALSE] \in Proc
    BY <1>T DEF Proc
  <2>3. procs' \subseteq Proc
    BY <1>T, <2>1, <2>2
  <2> QED
    BY <1>T, <1>5, <2>3, GoIdleType, AbandonType DEF AgentCrash
<1>6. ASSUME NEW n \in Nodes, FleetChange(n)
      PROVE  AgentTypeOK'
  BY <1>T, <1>6 DEF FleetChange
<1>7. ASSUME NEW id \in JobIds, NEW w \in BOOLEAN, ServeMark(id, w)
      PROVE  AgentTypeOK'
  <2>1. jobs[id] \in Job
    BY <1>T, <1>7, KnownJobs DEF ServeMark, UpdateJob
  <2>2. CASE /\ IF w THEN GoIdle(Waiting(id)) ELSE UNCHANGED worker
             /\ UNCHANGED <<procs, runs>>
    BY <1>T, <1>7, <2>2, GoIdleType DEF ServeMark
  <2>3. ASSUME NEW n \in Nodes, Start(n, id, jobs[id].kind)
        PROVE  AgentTypeOK'
    <3>1. runs[id] + 1 \in 1 .. MaxRuns /\ runs' = [runs EXCEPT ![id] = runs[id] + 1]
      BY <1>T, <2>3, JobSystemConstants DEF Start
    <3>2. jobs[id].kind \in {"run", "service"}
      BY <2>1 DEF Job
    <3>3. runs' \in [JobIds -> 0 .. MaxRuns] /\ runs'[id] \in 1 .. MaxRuns
      BY <1>T, <3>1, JobSystemConstants
    <3> DEFINE new == [job |-> id, run |-> runs'[id], node |-> n,
                       kind |-> jobs[id].kind, owned |-> TRUE]
    <3>6. new \in Proc
      BY <3>2, <3>3 DEF Proc
    <3>4. procs' \subseteq Proc
      BY <1>T, <2>3, <3>6 DEF Start
    <3>5. worker' \in [Nodes -> WorkerState]
      BY <1>T, <2>3 DEF Start, WorkerState
    <3> QED
      BY <1>T, <1>7, <3>3, <3>4, <3>5 DEF ServeMark
  <2> QED
    BY <1>7, <2>2, <2>3 DEF ServeMark, Waiting
<1>8. ASSUME NEW id \in JobIds, NEW s \in Finished, ServeReport(id, s)
      PROVE  AgentTypeOK'
  BY <1>T, <1>8 DEF ServeReport
<1>9. ASSUME NEW m \in patches, DropPatch(m)
      PROVE  AgentTypeOK'
  BY <1>T, <1>9, GoIdleType DEF DropPatch
<1>10. ASSUME NEW p \in procs, NEW s \in Finished, Exit(p, s)
       PROVE  AgentTypeOK'
  <2>1. Report(p.job, s) \in Patch
    BY <1>T DEF Report, Proc, Patch, PatchStatus
  <2>2. worker' \in [Nodes -> WorkerState]
    BY <1>T, <1>10, GoIdleType DEF Exit
  <2> QED
    BY <1>T, <1>10, <2>1, <2>2 DEF Exit
<1>11. CASE UNCHANGED vars
  BY <1>T, <1>11 DEF vars, agentVars
<1> QED
  BY <1>1, <1>2, <1>3, <1>4, <1>5, <1>6, <1>7, <1>8, <1>9, <1>10, <1>11 DEF SystemNext

\* Workers, processes, requests in flight and run counts keep their types,
\* and so does everything the scheduler keeps.
THEOREM JobSystemTypeOK == SystemSpec => []SystemTypeOK
BY InitSystemTypeOK, NextSystemTypeOK, PTL DEF SystemSpec

-----------------------------------------------------------------------------
(* What the nodes execute, when saves do not fail.  ExecInv is inductive   *)
(* together with the types and with DurableInv, which says that a restart  *)
(* brings back the table as it was.                                        *)

LEMMA JobSubsets ==
    ASSUME NEW S, NEW T \in SUBSET JobIds, S \subseteq T
    PROVE  /\ IsFiniteSet(S) /\ IsFiniteSet(T)
           /\ Cardinality(S) \in Nat /\ Cardinality(T) \in Nat
           /\ Cardinality(S) <= Cardinality(T)
<1>1. IsFiniteSet(JobIds)
  BY FS_Interval, SchedulerConstants DEF JobIds
<1>2. IsFiniteSet(T) /\ IsFiniteSet(S)
  BY <1>1, FS_Subset
<1> QED
  BY <1>2, FS_Subset, FS_CardinalityType

LEMMA OneMore ==
    ASSUME NEW S, IsFiniteSet(S), NEW e
    PROVE  Cardinality(S \cup {e}) <= Cardinality(S) + 1
<1>1. Cardinality(S) \in Nat
  BY FS_CardinalityType
<1>2. CASE e \in S
  <2>1. S \cup {e} = S
    BY <1>2
  <2> QED
    BY <1>1, <2>1
<1>3. CASE e \notin S
  <2>1. Cardinality(S \cup {e}) = Cardinality(S) + 1
    BY <1>3, FS_AddElement
  <2> QED
    BY <1>1, <2>1
<1> QED
  BY <1>2, <1>3

LEMMA InitExecInv == SystemInit => ExecInv
<1> SUFFICES ASSUME SystemInit PROVE ExecInv
  OBVIOUS
<1>1. procs = {} /\ patches = {} /\ Known = {}
  BY DEF SystemInit, Init, Known, Rows
<1>2. \A n \in Nodes : ExecutingOn(n) \ expired = {}
  BY <1>1 DEF ExecutingOn
<1>3. \A n \in Nodes : InUse(n) = 0
  BY <1>2, FS_EmptySet DEF InUse
<1>4. CapacityUnlessExpired
  BY <1>3, SchedulerConstants DEF CapacityUnlessExpired
<1>5. MarkingInv
  BY DEF SystemInit, MarkingInv, Idle
<1> QED
  BY <1>1, <1>4, <1>5
     DEF SystemInit, ExecInv, ProcInv, ReportInv, RunInv, NoConcurrentRuns

\* Jobs appear, and running ones expire, while nothing happens on the nodes.
LEMMA JobsMove ==
    ASSUME SystemTypeOK, ExecInv, TypeOK', UNCHANGED <<worker, procs, patches, runs>>,
           expired \subseteq expired', expired' \subseteq JobIds, Known \subseteq Known',
           \A id \in Known :
               /\ jobs'[id].node = jobs[id].node
               /\ jobs'[id].retry = jobs[id].retry
               /\ \/ jobs'[id].status = jobs[id].status
                  \/ jobs'[id].status = "failed" /\ id \in expired'
    PROVE  ExecInv'
<1> USE DEF ExecInv, Known, Rows
<1>1. \A n \in Nodes : OnNode(n) \subseteq OnNode(n)'
  BY DEF OnNode
<1>2. \A n \in Nodes : InUse(n)' <= InUse(n) /\ InUse(n) \in Nat /\ InUse(n)' \in Nat
  <2> TAKE n \in Nodes
  <2>1. ExecutingOn(n)' = ExecutingOn(n) /\ ExecutingOn(n) \subseteq JobIds
    BY DEF ExecutingOn, SystemTypeOK, Proc
  <2>2. ExecutingOn(n)' \ expired' \subseteq ExecutingOn(n) \ expired
    BY <2>1
  <2> QED
    BY <2>1, <2>2, JobSubsets DEF InUse
<1>3. MarkingInv'
  BY <1>1, <1>2, SchedulerConstants DEF MarkingInv, Quiet, Reports, OnNode
<1>4. ProcInv'
  BY <1>1, SchedulerConstants DEF ProcInv, Reports, OnNode, SystemTypeOK, Proc
<1>5. ReportInv'
  BY DEF ReportInv, Reports
<1>6. RunInv'
  <2>1. \A id \in Known' : jobs'[id].retry \in Nat
    BY SchedulerConstants DEF TypeOK, Job
  <2> QED
    BY <2>1 DEF RunInv, Finished
<1>7. NoConcurrentRuns'
  BY DEF NoConcurrentRuns
<1>8. CapacityUnlessExpired'
  BY <1>2, SchedulerConstants DEF CapacityUnlessExpired
<1> QED
  BY <1>3, <1>4, <1>5, <1>6, <1>7, <1>8

\* Workers, requests and processes get lost, while the jobs stay as they are.
LEMMA ThingsGetLost ==
    ASSUME SystemTypeOK, ExecInv, UNCHANGED <<jobs, runs, expired>>,
           \A n \in Nodes : worker'[n] \in {worker[n], Idle},
           \A m \in patches' : \E k \in patches :
               m.job = k.job /\ m.status = k.status /\ (m.status \in Finished => m = k),
           \A p \in procs' : \E q \in procs : p.job = q.job /\ p.node = q.node,
           NoConcurrentRuns'
    PROVE  ExecInv'
<1> USE DEF ExecInv
<1>1. /\ Known' = Known
      /\ \A n \in Nodes : OnNode(n)' = OnNode(n) /\ ExecutingOn(n)' \subseteq ExecutingOn(n)
      /\ \A id \in JobIds : Reports(id)' \subseteq Reports(id)
  BY DEF Known, Rows, OnNode, ExecutingOn, Reports
<1>2. \A n \in Nodes : InUse(n)' <= InUse(n) /\ InUse(n) \in Nat /\ InUse(n)' \in Nat
  <2> TAKE n \in Nodes
  <2>1. ExecutingOn(n) \subseteq JobIds
    BY DEF ExecutingOn, SystemTypeOK, Proc
  <2>2. ExecutingOn(n)' \ expired' \subseteq ExecutingOn(n) \ expired
    BY <1>1
  <2> QED
    BY <2>1, <2>2, JobSubsets DEF InUse
<1>3. MarkingInv'
  <2> SUFFICES ASSUME NEW n \in Nodes, NEW id \in JobIds,
                      worker'[n] = [pc |-> "marking", job |-> id]
               PROVE  /\ id \in OnNode(n)'
                      /\ Quiet(id)'
                      /\ runs'[id] <= jobs'[id].retry
                      /\ InUse(n)' < MaxJobsPerNode
    BY DEF MarkingInv
  <2>1. worker[n] = [pc |-> "marking", job |-> id]
    BY DEF Idle
  <2>2. /\ id \in OnNode(n)
        /\ Quiet(id)
        /\ runs[id] <= jobs[id].retry
        /\ InUse(n) < MaxJobsPerNode
    BY <2>1 DEF MarkingInv
  <2>3. Quiet(id)'
    BY <1>1, <2>2 DEF Quiet
  <2> QED
    BY <1>1, <1>2, <2>2, <2>3, SchedulerConstants
<1>4. ProcInv'
  BY <1>1 DEF ProcInv, SystemTypeOK, Proc
<1>5. ReportInv'
  BY <1>1 DEF ReportInv, Reports
<1>6. RunInv'
  BY <1>1 DEF RunInv
<1>7. CapacityUnlessExpired'
  BY <1>1, <1>2, SchedulerConstants DEF CapacityUnlessExpired
<1> QED
  BY <1>3, <1>4, <1>5, <1>6, <1>7

LEMMA PollExec ==
    ASSUME SystemTypeOK, ExecInv, NEW n \in Nodes, Poll(n)
    PROVE  ExecInv'
<1> USE DEF ExecInv
<1>1. PICK id \in Offered(n) :
          /\ worker' = [worker EXCEPT ![n] = [pc |-> "marking", job |-> id]]
          /\ patches' = patches \cup {Mark(id, TRUE)}
  BY DEF Poll
<1>2. UNCHANGED <<jobs, procs, runs, expired>>
  BY DEF Poll, schedulerVars
<1>3. /\ id \in OnNode(n) /\ id \in Known /\ id \in JobIds
      /\ jobs[id].status = "pending"
      /\ Cardinality(OnNode(n) \cap WithStatus("running")) < MaxJobsPerNode
  <2>1. OnNode(n) \cap WithStatus("running") \subseteq JobIds
    BY DEF OnNode, Known, Rows
  <2>2. Cardinality(OnNode(n) \cap WithStatus("running")) \in Nat
    BY <2>1, JobSubsets
  <2> QED
    BY <2>2, SchedulerConstants DEF Offered, OnNode, WithStatus, Known, Rows
<1>4. /\ Known' = Known
      /\ \A k \in Nodes : OnNode(k)' = OnNode(k) /\ InUse(k)' = InUse(k)
      /\ \A i \in JobIds : Reports(i)' = Reports(i)
      /\ \A i \in JobIds : Quiet(i)' = Quiet(i)
  <2>1. \A i \in JobIds : Reports(i)' = Reports(i)
    BY <1>1 DEF Reports, Mark, Finished
  <2> QED
    BY <1>2, <2>1 DEF Known, Rows, OnNode, InUse, ExecutingOn, Quiet
<1>5. Quiet(id) /\ runs[id] <= jobs[id].retry
  BY <1>3 DEF Quiet, Reports, ReportInv, ProcInv, RunInv
<1>6. InUse(n) < MaxJobsPerNode
  <2>1. ExecutingOn(n) \ expired \subseteq OnNode(n) \cap WithStatus("running")
    BY DEF ExecutingOn, ProcInv, OnNode, WithStatus
  <2>2. OnNode(n) \cap WithStatus("running") \subseteq JobIds
    BY DEF OnNode, Known, Rows
  <2> QED
    BY <1>3, <2>1, <2>2, JobSubsets, SchedulerConstants DEF InUse
<1>7. MarkingInv'
  <2> SUFFICES ASSUME NEW k \in Nodes, NEW i \in JobIds,
                      worker'[k] = [pc |-> "marking", job |-> i]
               PROVE  /\ i \in OnNode(k)'
                      /\ Quiet(i)'
                      /\ runs'[i] <= jobs'[i].retry
                      /\ InUse(k)' < MaxJobsPerNode
    BY DEF MarkingInv
  <2>1. CASE k = n
    <3>1. i = id
      BY <1>1, <2>1 DEF SystemTypeOK
    <3> QED
      BY <1>2, <1>3, <1>4, <1>5, <1>6, <2>1, <3>1
  <2>2. CASE k # n
    BY <1>1, <1>2, <1>4, <2>2 DEF MarkingInv, SystemTypeOK
  <2> QED
    BY <2>1, <2>2
<1>8. ProcInv'
  BY <1>2, <1>4 DEF ProcInv, SystemTypeOK, Proc
<1>9. ReportInv'
  BY <1>1, <1>2, <1>3, <1>4 DEF ReportInv, Mark, Finished, SystemTypeOK, Patch
<1>10. RunInv' /\ NoConcurrentRuns' /\ CapacityUnlessExpired'
  BY <1>2, <1>4 DEF RunInv, NoConcurrentRuns, CapacityUnlessExpired
<1> QED
  BY <1>7, <1>8, <1>9, <1>10

\* What serving a PATCH means for the jobs.
LEMMA PatchedJobs ==
    ASSUME TypeOK, NEW id \in JobIds, NEW s \in PatchStatus,
           NEW x \in {"nil", "ok", "error"}, UpdateJob(id, s, x)
    PROVE  /\ id \in Known /\ Known' = Known
           /\ jobs[id].retry \in Nat /\ jobs'[id].retry \in Nat
           /\ jobs'[id].retry >= jobs[id].retry
           /\ \/ jobs'[id].status = s
              \/ jobs'[id].status = "pending" /\ jobs'[id].retry = jobs[id].retry + 1
           /\ s # "failed" => jobs'[id].status = s
           /\ jobs'[id].node = jobs[id].node
           /\ jobs'[id].kind = jobs[id].kind
           /\ \A i \in JobIds \ {id} : jobs'[i] = jobs[i]
           /\ \A n \in Nodes : OnNode(n)' = OnNode(n)
<1>1. /\ id \in Known /\ Known' = Known
      /\ jobs[id] \in Job
      /\ \/ s = "failed" /\ jobs'[id] = Requeued(jobs[id])
         \/ jobs'[id] = Reported(jobs[id], s, x)
      /\ \A i \in JobIds \ {id} : jobs'[i] = jobs[i]
  BY UpdateEntry
<1>2. jobs[id].retry \in Nat
  BY <1>1, SchedulerConstants DEF Job
<1>3. jobs'[id].node = jobs[id].node /\ jobs'[id].kind = jobs[id].kind
  BY <1>1, JobFields
<1>4. \A n \in Nodes : OnNode(n)' = OnNode(n)
  BY <1>1, <1>3 DEF OnNode, Known, Rows
<1> QED
  BY <1>1, <1>2, <1>3, <1>4, JobFields

\* A mark is served and nothing starts.
LEMMA MarkExec ==
    ASSUME SystemTypeOK, ExecInv, NEW id \in JobIds, UpdateJob(id, "running", "nil"),
           patches' \subseteq patches, \A m \in patches \ patches' : m.status = "running",
           \A n \in Nodes : worker'[n] \in {worker[n], Idle},
           UNCHANGED <<procs, runs, expired>>
    PROVE  ExecInv'
<1> USE DEF ExecInv
<1>1. /\ id \in Known /\ Known' = Known
      /\ jobs[id].retry \in Nat /\ jobs'[id].retry \in Nat
      /\ jobs'[id].retry >= jobs[id].retry
      /\ jobs'[id].status = "running"
      /\ \A i \in JobIds \ {id} : jobs'[i] = jobs[i]
      /\ \A n \in Nodes : OnNode(n)' = OnNode(n)
  BY PatchedJobs DEF PatchStatus, Finished, SystemTypeOK
<1>2. Known \subseteq JobIds
  BY DEF Known, Rows
<1>3. /\ \A i \in JobIds : Reports(i)' = Reports(i) /\ Quiet(i)' = Quiet(i)
      /\ \A n \in Nodes : InUse(n)' = InUse(n)
  <2>1. \A i \in JobIds : Reports(i)' = Reports(i)
    BY DEF Reports, Finished
  <2> QED
    BY <2>1 DEF Quiet, InUse, ExecutingOn
<1>4. MarkingInv'
  <2> SUFFICES ASSUME NEW n \in Nodes, NEW i \in JobIds,
                      worker'[n] = [pc |-> "marking", job |-> i]
               PROVE  /\ i \in OnNode(n)'
                      /\ Quiet(i)'
                      /\ runs'[i] <= jobs'[i].retry
                      /\ InUse(n)' < MaxJobsPerNode
    BY DEF MarkingInv
  <2>1. worker[n] = [pc |-> "marking", job |-> i]
    BY DEF Idle
  <2>2. /\ i \in OnNode(n)
        /\ Quiet(i)
        /\ runs[i] <= jobs[i].retry
        /\ InUse(n) < MaxJobsPerNode
    BY <2>1 DEF MarkingInv
  <2>3. runs'[i] <= jobs'[i].retry
    BY <1>1, <2>2 DEF SystemTypeOK
  <2> QED
    BY <1>1, <1>3, <2>2, <2>3
<1>5. ProcInv'
  BY <1>1, <1>3 DEF ProcInv, SystemTypeOK, Proc
<1>6. ReportInv'
  BY <1>1, <1>3 DEF ReportInv, SystemTypeOK, Patch
<1>7. RunInv'
  <2>1. runs[id] \in Nat
    BY JobSystemConstants DEF SystemTypeOK
  <2> QED
    BY <1>1, <2>1 DEF RunInv
<1>8. NoConcurrentRuns' /\ CapacityUnlessExpired'
  BY <1>3 DEF NoConcurrentRuns, CapacityUnlessExpired
<1> QED
  BY <1>4, <1>5, <1>6, <1>7, <1>8

\* The mark of worker n is served and its job starts.
LEMMA StartExec ==
    ASSUME SystemTypeOK, ExecInv, NEW id \in JobIds, NEW n \in Waiting(id),
           UpdateJob(id, "running", "nil"), patches' = patches \ {Mark(id, TRUE)},
           Start(n, id, jobs[id].kind), UNCHANGED expired
    PROVE  ExecInv'
<1> USE DEF ExecInv
<1> DEFINE new == [job |-> id, run |-> runs'[id], node |-> n,
                   kind |-> jobs[id].kind, owned |-> TRUE]
<1>1. /\ id \in Known /\ Known' = Known
      /\ jobs[id].retry \in Nat /\ jobs'[id].retry \in Nat
      /\ jobs'[id].retry >= jobs[id].retry
      /\ jobs'[id].status = "running"
      /\ \A i \in JobIds \ {id} : jobs'[i] = jobs[i]
      /\ \A k \in Nodes : OnNode(k)' = OnNode(k)
  BY PatchedJobs DEF PatchStatus, Finished, SystemTypeOK
<1>2. /\ n \in Nodes /\ worker[n] = [pc |-> "marking", job |-> id]
      /\ id \in OnNode(n) /\ Quiet(id)
      /\ runs[id] <= jobs[id].retry
      /\ InUse(n) < MaxJobsPerNode
  BY DEF Waiting, MarkingInv
<1>3. \A i \in JobIds : Reports(i)' = Reports(i)
  BY DEF Reports, Mark, Finished
<1>4. procs' = procs \cup {new} /\ new.job = id /\ new.node = n
  BY DEF Start
<1>5. /\ runs' = [runs EXCEPT ![id] = runs[id] + 1]
      /\ \A i \in JobIds : runs[i] \in Nat
  BY JobSystemConstants DEF Start, SystemTypeOK
<1>6. ExecutingOn(n)' = ExecutingOn(n) \cup {id} /\ \A k \in Nodes \ {n} : InUse(k)' = InUse(k)
  <2>1. ExecutingOn(n)' = ExecutingOn(n) \cup {id}
    BY <1>4 DEF ExecutingOn
  <2>2. \A k \in Nodes \ {n} : ExecutingOn(k)' = ExecutingOn(k)
    BY <1>4 DEF ExecutingOn
  <2> QED
    BY <2>1, <2>2 DEF InUse
<1>7. InUse(n)' <= MaxJobsPerNode
  <2> DEFINE S == ExecutingOn(n) \ expired
  <2>1. ExecutingOn(n)' \ expired' \subseteq S \cup {id}
    BY <1>6
  <2>2. S \subseteq JobIds /\ S \cup {id} \in SUBSET JobIds
    BY DEF ExecutingOn, SystemTypeOK, Proc
  <2>3. IsFiniteSet(S) /\ Cardinality(S) \in Nat
    BY <2>2, JobSubsets
  <2> HIDE DEF S
  <2>4. Cardinality(S \cup {id}) <= Cardinality(S) + 1
    BY <2>3, OneMore
  <2> DEFINE T == ExecutingOn(n)' \ expired'
  <2>8. T \subseteq S \cup {id}
    BY <2>1
  <2> HIDE DEF T
  <2>5. /\ Cardinality(T) <= Cardinality(S \cup {id})
        /\ Cardinality(T) \in Nat
        /\ Cardinality(S \cup {id}) \in Nat
    BY <2>2, <2>8, JobSubsets
  <2>6. Cardinality(S) < MaxJobsPerNode
    BY <1>2 DEF InUse, S
  <2>7. Cardinality(T) <= MaxJobsPerNode
    BY <2>3, <2>4, <2>5, <2>6, SchedulerConstants
  <2> QED
    BY <2>7 DEF InUse, T
<1>8. MarkingInv'
  <2> SUFFICES ASSUME NEW k \in Nodes, NEW i \in JobIds,
                      worker'[k] = [pc |-> "marking", job |-> i]
               PROVE  /\ i \in OnNode(k)'
                      /\ Quiet(i)'
                      /\ runs'[i] <= jobs'[i].retry
                      /\ InUse(k)' < MaxJobsPerNode
    BY DEF MarkingInv
  <2>1. k # n /\ worker[k] = [pc |-> "marking", job |-> i]
    BY <1>2 DEF Start, Idle, SystemTypeOK
  <2>2. /\ i \in OnNode(k)
        /\ Quiet(i)
        /\ runs[i] <= jobs[i].retry
        /\ InUse(k) < MaxJobsPerNode
    BY <2>1 DEF MarkingInv
  <2>3. i # id
    BY <1>2, <2>1, <2>2 DEF OnNode
  <2>4. Quiet(i)'
    BY <1>3, <1>4, <2>2, <2>3 DEF Quiet
  <2> QED
    BY <1>1, <1>5, <1>6, <2>1, <2>2, <2>3, <2>4 DEF SystemTypeOK
<1>9. ProcInv'
  <2> SUFFICES ASSUME NEW p \in procs'
               PROVE  /\ p.job \in OnNode(p.node)'
                      /\ Reports(p.job)' = {}
                      /\ jobs'[p.job].status # "pending"
                      /\ p.job \in expired' \/ jobs'[p.job].status = "running"
    BY DEF ProcInv
  <2>1. CASE p = new
    BY <1>1, <1>2, <1>3, <2>1 DEF Quiet
  <2>2. CASE p \in procs
    BY <1>1, <1>3, <2>2 DEF ProcInv, SystemTypeOK, Proc
  <2> QED
    BY <1>4, <2>1, <2>2
<1>10. ReportInv'
  BY <1>1, <1>3 DEF ReportInv, SystemTypeOK, Patch
<1>11. RunInv'
  BY <1>1, <1>2, <1>5 DEF RunInv, SystemTypeOK
<1>12. NoConcurrentRuns'
  BY <1>2, <1>4 DEF NoConcurrentRuns, Quiet
<1>13. CapacityUnlessExpired'
  BY <1>6, <1>7 DEF CapacityUnlessExpired
<1> QED
  BY <1>8, <1>9, <1>10, <1>11, <1>12, <1>13

\* A report is served.
LEMMA ReportExec ==
    ASSUME SystemTypeOK, ExecInv, NEW id \in JobIds, NEW s \in Finished, ServeReport(id, s)
    PROVE  ExecInv'
<1> USE DEF ExecInv
<1> DEFINE x == IF s = "done" THEN "ok" ELSE "error"
<1>0. UpdateJob(id, s, x) /\ x \in {"nil", "ok", "error"}
  BY DEF ServeReport
<1> HIDE DEF x
<1>1. /\ id \in Known /\ Known' = Known
      /\ jobs[id].retry \in Nat /\ jobs'[id].retry \in Nat
      /\ jobs'[id].retry >= jobs[id].retry
      /\ \/ jobs'[id].status = s
         \/ jobs'[id].status = "pending" /\ jobs'[id].retry = jobs[id].retry + 1
      /\ \A i \in JobIds \ {id} : jobs'[i] = jobs[i]
      /\ \A n \in Nodes : OnNode(n)' = OnNode(n)
  BY <1>0, PatchedJobs DEF PatchStatus, SystemTypeOK
<1>2. /\ UNCHANGED <<worker, procs, runs, expired>>
      /\ Report(id, s) \in patches /\ patches' = patches \ {Report(id, s)}
  BY DEF ServeReport
<1>3. Reports(id) = {Report(id, s)} /\ jobs[id].status # "pending"
  BY <1>2 DEF ReportInv, Report
<1>4. /\ Reports(id)' = {}
      /\ \A i \in JobIds \ {id} : Reports(i)' = Reports(i)
      /\ \A n \in Nodes : InUse(n)' = InUse(n)
  <2>1. Reports(id)' = {} /\ \A i \in JobIds \ {id} : Reports(i)' = Reports(i)
    BY <1>2, <1>3 DEF Reports, Report
  <2> QED
    BY <1>2, <2>1 DEF InUse, ExecutingOn
<1>5. /\ \A p \in procs : p.job # id
      /\ \A n \in Nodes : worker[n] # [pc |-> "marking", job |-> id]
  BY <1>3 DEF ProcInv, MarkingInv, Quiet
<1>6. MarkingInv'
  <2> SUFFICES ASSUME NEW n \in Nodes, NEW i \in JobIds,
                      worker'[n] = [pc |-> "marking", job |-> i]
               PROVE  /\ i \in OnNode(n)'
                      /\ Quiet(i)'
                      /\ runs'[i] <= jobs'[i].retry
                      /\ InUse(n)' < MaxJobsPerNode
    BY DEF MarkingInv
  <2>1. i # id /\ worker[n] = [pc |-> "marking", job |-> i]
    BY <1>2, <1>5
  <2>2. Quiet(i)'
    BY <1>2, <1>4, <2>1 DEF Quiet, MarkingInv
  <2> QED
    BY <1>1, <1>2, <1>4, <2>1, <2>2 DEF MarkingInv
<1>7. ProcInv'
  BY <1>1, <1>2, <1>4, <1>5 DEF ProcInv, SystemTypeOK, Proc
<1>8. ReportInv'
  <2> SUFFICES ASSUME NEW m \in patches'
               PROVE  /\ m.job \in Known'
                      /\ m.status \in Finished =>
                             jobs'[m.job].status # "pending" /\ Reports(m.job)' = {m}
    BY DEF ReportInv
  <2>1. m \in patches /\ m \in Patch /\ m.job \in JobIds
    BY <1>2 DEF SystemTypeOK, Patch
  <2>2. m.status \in Finished => m.job # id
    BY <1>4 DEF Reports
  <2> QED
    BY <1>1, <1>4, <2>1, <2>2 DEF ReportInv
<1>9. RunInv'
  <2>1. runs[id] \in Nat
    BY JobSystemConstants DEF SystemTypeOK
  <2> QED
    BY <1>1, <1>2, <2>1 DEF RunInv, Finished
<1>10. NoConcurrentRuns' /\ CapacityUnlessExpired'
  BY <1>2, <1>4 DEF NoConcurrentRuns, CapacityUnlessExpired
<1> QED
  BY <1>6, <1>7, <1>8, <1>9, <1>10

\* An execution ends, with or without a report.
LEMMA ExitExec ==
    ASSUME SystemTypeOK, ExecInv, NEW p \in procs, NEW s \in Finished, Exit(p, s)
    PROVE  ExecInv'
<1> USE DEF ExecInv
<1>1. UNCHANGED <<jobs, runs, expired>> /\ procs' = procs \ {p}
  BY DEF Exit, schedulerVars
<1>2. NoConcurrentRuns'
  BY <1>1 DEF NoConcurrentRuns
<1>3. \A n \in Nodes : worker'[n] \in {worker[n], Idle}
  BY DEF Exit, GoIdle
<1>4. CASE ~p.owned
  BY <1>1, <1>2, <1>3, <1>4, ThingsGetLost DEF Exit
<1>5. CASE p.owned
  <2>1. patches' = patches \cup {Report(p.job, s)}
    BY <1>5 DEF Exit
  <2>2. /\ p.job \in Known /\ p.job \in JobIds
        /\ Reports(p.job) = {} /\ jobs[p.job].status # "pending"
        /\ \A q \in procs' : q.job # p.job
        /\ \A n \in Nodes : worker[n] # [pc |-> "marking", job |-> p.job]
    BY <1>1 DEF ProcInv, OnNode, SystemTypeOK, Proc, NoConcurrentRuns, MarkingInv, Quiet
  <2>3. /\ Reports(p.job)' = {Report(p.job, s)}
        /\ \A i \in JobIds \ {p.job} : Reports(i)' = Reports(i)
    BY <2>1, <2>2 DEF Reports, Report
  <2>4. /\ Known' = Known
        /\ \A n \in Nodes : OnNode(n)' = OnNode(n)
        /\ \A n \in Nodes : InUse(n)' <= InUse(n) /\ InUse(n) \in Nat /\ InUse(n)' \in Nat
    <3>1. Known' = Known /\ \A n \in Nodes : OnNode(n)' = OnNode(n)
      BY <1>1 DEF Known, Rows, OnNode
    <3>2. ASSUME NEW n \in Nodes
          PROVE  InUse(n)' <= InUse(n) /\ InUse(n) \in Nat /\ InUse(n)' \in Nat
      <4>1. ExecutingOn(n)' \subseteq ExecutingOn(n) /\ ExecutingOn(n) \subseteq JobIds
        BY <1>1 DEF ExecutingOn, SystemTypeOK, Proc
      <4>2. ExecutingOn(n)' \ expired' \subseteq ExecutingOn(n) \ expired
        BY <1>1, <4>1
      <4> QED
        BY <4>1, <4>2, JobSubsets DEF InUse
    <3> QED
      BY <3>1, <3>2
  <2>5. MarkingInv'
    <3> SUFFICES ASSUME NEW n \in Nodes, NEW i \in JobIds,
                        worker'[n] = [pc |-> "marking", job |-> i]
                 PROVE  /\ i \in OnNode(n)'
                        /\ Quiet(i)'
                        /\ runs'[i] <= jobs'[i].retry
                        /\ InUse(n)' < MaxJobsPerNode
      BY DEF MarkingInv
    <3>1. worker[n] = [pc |-> "marking", job |-> i] /\ i # p.job
      BY <1>3, <2>2 DEF Idle
    <3>2. /\ i \in OnNode(n)
          /\ Quiet(i)
          /\ runs[i] <= jobs[i].retry
          /\ InUse(n) < MaxJobsPerNode
      BY <3>1 DEF MarkingInv
    <3>3. Quiet(i)'
      BY <1>1, <2>3, <3>1, <3>2 DEF Quiet
    <3>4. InUse(n)' < MaxJobsPerNode
      BY <2>4, <3>2, SchedulerConstants
    <3> QED
      BY <1>1, <2>4, <3>2, <3>3, <3>4
  <2>6. ProcInv'
    BY <1>1, <2>2, <2>3, <2>4 DEF ProcInv, SystemTypeOK, Proc
  <2>7. ReportInv'
    <3> SUFFICES ASSUME NEW m \in patches'
                 PROVE  /\ m.job \in Known'
                        /\ m.status \in Finished =>
                               jobs'[m.job].status # "pending" /\ Reports(m.job)' = {m}
      BY DEF ReportInv
    <3>1. CASE m = Report(p.job, s)
      BY <1>1, <2>2, <2>3, <2>4, <3>1 DEF Report
    <3>2. CASE m \in patches
      <4>1. m.job \in JobIds /\ (m.status \in Finished => m.job # p.job)
        BY <2>2, <3>2 DEF SystemTypeOK, Patch, Reports
      <4> QED
        BY <1>1, <2>3, <2>4, <3>2, <4>1 DEF ReportInv
    <3> QED
      BY <2>1, <3>1, <3>2
  <2>8. RunInv'
    BY <1>1, <2>4 DEF RunInv
  <2>9. CapacityUnlessExpired'
    BY <2>4, SchedulerConstants DEF CapacityUnlessExpired
  <2> QED
    BY <1>2, <2>5, <2>6, <2>7, <2>8, <2>9
<1> QED
  BY <1>4, <1>5 DEF SystemTypeOK, Proc

\* A crashed agent leaves orphans, none of them a second run of a job.
LEMMA CrashExec ==
    ASSUME SystemTypeOK, ExecInv, NEW n \in Nodes, AgentCrash(n)
    PROVE  ExecInv'
<1>1. PICK dead \in SUBSET {p \in procs : p.node = n} :
          procs' = {IF p.node = n THEN [p EXCEPT !.owned = FALSE] ELSE p : p \in procs \ dead}
  BY DEF AgentCrash
<1>2. \A p \in procs : /\ [p EXCEPT !.owned = FALSE].job = p.job
                       /\ [p EXCEPT !.owned = FALSE].node = p.node
  BY DEF SystemTypeOK, Proc
<1>3. \A p \in procs' : \E q \in procs :
          /\ p = IF q.node = n THEN [q EXCEPT !.owned = FALSE] ELSE q
          /\ p.job = q.job /\ p.node = q.node
  BY <1>1, <1>2
<1>4. NoConcurrentRuns'
  <2> SUFFICES ASSUME NEW p \in procs', NEW q \in procs', p.job = q.job PROVE p = q
    BY DEF NoConcurrentRuns
  <2>1. PICK a \in procs : /\ p = IF a.node = n THEN [a EXCEPT !.owned = FALSE] ELSE a
                           /\ p.job = a.job
    BY <1>3
  <2>2. PICK b \in procs : /\ q = IF b.node = n THEN [b EXCEPT !.owned = FALSE] ELSE b
                           /\ q.job = b.job
    BY <1>3
  <2>3. a = b
    BY <2>1, <2>2 DEF ExecInv, NoConcurrentRuns
  <2> QED
    BY <2>1, <2>2, <2>3
<1>5. UNCHANGED <<jobs, runs, expired>> /\ \A k \in Nodes : worker'[k] \in {worker[k], Idle}
  BY DEF AgentCrash, schedulerVars, GoIdle
<1>6. \A m \in patches' : \E k \in patches :
          m.job = k.job /\ m.status = k.status /\ (m.status \in Finished => m = k)
  BY AbandonedPatches DEF AgentCrash, SystemTypeOK
<1> QED
  BY <1>3, <1>4, <1>5, <1>6, ThingsGetLost

LEMMA NextExecInv ==
    ASSUME ~SavesMayFail, SystemTypeOK, DurableInv, ExecInv, [SystemNext]_vars
    PROVE  ExecInv'
<1>0. SystemTypeOK' /\ TypeOK /\ TypeOK' /\ FreshIds /\ db = jobs /\ expired \subseteq JobIds
  BY NextSystemTypeOK DEF SystemTypeOK, DurableInv, DbInSync
<1>1. CASE Submit
  <2>1. UNCHANGED <<worker, procs, patches, runs, expired>>
    BY <1>1 DEF Submit, agentVars
  <2>2. ASSUME NEW r \in Requests, NEW n \in Nodes, NEW k \in {"run", "service"},
               AllocateId(r, n, k)
        PROVE  ExecInv'
    <3>1. jobs' = jobs /\ Known' = Known
      BY <2>2 DEF AllocateId, Known, Rows
    <3> QED
      BY <1>0, <2>1, <3>1, JobsMove
  <2>3. ASSUME NEW s \in submits, InsertJob(s)
        PROVE  ExecInv'
    <3>1. /\ s.id \in JobIds \ Known
          /\ \A i \in JobIds \ {s.id} : jobs'[i] = jobs[i]
          /\ Known' = Known \cup {s.id}
      BY <1>0, <2>3, InsertEntry
    <3>2. \A id \in Known : jobs'[id] = jobs[id]
      BY <3>1 DEF Known, Rows
    <3> QED
      BY <1>0, <2>1, <3>1, <3>2, JobsMove
  <2> QED
    BY <1>1, <2>2, <2>3 DEF Submit
<1>2. CASE SchedulerRestart
  <2>1. jobs' = jobs /\ UNCHANGED <<worker, procs, patches, runs, expired>>
    BY <1>0, <1>2 DEF SchedulerRestart, Restart, agentVars
  <2>2. Known' = Known
    BY <2>1 DEF Known, Rows
  <2> QED
    BY <1>0, <2>1, <2>2, JobsMove
<1>3. ASSUME NEW overdue \in SUBSET JobIds, Expire(overdue)
      PROVE  ExecInv'
  <2>1. /\ expired' = expired \cup overdue
        /\ UNCHANGED <<worker, procs, patches, runs>>
        /\ WatchJobTimeouts(overdue)
    BY <1>3 DEF Expire
  <2>2. /\ Known' = Known
        /\ \A id \in overdue : jobs'[id] = TimedOut(jobs[id])
        /\ \A id \in JobIds \ overdue : jobs'[id] = jobs[id]
    BY <1>0, <2>1, TimeoutEntries
  <2>3. ASSUME NEW id \in Known
        PROVE  /\ jobs'[id].node = jobs[id].node
               /\ jobs'[id].retry = jobs[id].retry
               /\ \/ jobs'[id].status = jobs[id].status
                  \/ jobs'[id].status = "failed" /\ id \in expired'
    <3>1. id \in JobIds /\ jobs[id] \in Job
      BY <1>0, KnownJobs
    <3> QED
      BY <2>1, <2>2, <3>1, JobFields
  <2> QED
    BY <1>0, <2>1, <2>2, <2>3, JobsMove
<1>4. ASSUME NEW n \in Nodes, Poll(n)
      PROVE  ExecInv'
  BY <1>4, PollExec
<1>5. ASSUME NEW n \in Nodes, GiveUp(n)
      PROVE  ExecInv'
  <2>1. /\ UNCHANGED <<jobs, runs, expired, procs>>
        /\ \A k \in Nodes : worker'[k] \in {worker[k], Idle}
    BY <1>5 DEF GiveUp, schedulerVars, GoIdle
  <2>2. \A m \in patches' : \E k \in patches :
            m.job = k.job /\ m.status = k.status /\ (m.status \in Finished => m = k)
    BY <1>5, AbandonedPatches DEF GiveUp, SystemTypeOK
  <2>3. NoConcurrentRuns'
    BY <2>1 DEF ExecInv, NoConcurrentRuns
  <2> QED
    BY <2>1, <2>2, <2>3, ThingsGetLost
<1>6. ASSUME NEW n \in Nodes, AgentCrash(n)
      PROVE  ExecInv'
  BY <1>6, CrashExec
<1>7. ASSUME NEW n \in Nodes, FleetChange(n)
      PROVE  ExecInv'
  <2>1. UNCHANGED <<jobs, worker, procs, patches, runs, expired>> /\ Known' = Known
    BY <1>7 DEF FleetChange, schedulerVars, Known, Rows
  <2> QED
    BY <1>0, <2>1, JobsMove
<1>8. ASSUME NEW id \in JobIds, NEW w \in BOOLEAN, ServeMark(id, w)
      PROVE  ExecInv'
  <2>1. /\ UpdateJob(id, "running", "nil") /\ expired' = expired
        /\ patches' = patches \ {Mark(id, w)}
    BY <1>8 DEF ServeMark
  <2>2. CASE /\ IF w THEN GoIdle(Waiting(id)) ELSE UNCHANGED worker
             /\ UNCHANGED <<procs, runs>>
    <3>1. \A n \in Nodes : worker'[n] \in {worker[n], Idle}
      BY <2>2 DEF GoIdle
    <3>2. patches' \subseteq patches /\ \A m \in patches \ patches' : m.status = "running"
      BY <2>1 DEF Mark
    <3> QED
      BY <2>1, <2>2, <3>1, <3>2, MarkExec
  <2>3. ASSUME w, NEW n \in Waiting(id), Start(n, id, jobs[id].kind)
        PROVE  ExecInv'
    <3>1. w = TRUE
      BY <2>3
    <3> QED
      BY <2>1, <2>3, <3>1, StartExec
  <2> QED
    BY <1>8, <2>2, <2>3 DEF ServeMark
<1>9. ASSUME NEW id \in JobIds, NEW s \in Finished, ServeReport(id, s)
      PROVE  ExecInv'
  BY <1>9, ReportExec
<1>10. ASSUME NEW m \in patches, DropPatch(m)
       PROVE  ExecInv'
  <2>1. /\ UNCHANGED <<jobs, runs, expired, procs>>
        /\ patches' = patches \ {m}
        /\ \A k \in Nodes : worker'[k] \in {worker[k], Idle}
    BY <1>10 DEF DropPatch, schedulerVars, GoIdle
  <2>2. NoConcurrentRuns'
    BY <2>1 DEF ExecInv, NoConcurrentRuns
  <2> QED
    BY <2>1, <2>2, ThingsGetLost
<1>11. ASSUME NEW p \in procs, NEW s \in Finished, Exit(p, s)
       PROVE  ExecInv'
  BY <1>11, ExitExec
<1>12. CASE UNCHANGED vars
  <2>1. UNCHANGED <<jobs, worker, procs, patches, runs, expired>> /\ Known' = Known
    BY <1>12 DEF vars, agentVars, schedulerVars, Known, Rows
  <2> QED
    BY <1>0, <2>1, JobsMove
<1> QED
  BY <1>1, <1>2, <1>3, <1>4, <1>5, <1>6, <1>7, <1>8, <1>9, <1>10, <1>11, <1>12 DEF SystemNext

LEMMA ExecutionInv ==
    ASSUME ~SavesMayFail
    PROVE  SystemSpec => [](SystemTypeOK /\ DurableInv /\ ExecInv)
<1> DEFINE IInv == SystemTypeOK /\ DurableInv /\ ExecInv
<1>1. SystemInit => IInv
  BY InitSystemTypeOK, InitDurable, InitExecInv DEF SystemInit
<1>2. IInv /\ [SystemNext]_vars => IInv'
  BY NextSystemTypeOK, SchedulerStep, NextDurable, NextExecInv
<1> QED
  BY <1>1, <1>2, PTL DEF SystemSpec

\* When saves do not fail, no job ever runs in two processes at once: for any
\* number of nodes and jobs, with timeouts, crashes of agents and scheduler,
\* orphans, and PATCHes lost, unanswered or served late.
THEOREM OneRunAtATime ==
    ASSUME ~SavesMayFail
    PROVE  SystemSpec => []NoConcurrentRuns
<1>1. ExecInv => NoConcurrentRuns
  BY DEF ExecInv
<1> QED
  BY <1>1, ExecutionInv, PTL

\* When saves do not fail, a job is started at most MaxJobRetries + 1 times.
THEOREM StartsAreBounded ==
    ASSUME ~SavesMayFail
    PROVE  SystemSpec => []RunsBounded
<1>1. SystemTypeOK /\ ExecInv => RunsBounded
  <2> SUFFICES ASSUME SystemTypeOK, ExecInv, NEW id \in JobIds
               PROVE  runs[id] <= MaxJobRetries + 1
    BY DEF RunsBounded
  <2>1. CASE id \in Known
    <3>1. jobs[id].retry \in 0 .. MaxJobRetries
      BY <2>1, KnownJobs DEF SystemTypeOK, Job
    <3> QED
      BY <2>1, <3>1, SchedulerConstants, JobSystemConstants DEF ExecInv, RunInv, SystemTypeOK
  <2>2. CASE id \notin Known
    BY <2>2, SchedulerConstants DEF ExecInv, RunInv
  <2> QED
    BY <2>1, <2>2
<1> QED
  BY <1>1, ExecutionInv, PTL

\* When saves do not fail, the jobs a node executes and the watcher has not
\* given up on never outnumber MaxJobsPerNode.
THEOREM CapacityHolds ==
    ASSUME ~SavesMayFail
    PROVE  SystemSpec => []CapacityUnlessExpired
<1>1. ExecInv => CapacityUnlessExpired
  BY DEF ExecInv
<1> QED
  BY <1>1, ExecutionInv, PTL

-----------------------------------------------------------------------------
(* Outcomes.  What OutcomeMatchesStatus says of a job is kept by every way  *)
(* of rewriting one, in the map and in the rows, saved or not.              *)

Fits(job) ==
    /\ job.status = "pending" => job.exit = "nil" /\ ~job.finished
    /\ job.status = "done" => job.exit = "ok" /\ job.finished
    /\ job.status = "failed" => job.exit = "error" /\ job.finished

OutcomeInv ==
    \A id \in JobIds : /\ jobs[id] = NoJob \/ Fits(jobs[id])
                       /\ db[id] = NoJob \/ Fits(db[id])

LEMMA RewrittenFits ==
    ASSUME NEW job \in Job, Fits(job)
    PROVE  /\ Fits(Requeued(job)) /\ Fits(TimedOut(job))
           /\ Fits(Reported(job, "running", "nil"))
           /\ Fits(Reported(job, "done", "ok"))
           /\ Fits(Reported(job, "failed", "error"))
<1>1. Fits(Requeued(job)) /\ Fits(TimedOut(job))
  BY DEF Job, Fits, Requeued, TimedOut
<1>2. Fits(Reported(job, "running", "nil"))
  BY DEF Job, Fits, Reported
<1>3. Fits(Reported(job, "done", "ok")) /\ Fits(Reported(job, "failed", "error"))
  BY DEF Job, Fits, Reported, Finished
<1> QED
  BY <1>1, <1>2, <1>3

\* It is enough that what is new in the map fits.
LEMMA MapOutcomes ==
    ASSUME OutcomeInv, NEW ids, Save(ids),
           \A id \in JobIds : jobs'[id] = jobs[id] \/ Fits(jobs'[id])
    PROVE  OutcomeInv'
<1>1. \A id \in JobIds : db'[id] = db[id] \/ db'[id] = jobs'[id]
  BY DEF Save
<1> QED
  BY <1>1 DEF OutcomeInv

\* A PATCH that an agent sends has the exit code of its status.
LEMMA PatchOutcomes ==
    ASSUME TypeOK, OutcomeInv, NEW id \in JobIds,
           NEW s \in PatchStatus, NEW x \in {"nil", "ok", "error"},
           <<s, x>> \in {<<"running", "nil">>, <<"done", "ok">>, <<"failed", "error">>},
           UpdateJob(id, s, x)
    PROVE  OutcomeInv'
<1>1. jobs[id] \in Job /\ Fits(jobs[id])
  BY KnownJobs, UpdateEntry DEF OutcomeInv, Known, Rows
<1>2. Fits(Reported(jobs[id], s, x)) /\ Fits(Requeued(jobs[id]))
  BY <1>1, RewrittenFits
<1>3. \A i \in JobIds : jobs'[i] = jobs[i] \/ Fits(jobs'[i])
  BY <1>2, UpdateEntry
<1>4. Save({id})
  BY DEF UpdateJob
<1> QED
  BY <1>3, <1>4, MapOutcomes

LEMMA NextOutcomes ==
    ASSUME SystemTypeOK, FreshIds, OutcomeInv, [SystemNext]_vars
    PROVE  OutcomeInv'
<1> USE DEF SystemTypeOK
<1>1. CASE Submit
  <2>1. CASE UNCHANGED <<jobs, db>>
    BY <2>1 DEF OutcomeInv
  <2>2. ASSUME NEW s \in submits, InsertJob(s) PROVE OutcomeInv'
    <3>1. Fits(NewJob(s))
      BY DEF Fits, NewJob
    <3>2. Save({s.id}) /\ \A i \in JobIds : jobs'[i] = jobs[i] \/ Fits(jobs'[i])
      BY <2>2, <3>1, InsertEntry DEF InsertJob
    <3> QED
      BY <3>2, MapOutcomes
  <2> QED
    BY <1>1, <2>1, <2>2 DEF Submit, AllocateId
<1>2. CASE SchedulerRestart
  BY <1>2 DEF SchedulerRestart, Restart, OutcomeInv
<1>3. ASSUME NEW overdue \in SUBSET JobIds, Expire(overdue) PROVE OutcomeInv'
  <2>1. WatchJobTimeouts(overdue) /\ Save(overdue)
    BY <1>3 DEF Expire, WatchJobTimeouts
  <2>2. \A id \in overdue : Fits(jobs'[id])
    BY <2>1, TimeoutEntries, KnownJobs, RewrittenFits DEF OutcomeInv, Known, Rows
  <2>3. \A id \in JobIds : jobs'[id] = jobs[id] \/ Fits(jobs'[id])
    BY <2>1, <2>2, TimeoutEntries
  <2> QED
    BY <2>1, <2>3, MapOutcomes
<1>4. ASSUME NEW id \in JobIds, NEW w \in BOOLEAN, ServeMark(id, w) PROVE OutcomeInv'
  BY <1>4, PatchOutcomes DEF ServeMark, PatchStatus
<1>5. ASSUME NEW id \in JobIds, NEW s \in Finished, ServeReport(id, s) PROVE OutcomeInv'
  <2>1. CASE s = "done"
    BY <1>5, <2>1, PatchOutcomes DEF ServeReport, PatchStatus, Finished
  <2>2. CASE s = "failed"
    BY <1>5, <2>2, PatchOutcomes DEF ServeReport, PatchStatus, Finished
  <2> QED
    BY <2>1, <2>2 DEF Finished
<1>6. CASE UNCHANGED schedulerVars
  BY <1>6 DEF schedulerVars, OutcomeInv
<1> QED
  BY <1>1, <1>2, <1>3, <1>4, <1>5, <1>6
  DEF SystemNext, Poll, GiveUp, AgentCrash, FleetChange, DropPatch, Exit, vars

\* Exit code and end time of a job belong to its status, in whichever order
\* marks, reports, retries and timeouts are applied, and whatever is lost or not
\* saved (updateJob, watchJobTimeouts).
THEOREM OutcomesMatch == SystemSpec => []OutcomeMatchesStatus
<1> DEFINE IInv == SystemTypeOK /\ FreshIds /\ OutcomeInv
<1>1. SystemInit => IInv
  BY InitSystemTypeOK, InitFreshIds DEF SystemInit, Init, OutcomeInv
<1>2. IInv /\ [SystemNext]_vars => IInv'
  BY NextSystemTypeOK, SchedulerStep, NextFreshIds, NextOutcomes DEF SystemTypeOK
<1>3. IInv => OutcomeMatchesStatus
  BY DEF OutcomeInv, OutcomeMatchesStatus, Fits, Known, Rows
<1> QED
  BY <1>1, <1>2, <1>3, PTL DEF SystemSpec

\* When saves do not fail, worker, processes, reports and runs stay in step with
\* the table: what the three theorems above rest on.
THEOREM ExecutionsInStep ==
    ASSUME ~SavesMayFail
    PROVE  SystemSpec => []ExecInv
BY ExecutionInv, PTL

-----------------------------------------------------------------------------
(* Refinements.                                                            *)

\* The scheduler keeps its contract also among agents and a network: whatever
\* they do, jobs are accepted, believed, queued again, failed and expired as
\* JobContract says (updateJob, watchJobTimeouts, start_job_worker).
THEOREM SystemImplementsContract ==
    ASSUME ~SavesMayFail
    PROVE  SystemSpec => ContractSpec
<1>1. SystemInit => Contract!Init
  BY InitContract DEF SystemInit
<1>2. DurableInv /\ [SystemNext]_vars => [Contract!Next]_(Contract!contractVars)
  BY SchedulerStep, NextContract
<1> QED
  BY <1>1, <1>2, ExecutionInv, PTL DEF SystemSpec, ContractSpec, Contract!Spec

\* Every retry was earned by an execution: a job was started at least as often as
\* it was queued again, and more often if an execution is alive or reported on.
EarnedInv ==
    \A id \in Known :
        /\ jobs[id].retry <= runs[id]
        /\ Quiet(id) \/ jobs[id].retry < runs[id]

Live == {p.job : p \in procs}

LEMMA UnknownQuiet ==
    ASSUME SystemTypeOK, ExecInv, NEW id \in JobIds \ Known
    PROVE  Quiet(id) /\ runs[id] = 0
<1>1. \A p \in procs : p.job # id
  BY DEF ExecInv, ProcInv, OnNode
<1>2. Reports(id) = {}
  BY DEF ExecInv, ReportInv, Reports
<1> QED
  BY <1>1, <1>2 DEF Quiet, ExecInv, RunInv

\* Steps after which what was quiet is quiet still.
LEMMA NothingStarts ==
    ASSUME SystemTypeOK, ExecInv, EarnedInv, UNCHANGED runs, Known \subseteq Known',
           Known' \subseteq JobIds, Live' \subseteq Live,
           \A id \in Known : jobs'[id].retry = jobs[id].retry,
           \A id \in Known' \ Known : jobs'[id].retry = 0,
           \A id \in JobIds : Quiet(id) => Quiet(id)'
    PROVE  EarnedInv' /\ [Executions!Next]_(Executions!contractVars)
<1>1. EarnedInv'
  <2> SUFFICES ASSUME NEW id \in Known'
               PROVE  /\ jobs'[id].retry <= runs[id]
                      /\ Quiet(id)' \/ jobs'[id].retry < runs[id]
    BY DEF EarnedInv
  <2>1. CASE id \in Known
    BY <2>1 DEF EarnedInv
  <2>2. CASE id \notin Known
    BY <2>2, UnknownQuiet
  <2> QED
    BY <2>1, <2>2
<1>2. PICK ended \in SUBSET JobIds : ended = Live \ Live'
  BY DEF Live, SystemTypeOK, Proc
<1>3. Executions!End(ended)
  <2>1. \A id \in JobIds : (IF id \in Known' THEN jobs'[id].retry ELSE 0) =
                           (IF id \in Known THEN jobs[id].retry ELSE 0)
    OBVIOUS
  <2>2. [id \in JobIds |-> IF id \in Known' THEN jobs'[id].retry ELSE 0] =
        [id \in JobIds |-> IF id \in Known THEN jobs[id].retry ELSE 0]
    BY <2>1
  <2>3. Live' = Live \ ended
    BY <1>2
  <2> QED
    BY <2>2, <2>3 DEF Executions!End, Live
<1> QED
  BY <1>1, <1>3 DEF Executions!Next

\* The same, when nothing is reported.
LEMMA NothingReported ==
    ASSUME SystemTypeOK, ExecInv, EarnedInv, UNCHANGED runs, Known \subseteq Known',
           Known' \subseteq JobIds,
           \A id \in Known : jobs'[id].retry = jobs[id].retry,
           \A id \in Known' \ Known : jobs'[id].retry = 0,
           \A m \in patches' : m.status \in Finished => m \in patches,
           \A p \in procs' : \E q \in procs : p.job = q.job
    PROVE  EarnedInv' /\ [Executions!Next]_(Executions!contractVars)
<1>1. Live' \subseteq Live
  BY DEF Live
<1>2. \A id \in JobIds : Quiet(id) => Quiet(id)'
  BY DEF Quiet, Reports
<1> QED
  BY <1>1, <1>2, NothingStarts

\* A mark is served and its job starts: it was quiet, and had a run to its credit.
LEMMA StartEarned ==
    ASSUME SystemTypeOK, ExecInv, EarnedInv, NEW id \in JobIds, NEW n \in Waiting(id),
           UpdateJob(id, "running", "nil"), patches' = patches \ {Mark(id, TRUE)},
           Start(n, id, jobs[id].kind)
    PROVE  EarnedInv' /\ [Executions!Next]_(Executions!contractVars)
<1>1. /\ id \in Known /\ Known' = Known /\ Known \subseteq JobIds
      /\ jobs[id].retry \in Nat
      /\ \A i \in Known : jobs'[i].retry = jobs[i].retry
  <2>1. jobs[id] \in Job /\ jobs'[id] = Reported(jobs[id], "running", "nil")
    BY UpdateEntry DEF PatchStatus, Finished, SystemTypeOK
  <2>2. jobs'[id].retry = jobs[id].retry
    BY <2>1, JobFields
  <2> QED
    BY <2>2, PatchedJobs DEF PatchStatus, Finished, SystemTypeOK, Known, Rows
<1>2. Quiet(id) /\ runs[id] <= jobs[id].retry
  BY DEF Waiting, ExecInv, MarkingInv
<1>3. /\ runs' = [runs EXCEPT ![id] = runs[id] + 1]
      /\ \A i \in JobIds : runs[i] \in Nat
  BY JobSystemConstants DEF Start, SystemTypeOK
<1>4. PICK new : procs' = procs \cup {new} /\ new.job = id
  <2>1. PICK new : new = [job |-> id, run |-> runs'[id], node |-> n,
                          kind |-> jobs[id].kind, owned |-> TRUE]
    OBVIOUS
  <2>2. procs' = procs \cup {new} /\ new.job = id
    BY <2>1 DEF Start
  <2> QED
    BY <2>2
<1>5. \A i \in JobIds \ {id} : Quiet(i)' = Quiet(i)
  BY <1>4 DEF Quiet, Reports, Mark, Finished
<1>6. EarnedInv'
  <2> SUFFICES ASSUME NEW i \in Known
               PROVE  jobs[i].retry <= runs'[i] /\ (Quiet(i)' \/ jobs[i].retry < runs'[i])
    BY <1>1 DEF EarnedInv
  <2>1. CASE i = id
    <3>1. jobs[id].retry <= runs[id] /\ runs'[id] = runs[id] + 1
      BY <1>1, <1>3, <2>1 DEF EarnedInv, SystemTypeOK
    <3> QED
      BY <1>1, <1>3, <2>1, <3>1
  <2>2. CASE i # id
    BY <1>1, <1>3, <1>5, <2>2 DEF EarnedInv, SystemTypeOK
  <2> QED
    BY <2>1, <2>2
<1>7. Executions!Start(id)
  <2>1. [i \in JobIds |-> IF i \in Known' THEN jobs'[i].retry ELSE 0] =
        [i \in JobIds |-> IF i \in Known THEN jobs[i].retry ELSE 0]
    BY <1>1
  <2>2. Live' = Live \cup {id}
    BY <1>4 DEF Live
  <2>3. id \notin Live
    BY <1>2 DEF Live, Quiet
  <2> QED
    BY <1>1, <1>2, <1>3, <2>1, <2>2, <2>3 DEF Executions!Start, Live
<1> QED
  BY <1>6, <1>7 DEF Executions!Next

\* A report is served.  The execution it is about has ended, and no other has
\* begun: this is what pays for a retry.
LEMMA ReportEarned ==
    ASSUME SystemTypeOK, ExecInv, EarnedInv, NEW id \in JobIds, NEW s \in Finished,
           ServeReport(id, s)
    PROVE  EarnedInv' /\ [Executions!Next]_(Executions!contractVars)
<1> DEFINE x == IF s = "done" THEN "ok" ELSE "error"
<1>1. UpdateJob(id, s, x) /\ x \in {"nil", "ok", "error"} /\ s \in PatchStatus
  BY DEF ServeReport, PatchStatus
<1> HIDE DEF x
<1>2. /\ UNCHANGED <<procs, runs>>
      /\ Report(id, s) \in patches /\ patches' = patches \ {Report(id, s)}
  BY DEF ServeReport
<1>3. Reports(id) = {Report(id, s)} /\ id \notin Live
  <2>1. Reports(id) = {Report(id, s)}
    BY <1>2 DEF ExecInv, ReportInv, Report
  <2> QED
    BY <2>1 DEF ExecInv, ProcInv, Live
<1>4. Quiet(id)' /\ \A i \in JobIds : Quiet(i) => Quiet(i)'
  BY <1>2, <1>3 DEF Quiet, Reports, Live
<1>5. id \in Known /\ jobs[id] \in Job /\ Known' = Known /\ Known \subseteq JobIds
      /\ \A i \in JobIds \ {id} : jobs'[i] = jobs[i]
  BY <1>1, UpdateEntry DEF SystemTypeOK, Known, Rows
<1>6. jobs[id].retry \in Nat /\ jobs[id].retry < runs[id] /\ runs[id] \in Nat
  <2>1. ~Quiet(id)
    BY <1>3 DEF Quiet
  <2> QED
    BY <1>5, <2>1, SchedulerConstants, JobSystemConstants DEF EarnedInv, Job, SystemTypeOK
<1>7. CASE jobs'[id] = Requeued(jobs[id]) /\ jobs[id].retry < MaxJobRetries
  <2>1. jobs'[id].retry = jobs[id].retry + 1
    BY <1>5, <1>7, JobFields
  <2>2. EarnedInv'
    BY <1>2, <1>4, <1>5, <1>6, <2>1 DEF EarnedInv
  <2>3. [i \in JobIds |-> IF i \in Known' THEN jobs'[i].retry ELSE 0] =
        [[i \in JobIds |-> IF i \in Known THEN jobs[i].retry ELSE 0]
            EXCEPT ![id] = jobs[id].retry + 1]
    BY <1>5, <2>1
  <2>4. Executions!Retry(id)
    BY <1>2, <1>3, <1>5, <1>6, <1>7, <2>3 DEF Executions!Retry, Live
  <2> QED
    BY <2>2, <2>4 DEF Executions!Next
<1>8. CASE jobs'[id] = Reported(jobs[id], s, x)
  <2>1. \A i \in Known : jobs'[i].retry = jobs[i].retry
    BY <1>5, <1>8, JobFields
  <2>2. Live' = Live
    BY <1>2 DEF Live
  <2> QED
    BY <1>2, <1>4, <1>5, <2>1, <2>2, NothingStarts
<1> QED
  BY <1>1, <1>7, <1>8, UpdateEntry DEF SystemTypeOK

\* An execution ends; its report, if there is one, is about a run that counts.
LEMMA ExitEarned ==
    ASSUME SystemTypeOK, ExecInv, EarnedInv, NEW p \in procs, NEW s \in Finished, Exit(p, s)
    PROVE  EarnedInv' /\ [Executions!Next]_(Executions!contractVars)
<1>1. UNCHANGED <<jobs, runs>> /\ procs' = procs \ {p} /\ Known' = Known /\ Known \subseteq JobIds
  BY DEF Exit, schedulerVars, Known, Rows
<1>2. patches' \subseteq patches \cup {Report(p.job, s)}
  BY DEF Exit
<1>3. Live' \subseteq Live
  BY <1>1 DEF Live
<1>4. \A id \in JobIds : Quiet(id) => Quiet(id)'
  BY <1>1, <1>2 DEF Quiet, Reports, Report
<1> QED
  BY <1>1, <1>3, <1>4, NothingStarts

LEMMA NextRuns ==
    ASSUME ~SavesMayFail, SystemTypeOK, DurableInv, ExecInv, EarnedInv, [SystemNext]_vars
    PROVE  EarnedInv' /\ [Executions!Next]_(Executions!contractVars)
<1>0. TypeOK /\ FreshIds /\ db = jobs /\ Known \subseteq JobIds /\ Known' \subseteq JobIds
  BY DEF DurableInv, DbInSync, Known, Rows
<1>1. CASE Submit
  <2>1. UNCHANGED <<procs, patches, runs>>
    BY <1>1 DEF Submit, agentVars
  <2>2. CASE \E s \in submits : InsertJob(s)
    <3>1. PICK s \in submits : InsertJob(s)
      BY <2>2
    <3>2. /\ s.id \in JobIds \ Known /\ jobs'[s.id] = NewJob(s) /\ Known' = Known \cup {s.id}
          /\ \A id \in JobIds \ {s.id} : jobs'[id] = jobs[id]
      BY <1>0, <3>1, InsertEntry
    <3>3. NewJob(s).retry = 0
      BY DEF NewJob
    <3> QED
      BY <1>0, <2>1, <3>2, <3>3, NothingReported
  <2>3. CASE UNCHANGED jobs
    <3>1. Known' = Known
      BY <2>3 DEF Known, Rows
    <3> QED
      BY <1>0, <2>1, <2>3, <3>1, NothingReported
  <2> QED
    BY <1>1, <2>2, <2>3 DEF Submit, AllocateId
<1>2. ASSUME NEW overdue \in SUBSET JobIds, Expire(overdue)
      PROVE  EarnedInv' /\ [Executions!Next]_(Executions!contractVars)
  <2>1. UNCHANGED <<procs, patches, runs>> /\ WatchJobTimeouts(overdue)
    BY <1>2 DEF Expire
  <2>2. Known' = Known /\ \A id \in Known : jobs'[id].retry = jobs[id].retry
    BY <1>0, <2>1, TimeoutEntries, KnownJobs, JobFields
  <2> QED
    BY <1>0, <2>1, <2>2, NothingReported
<1>3. CASE SchedulerRestart \/ \E n \in Nodes : Poll(n) \/ GiveUp(n) \/ AgentCrash(n) \/ FleetChange(n)
  <2>1. jobs' = jobs /\ runs' = runs
    BY <1>0, <1>3
    DEF SchedulerRestart, Restart, agentVars, Poll, GiveUp, AgentCrash, FleetChange, schedulerVars
  <2>2. Known' = Known
    BY <2>1 DEF Known, Rows
  <2>3. \A m \in patches' : m.status \in Finished => m \in patches
    <3>1. ASSUME NEW n \in Nodes, Abandon(n)
          PROVE  \A m \in patches' : m.status \in Finished => m \in patches
      BY <3>1, AbandonedPatches DEF SystemTypeOK
    <3>2. ASSUME NEW n \in Nodes, Poll(n)
          PROVE  \A m \in patches' : m.status \in Finished => m \in patches
      BY <3>2 DEF Poll, Mark, Finished
    <3> QED
      BY <1>3, <3>1, <3>2 DEF SchedulerRestart, agentVars, GiveUp, AgentCrash, FleetChange
  <2>4. \A p \in procs' : \E q \in procs : p.job = q.job
    <3>1. ASSUME NEW n \in Nodes, AgentCrash(n)
          PROVE  \A p \in procs' : \E q \in procs : p.job = q.job
      <4>1. \A p \in procs : [p EXCEPT !.owned = FALSE].job = p.job
        BY DEF SystemTypeOK, Proc
      <4> QED
        BY <3>1, <4>1 DEF AgentCrash
    <3> QED
      BY <1>3, <3>1 DEF SchedulerRestart, agentVars, Poll, GiveUp, FleetChange
  <2> QED
    BY <1>0, <2>1, <2>2, <2>3, <2>4, NothingReported
<1>4. ASSUME NEW id \in JobIds, NEW w \in BOOLEAN, ServeMark(id, w)
      PROVE  EarnedInv' /\ [Executions!Next]_(Executions!contractVars)
  <2>1. UpdateJob(id, "running", "nil") /\ patches' = patches \ {Mark(id, w)}
    BY <1>4 DEF ServeMark
  <2>2. CASE UNCHANGED <<procs, runs>>
    <3>1. /\ Known' = Known /\ jobs[id] \in Job
          /\ jobs'[id] = Reported(jobs[id], "running", "nil")
          /\ \A i \in JobIds \ {id} : jobs'[i] = jobs[i]
      BY <1>0, <2>1, UpdateEntry DEF PatchStatus, Finished
    <3>2. \A i \in Known : jobs'[i].retry = jobs[i].retry
      BY <1>0, <3>1, JobFields
    <3> QED
      BY <1>0, <2>1, <2>2, <3>1, <3>2, NothingReported
  <2>3. ASSUME w, NEW n \in Waiting(id), Start(n, id, jobs[id].kind)
        PROVE  EarnedInv' /\ [Executions!Next]_(Executions!contractVars)
    <3>1. w = TRUE
      BY <2>3
    <3> QED
      BY <2>1, <2>3, <3>1, StartEarned
  <2> QED
    BY <1>4, <2>2, <2>3 DEF ServeMark
<1>5. ASSUME NEW id \in JobIds, NEW s \in Finished, ServeReport(id, s)
      PROVE  EarnedInv' /\ [Executions!Next]_(Executions!contractVars)
  BY <1>5, ReportEarned
<1>6. ASSUME NEW m \in patches, DropPatch(m)
      PROVE  EarnedInv' /\ [Executions!Next]_(Executions!contractVars)
  <2>1. UNCHANGED <<jobs, procs, runs>> /\ patches' \subseteq patches
    BY <1>6 DEF DropPatch, schedulerVars
  <2>2. Known' = Known
    BY <2>1 DEF Known, Rows
  <2> QED
    BY <1>0, <2>1, <2>2, NothingReported
<1>7. ASSUME NEW p \in procs, NEW s \in Finished, Exit(p, s)
      PROVE  EarnedInv' /\ [Executions!Next]_(Executions!contractVars)
  BY <1>7, ExitEarned
<1>8. CASE UNCHANGED vars
  <2>1. UNCHANGED <<jobs, procs, patches, runs>> /\ Known' = Known
    BY <1>8 DEF vars, schedulerVars, agentVars, Known, Rows
  <2> QED
    BY <1>0, <2>1, NothingReported
<1> QED
  BY <1>1, <1>2, <1>3, <1>4, <1>5, <1>6, <1>7, <1>8 DEF SystemNext

LEMMA InitRuns == SystemInit => EarnedInv /\ Executions!Init
<1> SUFFICES ASSUME SystemInit PROVE EarnedInv /\ Executions!Init
  OBVIOUS
<1>1. Known = {} /\ procs = {} /\ runs = [id \in JobIds |-> 0]
  BY DEF SystemInit, Init, Known, Rows
<1> QED
  BY <1>1 DEF EarnedInv, Executions!Init

\* When saves do not fail, executions follow the contract: one of a job at a
\* time, one for its submission and one for each retry, and a retry only for
\* an execution that took place and is over, whatever PATCHes are lost or late
\* and whoever crashes (start_job_worker, updateJob, watchJobTimeouts).
THEOREM ExecutionsFollowContract ==
    ASSUME ~SavesMayFail
    PROVE  SystemSpec => RunsKept
<1> DEFINE I == SystemTypeOK /\ DurableInv /\ ExecInv
<1>1. I /\ EarnedInv /\ [SystemNext]_vars => EarnedInv' /\ [Executions!Next]_(Executions!contractVars)
  BY NextRuns
<1> QED
  BY <1>1, InitRuns, ExecutionInv, PTL DEF SystemSpec, RunsKept, Executions!Spec
=============================================================================
