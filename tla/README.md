# Verification of tiny-aws

TLA+ models of tiny-aws, the TLC runs that check them, and proofs of their main
properties. `PROJECT.json` ties every definition to the lines of source it
models, every property to the hazards it is aimed at, and lists what each run
and each theorem establishes. Source paths below are relative to `src/`.

## 1. The system

tiny-aws is a set of small HTTP services. Most of them keep a SQLite table
and, in front of it, a Go map or slice behind a mutex or an atomic counter.
They talk to each other by HTTP requests that are sent once, whose errors are
logged and dropped. No transaction spans two statements, and no lock is held
over a database and a memory update unless noted. That is where the hard
behaviour comes from: two handlers interleaving between their statements, a
request that is lost, answered to nobody or served late, and a process that
restarts with the table as it was left.

| Component | State | Operations | Talks to |
|---|---|---|---|
| Scheduler, `control-plane/scheduler` | map `jobs` (under `jobsMu`), table `jobs`, counter `jobSeq` | submit, list (the agents' poll), PATCH, timeout watcher, SQS poller, restart | registry, SQS, SNS, agents |
| EC2 agent: job worker, `data-plane/compute/ec2-agent/src/jobs.rs` | one worker loop, child processes, map of service pids, workspaces | poll, mark running, run (blocking) or serve (a task), report, kill stopped services | scheduler, registry |
| EC2 agent: server, instances, heartbeat | rootfs directories, nspawn containers | provision (a thread), destroy, heartbeat, register | registry |
| Registry: nodes, `control-plane/registry/main.go` | map `nodes`, table `nodes` | register, heartbeat, delete, health check and pruning | agents |
| Registry: instances, `instances.go` | slice `instances`, table, counter | launch, list, PATCH status, terminate, restart | agents |
| Registry: services, `services.go` | table `services` | create, list, PATCH, delete (marks stopped) | agents, load balancer |
| Registry: auth and users, `auth.go`, `iam.go` | API keys, users, roles | decide, create, delete | - |
| SQS, `control-plane/messaging/sqs` | tables `queues`, `messages`, counter | create, send, receive, delete, restart | scheduler |
| SNS, `control-plane/messaging/sns` | topics, subscriptions, counter | subscribe, publish (fan-out by HTTP) | Lambda |
| Lambda, `data-plane/compute/lambda-runtime` | functions, triggers | invoke (submit a job and poll it), notified by SNS | scheduler, SNS |
| Object store, `data-plane/storage` | blocks, metadata table, peer list | PUT, GET (with fallback to peers), DELETE, buckets, replication | registry, peers, SNS |
| Load balancer, `data-plane/networking/load-balancer` | list of targets, counter | refresh, pick the next | registry, agents |
| Controller, `control-plane/controller` | map `cleaned` | reconcile terminated instances | registry |
| VPC, network agent | tables of networks, iptables rules | create, assign, emit rules | - |
| API gateway, metadata service, CLI | none to speak of | forward, answer, request | all |

What makes each part correct, and what is hard about it:

* *Scheduler and workers.* An accepted job is not lost; it is executed by one
  process at a time, at most once more than it may be retried, and in the end
  finishes; a node is not overloaded. Hard: the worker learns only from the
  reply to its PATCH whether it may start; reports, timeouts and marks are
  applied whatever the job's status is; both sides crash.
* *Queues.* An accepted message is not overwritten; it is delivered, as often
  as configured, before it becomes a dead letter; it is not acknowledged before
  its job is on disk. Hard: numbers are taken before the insertion, a receive
  is a SELECT and then an UPDATE, and the acknowledgement is best effort.
* *Instances.* A number names one instance; a terminated instance stays
  terminated and its container gone. Hard: database and memory are written
  one after the other by handlers that do not exclude each other; status
  reports and destroy calls race with provisioning.
* *Nodes.* Map and table agree, a silent node is dropped, a dropped one stays
  out until it registers. Hard: registration saves outside the lock; a pruned
  node sends heartbeats for ever without being told to register again.
* *Services.* A signal reaches the processes of stopped services and no other;
  the mark "stopped" holds while the process lives. Hard: the poller works off
  an old list, the report of a crash overwrites "stopped", numbers come back
  after a failed save, one SIGTERM is sent, once.
* *Load balancer.* What is dead leaves the list, and no app is in it twice.
  Hard: a refresh is put together from two requests, between which nodes,
  services and processes come and go; its health checks run one after the other
  and have no timeout.
* *Objects.* File and row agree, stores agree; the documentation adds that a read
  of what no store has is a miss, which the code does not keep (section 6). Hard:
  two-step writes and deletes, replicas that replicate again, copies whose
  refusal nobody looks at, reads that are passed on to peers which pass them back.
* *Events.* An object starts each function a bounded number of times; what was
  answered 201 is stored. Hard: a restart subscribes again, counters start over,
  errors of an INSERT are dropped.

`PROJECT.json`, under "hazards", lists these one by one at their lines.

## 2. The modules

| Module | What it is | Code |
|---|---|---|
| `Scheduler` | the job table with all its handlers, database and restarts; its environment may PATCH anything | `main.go`, `store.go` |
| `JobContract` | what the scheduler promises: abstract specification, implemented by `Scheduler` | - |
| `JobSystem` | `Scheduler` composed with the worker loops, executions and messages | `jobs.rs` |
| `RunContract` | what scheduler and agents promise about executions: abstract, implemented by `JobSystem` | - |
| `Sqs` | the queue service | `sqs/main.go` |
| `JobIntake` | `Sqs` composed with the scheduler's poller | `pollSQSQueue` |
| `MessageContract` | what queue and poller promise about a message: abstract, implemented by `JobIntake` | - |
| `Instances` | registry and agent over the life of an instance | `instances.go`, `server.rs`, `instances.rs` |
| `NodeRegistry` | the table of nodes and the programs that register and send heartbeats | `registry/main.go`, `store.go`, the agent's `registry.rs`, `heartbeat.rs` |
| `Services` | the tasks of service processes, the kill poller, the table of services | `jobs.rs` (`run_service`, `kill_stopped_services`), `services.go` |
| `Fleet` | `NodeRegistry` and `Services` composed with the load balancer | `load-balancer/main.go` |
| `ObjectStore` | object stores that copy to and ask one another, with the engine below | `object-store/src`, `storage/engine/src` |
| `Triggers` | SNS's topic and lambda's functions and triggers | `sns/main.go`, `lambda-runtime/main.go` |
| `Networking` | the five tables of the networking service and their one counter | `networking/vpc/main.go` |
| `Events` | `ObjectStore`, `Triggers` and `Networking` composed | `server.rs` (`notify_object_created`) |
| `MC...` | constants, foci and symmetry for TLC; `MCObjectStore` is two stores between which nothing fails, for `miss_doc` | - |
| `...Proofs` | theorems and proofs | - |

### Scheduler

`jobs` is the map, `db` the rows, `jobSeq` the counter. A submission is two
actions, `AllocateId` and `InsertJob`, because the number is taken without the
lock and the job inserted under it; `submits` holds the handlers in between.
Everything else under `jobsMu` is one action: `UpdateJob` (PATCH),
`WatchJobTimeouts` (a tick), and `Restart`, which drops open handlers and
reloads. `Save` may leave any of its rows as they were when `SavesMayFail`: the
code only logs the error. `receipts` and `notices` are what clients were told.
A job keeps the fields decisions depend on; output, command, environment and
timestamps are left out. The answers of the registry are any node. The jobs the
SQS poller makes are inserted in the same way and are submissions here whose
reply is lost.

Time is abstracted: the set of running jobs that are overdue at a tick is any
set.

### JobSystem

`worker[n]` is the loop of `start_job_worker` on node n; `procs` the processes
it started, `owned` as long as the agent that started them waits for their end;
`patches` the requests in flight. A PATCH is served with its reply arriving
(`ServeMark` with `Start`), served with its reply lost, lost itself
(`DropPatch`), or abandoned by its sender and served later (`GiveUp`).
`AgentCrash` may leave children running as orphans. `fleet[n]` is what the list
of instances of the node makes the worker do: it polls when there is no
instance or one is running.

Simplifications, each on the side of more behaviour except where it says so:
a worker goes on after a run-once job without waiting for the answer to its
report; two abandoned marks of one job are one message; one agent per node id
is running at a time (an assumption); workspaces, the shell and output
collection are left out; the retries of the list requests are stuttering.

`RunContract` knows neither polls nor PATCHes nor crashes: a job is live or not,
was started so often, and was granted so many retries. `Executions` maps the
live processes, `runs` (how often a job was started) and the retry counts of the
scheduler's map to it.

### Sqs and JobIntake

`messages[id].row` is the SQLite rowid, on which delivery order and the counter
after a restart depend. `sends` and `reads` hold handlers between their two
statements. A statement that fails leaves the table as it was, and the code
answers as if it had worked, except for the INSERT of a send, which is answered
500. `hidden` stands for `visible_after`: `Reveal` may happen at any moment.
Receive counts saturate at `CountCap`, above every `max_receive_count`; a
message moved to a dead letter queue keeps its count, as in the code.

`JobIntake` adds the poller (`resting`, `receiving`, `holding` a message,
`acking`), DELETEs in flight, and the number of jobs made in memory and saved
on disk per message; `interrupted` counts how often a message's processing was
cut short. `Others` is everything other clients of the service do. DELETEs in
flight survive a crash of the queue service, which is more than can happen.
Assumed: nobody but the poller receives from or deletes in the jobs queue, and
it is not the dead letter queue of another queue.

`MessageContract` has for each message a place (absent, waiting, dead letter or
gone), the jobs made of it, and how often work on it was cut short. `Messages`
maps rows, saved jobs and `interrupted` to it; handlers, counters, visibility
and the poller's progress have no counterpart there.

### Instances

A launch is `TakeNumber`, `SaveInstance`, `AppendInstance`; each handler that
writes a status is `WriteRow` followed by `WriteMemory`, started by a PATCH, a
failed provision call or a termination (`Begin`). The agent's provisioning
thread goes through `CheckRootfs`, `CopyRootfs` and `Boot`; a destroy call
takes three seconds between `DestroyCall` and `DestroyInstance`, and its
commands may fail unnoticed. Calls may be lost in either direction, and both
programs crash. A command the agent waits for (cp, systemd-run) may outlive it.
`final` and `destroyed` record the terminations that a client was told of and
the containers that went away, for terminations begun after the provisioning
had come to its end.

Left out: errors of the database other than in Save, which ends the process;
the choice of the node (an agent matters to an instance only by crashing, and
instances share nothing on it); networking of the container, which is set up on
a best-effort basis. Identical handlers in flight for one instance are one.

### NodeRegistry

`nodes` is the map, `disk` the table, `saving` the registrations between the end
of the lock and `Save`. Heartbeat, delete and health check write map and table
under the lock, and are one action each with `Persist`, which may fail for any
of the rows it writes. A program starts, registers until it is answered, beats,
and dies; an agent and an object store differ in that the load balancer lists
the first only. Time is the age of an entry in three steps, which `TimePasses`
advances: within 30 s, within five minutes, older; the health check acts on the
last two. `raced` names the nodes whose map entry changed while a registration
of them was still to be saved, or whose statement failed. A heartbeat of a node
that is not listed is a 404 that nobody acts on, a stuttering step. Capacity,
role and host name of a node are one value per start (`boot`).

### Services and Fleet

One run of a job is `[job, run]`; its task (`run_service`) goes from
`registering` over `numbered` (the registry has given a number, the row is not
saved), `waiting` for the process, `patching` (the registry) and `reporting`
(the scheduler) to `over`. Each of its three calls is sent once and may be lost
(`unheard`). `pids` is the agent's map, from which an entry goes when the
process is reaped or killed. The poller reads the list of stopped services
(`PollStopped`) and works it off one by one (`KillStopped`). `given` remembers
which number was given for which run: `SharesNumber` are the runs whose number
was given twice. The scheduler is here only as far as its retry goes; its
timeouts are in `JobSystem`.

`Fleet` joins both to the load balancer: registry and agent are one process
each, so that `RegistryRestart` reloads both tables and `ProgramDies(Home)`
takes the agent's tasks with its heartbeats. `RefreshNodes` and
`RefreshServices` are the two requests of `refresh`; `view` holds what it has
read and not checked yet (`list`) and what it has checked (`done`). `checkHealth`
is called for one address after the other: a check returns (`CheckReturns`), or
the backend accepts the connection and lets it wait (`CheckHangs`), and then it
returns when that backend answers (`BackendAnswers`), which it need not ever do,
or dies, since the code sets no timeout. `SwapTargets` exchanges the list after
the last check. A check of something that is up may be answered otherwise than
with 200. `Route` is `nextTarget` with the 64-bit counter as a counter of
`CounterSize` values, so that its overflow happens. The order of rows is any
order. The two GETs to the registry are answered or fail; that the registry
accepts one and never answers it (they have no timeout either) is left out.

### ObjectStore, Triggers, Networking, Events

`calls` are the handlers under way. One that copies to or asks a peer becomes a
handler at the peer, in a slot of its own, whose caller waits (`by`, `wait`),
as the peer cannot tell a store from a client and may copy on or ask on. A PUT
is `OpenBlock` (which empties the file), `WriteBlock`, `Index` (the row), one
`CallPeer` per peer; a DELETE and a GET go the same way. A file that was opened
and not yet written holds `Torn`. Bytes are the number of the client's PUT.
`CallLost`, `HangUp` (a client that goes away makes the framework drop the
handler), `StoreRestart` and the local steps that fail are the faults, and each
has the consequence it has in the code: a file that cannot be opened or removed
(`OpenFails`) and a row that cannot be written (`UpsertFails`) end the handler
with an error, the latter with the new file in place; a write to an opened file
that goes wrong (`WriteFails`) and a row that cannot be removed (a disjunct of
`Index`) go unnoticed, and the client is told 201 or 204; a file that cannot be
read is a miss (`ReadBlock`). `keyed` are the stores started with
`TINYAWS_API_KEY`: a store sends no key along when it calls a peer, so one of
them answers every such call 401, which the caller does not look at (`CallLost`
without a fault). Objects of buckets have keys of their own: the address a
store would call for one has no route, so that nothing of them is copied or
asked for. `alone`, `clean`, `joined`, `torn` and `apart` are history, which
the properties speak of: who else wrote the object meanwhile, and which objects
had a call or a step that failed.

`Triggers` keeps the rows and counters of SNS and lambda, and bags of what is on
its way: notices to SNS, deliveries to lambda, invocations. SNS drops every
error of its INSERT, that of a number which is taken and any other, and answers
201; `subFailed` remembers the others. Lambda answers both with 500 (`Refused`).
`LambdaStart` subscribes once more and forgets its counter. An invocation ends
with the job it makes; what follows in `handleInvoke` only reads the job.

`Networking` has one action per handler that creates a row (`Number`, then
`Insert`), the subnet of an instance, and the restart, which keeps the rows and
starts the counter over. Errors of an INSERT are dropped as in SNS
(`netFailed`). What a row refers to is not looked up by the code.

`Events` adds the notice that the handler of every PUT sends, copies included;
`announced` keeps count of these notices, for the properties.

## 3. The runs

| Run | Bounds | Checks |
|---|---|---|
| `scheduler` | 1 node, 2 clients, 2 numbers, 1 retry, no failed saves | `TypeOK`, `FreshIds`, `ReceiptsHonoured`, `FailureNoticesFinal`, `ContractSpec` |
| `job_system` | 2 nodes, 2 jobs, 1 slot each, 1 retry | `SystemTypeOK`, `NoConcurrentRuns`, `CapacityUnlessExpired`, `OutcomeMatchesStatus`, `ExecInv`, `RunsKept` |
| `job_liveness` | 1 node, 1 client who submits twice | `PendingFinishes` |
| `intake` | 2 messages, a good and a bad body, 2 queues, 1 interruption each | `IntakeTypeOK`, `SentIsStored`, `AckedMeansJob`, `IntakeInv`, `DeadLettersWereTried`, `MessagesKept` |
| `intake_liveness` | 2 good messages, no other client | `MessagesBecomeJobs` |
| `instances` | 2 numbers, each given out at most twice | `InstancesTypeOK`, `ReuseNeedsOvertaking`, `TerminatedIsFinal`, `DestroyedStaysGone` |
| `fleet` | an agent and an object store, 2 jobs or 2 runs of one, 2 service numbers, 2 starts per program, 1 failed statement, 1 failed save | `FleetTypeOK`, `DiskMatchesMemory`, `KillsOnlyStopped`, `StaleRowsExplained`, `SecondStopFinal`, `OneTargetPerApp`, `StopHolds`, `OutcastStaysOut`, `SilentPruned`, `StoppedSignalled`, `DeadLeave` |
| `events` | 2 stores, 2 objects, 2 PUTs, 3 calls at once, 1 fault, no key or the replica's, 2 starts of SNS and lambda, 3 of networking | `EventsTypeOK`, `ReplicasAgree`, `MetaMatchesBlock`, `OncePerNotice`, `LostRowsExplained` |
| `capacity_doc`, `final_doc`, `id_reuse`, `miss_doc` | the smallest instance that shows it | see section 6 |

Why the bounds are enough. Every property is about one or two jobs, messages or
instances and the order of events on them; the second one is there to take the
slot, the number or the place in line of the first. One retry is the code's
constant (`maxJobRetries`). `MaxRuns` 3 is never reached, as `RunsBounded`
(section 5) says. `MaxMsg` 2 lets numbers be saved out of order and come back;
`MaxFaults` bounds the interruptions per message, and one is enough for a
duplicate; `MaxReads` bounds receives that are not the poller's, and one is
enough to race. In `instances`, only number 2 can come back (its save must have
overtaken that of number 1), so only it is followed through its whole life
(`Followed`); `MaxCreated` 2 is one reuse. The deeper results are then proved
for every value (section 5).

`fleet` and `events` have many actors, and all of them at once are far too many
states. Each behaviour of `MCFleet` and `MCEvents` therefore has a focus, chosen
at the start: the actors that move in it, the others standing still. What is
found is a behaviour of `Fleet` or `Events` in any case; what is not looked at is
a violation that needs actors of several foci. The foci were cut along what the
properties relate:

* `fleet`: one node's program with registry and faults (`agent`, `store`); agent,
  services and poller with crashes of the agent, or restarts of the registry,
  or two jobs whose saves overtake one another (`crashes`, `restarts`,
  `overtaking`); the refresh with nodes that come and go, or with services that
  do (`hosts`, `targets`), both with checks that hang; and requests, with a
  restart of the load balancer (`requests`). In the last two the agent passes
  its checks. About 396,000 states.
* `events`: two clients that write and delete one object (`writes`); one client
  with all faults, buckets, restarts and a key (`failures`); reads (`reads`); a PUT up
  to its invocations (`events`); SNS and lambda with restarts (`topic`); the
  networking service (`network`). About 1.6 million states.

Three calls at once are a client's, the copy or question of the store it called,
and what the peer passes back; a fourth goes on in the same way. One PUT is
written over another with two. The counter of requests has four values and at
most two targets to choose from.

Deadlock is checked in the runs of the first four parts: when the numbers are
used up, restarts and agents still move. In `fleet` and `events` it is not: with
the bounded numbers used up, nothing may be left to happen in a focus.

In words, what the passing runs show:

* `FreshIds`: a number held by an open submission is used by nobody else,
  although it is taken outside the lock and restored from whatever rows exist.
* `ReceiptsHonoured`, `FailureNoticesFinal`: what a client or a subscriber was
  told stays true across crashes, when saves do not fail.
* `ContractSpec`: seen from outside, the scheduler never crashes: accepted jobs
  stay, and change status in the ways `JobContract` allows.
* `NoConcurrentRuns`, `CapacityUnlessExpired`: one execution per job at a time,
  and no more executions than slots, jobs the watcher gave up set aside. This is
  a delicate result: it rests on timeouts *not* requeueing a job while its
  process may be alive, and on the worker starting a job only when it has seen
  the reply to its mark.
* `RunsKept`: the same as a refinement of `RunContract`, step by step: no second
  process while one lives, no start without a retry to pay for it, and no retry
  for an execution that has not taken place or is not over: one execution may
  not earn two retries by a late report, a timeout or a crash. That no job
  starts more than `MaxJobRetries + 1` times (`RunsBounded`, proved) follows.
* `OutcomeMatchesStatus`: status, exit code and end time never disagree.
* `SentIsStored`: although the counter restarts from the last row rather than
  the highest number, the primary key turns a collision into a refused send.
* `AckedMeansJob`, `IntakeInv`: at-least-once, with duplicates only where the
  loop was interrupted (`DuplicatesExplained`, proved, is what `IntakeInv` says
  of them).
* `MessagesKept`: the two together implement `MessageContract`: a message waits
  until its work is done or it is a dead letter, is never replaced or queued
  again once it was deleted, and one more job is made of it only for one more
  interruption, also after it has become a dead letter.
* `DeadLettersWereTried`: no message is a dead letter before its deliveries. A
  message keeps its count when it moves; with a second dead letter queue behind
  the first, a move counts as a delivery, and a message may pass a queue that
  never delivered it. The run has one such queue; chains of them are covered by
  the proof.
* `ReuseNeedsOvertaking`, `TerminatedIsFinal`, `DestroyedStaysGone`: which
  numbers and terminations can be relied on. A termination that starts while
  provisioning, or its report, is still under way is *not* among them: a late
  PATCH "running" makes a terminated instance running again.
* `DiskMatchesMemory`: map and table of nodes agree; the late save of a
  registration and a failed statement are the only ways apart, and the next
  write of the node ends it.
* `OutcastStaysOut`: a program whose node was dropped stays out until it is
  started again, as its heartbeats are answered 404 and ignored.
* `KillsOnlyStopped`, `StopHolds`, `SecondStopFinal`, `StaleRowsExplained`: a
  signal follows a stop, a stop mark is not lost before the poller has seen it,
  a service that was stopped comes back once, as the retry of its job under a
  new number, and not after it was stopped again, and rows that say running for
  ever stem from a lost call or a dead agent. A shared number breaks the first
  two, which is why they name it.
* `OneTargetPerApp`: the list of targets has no app twice, although it is put
  together from two readings.
* `ReplicasAgree`, `MetaMatchesBlock`: what it takes for two stores, or the file
  and the row of one, to differ: a lost call, a store with a key, which refuses
  every copy, a writer who met another, a store that does not copy to all others,
  a step that failed, a crash between the two steps; the next write that goes
  well repairs it.
* `OncePerNotice`: for each time a store announced an object, a trigger makes at
  most one invocation per start of lambda, whatever is lost or delayed and
  whoever restarts. (Stores that copy to one another take the same PUT again
  and again, and announce it each time; the bound is per announcement.)
* `LostRowsExplained`: a subscription or a network row that was answered 201 and
  is not there is one the database failed to take, or has a number that was given
  before the last restart and that an older row has. So an object is never lost
  to one that came later, nor between starts.

### Liveness and its fairness

`PendingFinishes`: a pending job of a node whose worker may from some time on
poll is in the end done or failed. `MessagesBecomeJobs`: a message that
describes a job is in the end a job or a dead letter. Both may happen while
agents, scheduler and queue service crash again and again.

Assumed, and why: workers, watcher and poller run on tickers in endless loops,
so a poll that is possible time and again happens (strong fairness, as crashes
and a full node interrupt it), a job that stays running is timed out, a hidden
message becomes visible, and a handler that has begun comes to its end (weak
fairness). PATCHes of a job, receives and statements of the database do not
fail for ever (strong fairness; a retry happens at the next tick). Run-once
commands end: this one the code does not see to, since neither the agent nor
the scheduler kills a command that hangs, and the worker is then blocked for
good. A message is not for ever without a node. Not assumed: that services end,
that reports arrive, that crashes stop.

In `fleet`, fairness is asked of tickers only: the health check of the registry
(10 s), time itself (an entry that no heartbeat renews ages), the kill poller
(10 s), and the refresh of the load balancer (10 s), which does not find the
registry out of reach for ever. Of a refresh under way it asks that a check
returns which no backend keeps waiting. It does not ask that a backend answers
(`BackendAnswers`), as nothing in the code makes it: one check that
waits for ever ends all refreshing. All of it is weak fairness, of the actors in
focus, since the others do not move; each liveness property is stated for the
behaviours whose focus has the actor it waits for.

* `SilentPruned` (`SilentNodesPruned`): a program that stays down is in the end
  not listed, although statements fail, its last registration may still be on
  its way, and the registry restarts.
* `StoppedSignalled` (`StoppedIsSignalled`): a process the agent knows by its
  number, of a service that is marked stopped, is signalled, unless it exits,
  the agent dies or its number is shared.
* `DeadLeave` (`DeadTargetsLeave`): what has stopped answering is in the end no
  healthy target, provided that no check waits for ever (`[]<>~Blocked`). The
  code does not see to that premise; one app or agent that accepts connections
  and stays silent is enough for dead targets to stay healthy.

## 4. Mutants

Next to a definition, each module has mutants: the same definition with a
plausible mistake (a dropped condition, a retry not counted, an acknowledgement
too early, numbering from zero, a heartbeat that is not saved, a row that outlives
its file). Each property is violated by the mutant
`PROJECT.json` pairs it with, so none of them holds by the shape of the model.

## 5. The proofs

`tlapm` checks all of the eight modules of proofs, for every number of nodes,
clients, jobs, retries, slots, messages, queues, interruptions, instances,
services, stores, calls and faults. Each follows the same argument: an inductive
invariant, a lemma per action that says the action keeps it, and the property
as a consequence.

* *Scheduler.* `SchedulerTypeOK` and `NumbersAreFresh` hold whether or not
  saves fail. From `~SavesMayFail`: `AcceptedJobsSurvive`,
  `AnnouncedFailuresAreFinal`, `ImplementsContract`. The inductive invariant is
  `DurableInv`: types, fresh numbers, `db = jobs` (between actions the rows
  are the map), and the two properties themselves. Without `db = jobs` a
  restart could take back anything; without fresh numbers an insertion could.
* *JobSystem.* `JobSystemTypeOK` without assumption; from `~SavesMayFail`:
  `OneRunAtATime`, `StartsAreBounded`, `CapacityHolds`, `ExecutionsInStep`. The
  invariant is
  `ExecInv` with `DurableInv`: a worker waiting for the answer to its mark has
  a quiet job (no process, no report under way), an unspent run and a free slot
  (`MarkingInv`); a process's job is not pending and not reported on
  (`ProcInv`); there is at most one report per job (`ReportInv`); runs are paid
  for by retries (`RunInv`). Each action gets a lemma, after two general ones:
  what changes to the jobs alone preserve (`JobsMove`), and what losing
  messages and processes preserves (`ThingsGetLost`).

  `SystemImplementsContract` carries the contract of the scheduler over to the
  composition, every step of which is one of the scheduler's or leaves it alone
  (`SchedulerStep`). `ExecutionsFollowContract` is the refinement of
  `RunContract`. That a retry is granted only for an execution that is over
  needs `EarnedInv` besides `ExecInv`: a job was started at least as often as it
  was queued again, and more often than that while an execution of it is alive
  or its report is on the way. `ExecInv` bounds starts by retries; this is the other
  direction.
* *JobIntake.* `IntakeTypes`, `SentMessagesStay` and `OneJobPerMessage` without
  assumption; `AcknowledgedWorkIsSaved` from `~SavesMayFail`. The invariant is
  `IntakeInv`: handlers, poller and DELETEs refer to stored messages and only
  settled ones are acknowledged (`WorkInv`), deleted messages of the jobs queue
  are settled, and a message is ahead of its interruptions by one job at most,
  and then its DELETE is awaited or done and the poller is not about to see it
  again (`MadeInv`). The lemmas `...Kept` say that no handler takes back what a
  message is or that it was deleted.

  `IntakeInStep` is the invariant itself, which the run checks too.
  `DeadLettersAreTried` needs `CountedInv` besides: no row counts a receive that
  did not take place, and no handler more than one beyond.

  `IntakeKeepsContract`, from `~SavesMayFail`, is the refinement of
  `MessageContract`. It follows from `IntakeInv` and from `SendsInv`, which says
  that all sends under way go to the jobs queue: a place changes only by an
  insertion, a move to a dead letter queue or a DELETE, and `WorkInv` has the
  DELETE only for settled messages.
* *JobSystem, outcomes.* `OutcomesMatch` needs no assumption on saves: the
  invariant `OutcomeInv` says of map and rows alike that status, exit code and
  end agree, so that a restart from rows that were not saved keeps it.
* *Instances.* `NumbersRepeatOnlyOvertaken`, `TerminationsStand`,
  `DestructionsStand`. The invariant `Inv` orders launches, rows and memory by
  number as long as no save overtook another (`OrderInv`), keeps handlers and
  calls of an instance away once it is in `final` (`QuietInv`, `EndedInv`), and
  bounds what table and list may say of it (`TableInv`, `ListInv`). Without
  `QuietInv` a late report could take a termination back. `InstancesKeepTypes`
  adds the bounds on table and list: an entry is determined by its instance and
  its rank among the entries of that one, so there are no more entries than
  pairs of the two (`ListsAreBounded`).
* *NodeRegistry.* `NodesKeepTypes`, `TableFollowsMap`, `OutcastsStayOut`, from
  `NodesInv`: types, and `InStep`, which is `DiskMatchesMemory` with what a
  registration still to be saved may differ in.
* *Services.* `ServicesKeepTypes`, `PollerKillsStopped`, `RowsAreCorrected`,
  `StoppedTwiceIsOver`, and the action property `StopMarksHold`. The invariant
  has runs paid for by the retry (`RunInv`), names that were given (`GivenInv`),
  handlers that work for a task which waits for them (`CreateInv`), rows that
  have a task to correct them (`RowInv`), and ids in the poller's hand that were
  those of stopped services (`PollInv`): the last is what makes an old list
  harmless.
* *Fleet.* `FleetSteps` shows that every step of the composition is one of
  `NodeRegistry` and of `Services` or leaves them alone, so that their
  invariants carry over (`FleetKeepsTables`), and `FleetImplementsTables` makes
  of it that the fleet implements both specifications, so that their action
  properties carry over too (`FleetKeepsPromises`). `AppsHaveOneTarget` adds
  what a view and a list may hold (`ViewInv`, `ListInv`): of two runs of an app
  that a refresh has collected, checked or not, the earlier was not heard of to
  its end, which stays so however long the checks take. `FleetKeepsTypes` adds the
  counter, which wraps around in time, and the entry that was chosen
  (`RouteInv`).
* *Events.* `AnswersAreKept` from the numbering of the two services whose
  counters start over (`SubsNumbered`, `NetNumbered`), with INSERTs that fail
  for any reason. `RowsDescribeFiles` and `MissesNeedAFault` from `StoreInv`: a
  writer that is `alone` has the file as it left it and any writer that entered
  beside it knows (`BlockInv`); a read among joined stores has callers up to
  the client's that wait for it and no call in the chain has ended in a 404
  (`ReadInv`). `MissesNeedAFault` states no wish: it says how far the defect of
  `miss_doc` reaches, to any number of stores.

  `CopiesAgree` is the longest argument here. That files are the same when
  nothing writes says nothing of a write under way, so `CopyInv` follows one:
  during a clean write (one client's, no call lost or refused, no step failed,
  no other met it) all handlers of the object work for it (`OneWrite`); a store
  it has reached has its bytes, or a handler there is about to write them
  (`Follows`); before the first step the files are still the same (`Settled`).
  The last store must have been reached when no handler is left, which is where
  `CallersEnd` comes in: those who wait for one another do not wait in a
  circle, however stores pass copies back and forth.

  `EventsKeepTypes` has the types of stores, topic and tables; a row is never
  one of an opened file, since a PUT stores the number of a client's PUT
  (`PutsAreNumbered`). `NoticesAreCounted` counts in bags: for each announced
  notice, what is invoked, about to be, or delivered, together with `starts`
  for each copy of the notice still on its way to SNS, is at most `starts`
  times the announcements (`OnceInv`). A notice on its way must count as often
  as lambda has started, as so many subscriptions may yet receive it.

Assumed by the proofs are only the constants' assumptions, named in the modules
(`SchedulerConstants`, `ObjectStoreConstants` and so on: sets are finite, bounds are
natural numbers), and `~SavesMayFail` where a theorem says so. That one is a
choice of environment: the code logs the error of a save and goes on, and
`id_reuse` shows what is then lost.

Every invariant and every action property or refinement of the passing runs is
stated by a theorem. Only model-checked are the five liveness properties, as
fairness and ENABLED are out of the prover's reach: `PendingFinishes`,
`MessagesBecomeJobs`, `SilentPruned`, `StoppedSignalled` and `DeadLeave`.

## 6. Where documents and code differ

Shown by a run that finds the documented statement violated:

* `capacity_doc`: `docs/architecture/jobs.md` says `MAX_JOBS_PER_NODE` limits
  how many jobs run in parallel. A timed-out job is failed but keeps running,
  and the node is offered the next one.
* `final_doc`: the same document says the second failure is final. The late
  report of a timed-out execution turns failed into done.
* `id_reuse`: `store.go` says ids are not reused after a restart. A failed save
  is only logged, and the number is given to another client.
* `miss_doc`: `docs/storage/replication.md` says "all miss -> 404", and
  `tests/integration/replication-test.ps1` waits for that 404 after a DELETE. A
  store serves the GET of a peer like that of a client, and asks its peers in
  turn: two stores that know each other pass a GET of a missing object back and
  forth until a call fails.

Noticed while reading, without a run of its own:

* `docs/compute/instances.md` says instance ids never repeat. The counter
  restarts from the row inserted last, and launches may save out of order; the
  older row is then overwritten (`ReuseNeedsOvertaking` says when).
* `docs/storage/replication.md` calls `REPLICATION_FACTOR` the number of total
  copies, and `auth.rs` wants all stores to use the same key. Copies are sent
  without it, answered 401, and counted as made (`ReplicasAgree` excepts them).
* `tests/integration/sns-smoke.sh` takes the id it is given for a stored
  subscription, and `docs/aws-vs-tinyaws.md` says of VPCs and what is in them
  that it is all stored in SQLite. After a restart the numbers begin again, the
  INSERT fails on the older row, and the answer is 201 (`LostRowsExplained`).
* `load-balancer/main.go` and the same document say that the registry is polled
  every 10 s. A backend that accepts a health check and does not answer ends that
  (the premise of `DeadTargetsLeave`).

Besides these, `docs/architecture/jobs.md` gives a timeout of 60 s, the code's
default is 3600 s (`main.go`, 77-80), and a timed-out job is neither requeued
nor announced; a comment in `jobs.rs` says polling is skipped only when all
instances are terminated, while it is skipped when none is running; the comment
in `sqs/main.go`, "load max seq", describes what is the last row's number.

`docs/storage/replication.md` calls the copies "async, best-effort": the
handler waits for each peer in turn before it answers. The factor is the
"number of total copies" there, and both nodes of its example have 2: two such
stores, once each knows the other, copy a PUT to one another without end, as a
store treats a copy like a PUT of a client. Objects of buckets are not copied
at all: the stores would call `/objects/{bucket}/{key}`, which has no route;
neither has the address to which the agent uploads its logs. `tinyaws service
stop`, in the README, stops a service for one run: the killed process fails its
job, which is retried (`SecondStopFinal`). `MISSING.md` says SNS has no retry;
a restart of lambda adds a subscription, though, and so a second delivery of
everything (`OncePerNotice`).

## 7. Not modelled

* *Controller.* Removes directories of terminated instances every 15 s and
  remembers which. Nothing else reads either; its two hazards are listed in
  `PROJECT.json` without a property.
* *Network agent.* Turns the rules of a security group into iptables commands;
  it has no state of its own.
* *Registry: auth and users.* The checks come before the handlers and change
  none of the state modelled here.
* *API gateway, metadata service, CLI.* Stateless forwarding and answers.
* *The agent's sandbox, builder and container networking; workspaces and log
  uploads.* Calls of operating-system tools, whose state is the kernel's.
* *Failing statements* of the registry's services and instances other than
  Save, of lambda other than the INSERT of a trigger, and of the networking
  service and SNS other than the INSERTs; in SQS, the SELECT of a queue's
  policy (`sqs/main.go`, 213-217), whose failure only delivers the message once
  more instead of moving it.
* *Pids that the system gives out again.* A pid the agent still has in its map
  belongs to a process that it has not reaped, except in the moment between
  reaping and the removal from the map (`jobs.rs`, 337).
* *A registry that accepts a request of the load balancer and never answers it.*
* *Generated and shared type definitions*: data only.
