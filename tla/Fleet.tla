------------------------------- MODULE Fleet -------------------------------
(***************************************************************************)
(* One registry with its nodes and services, the agent of the node Home    *)
(* that runs the services, and the load balancer                           *)
(* (data-plane/networking/load-balancer, main.go) that spreads requests    *)
(* over what the registry lists and answers its health check.              *)
(*                                                                         *)
(* The registry is one process, and so is the agent: when either dies, its *)
(* share of both tables dies with it.  A job keeps its port for all its    *)
(* runs, so that a target is named by its node or by its job.              *)
(***************************************************************************)
EXTENDS NodeRegistry, Services, FiniteSetsExt, SequencesExt

CONSTANTS
    Home,         \* the node the service jobs are pinned to
    CounterSize   \* numbers the request counter can hold

Target == [of : Nodes \cup Runs, healthy : BOOLEAN]
\* The part of refresh() under way, the nodes it has read, what it has still to
\* check and what it has checked; waits holds the program or process that has
\* accepted the connection of a check and lets it wait.
View == [stage : {"idle", "agents", "apps"}, hosts : SUBSET Nodes,
         list : Seq(Nodes \cup Runs), done : Seq(Target),
         waits : SUBSET [of : Nodes \cup Runs, boot : 0 .. MaxBoots]]
Idle == [stage |-> "idle", hosts |-> {}, list |-> <<>>, done |-> <<>>, waits |-> {}]

ASSUME FleetConstants ==
    /\ IsFiniteSet(Nodes) /\ Nodes \cap Runs = {}
    /\ Home \in Nodes \ Storage
    /\ CounterSize \in Nat \ {0}

VARIABLES
    view,         \* the refresh under way
    targets,      \* the load balancer's list
    counter,      \* the counter of requests
    picked        \* where the last request went, an empty sequence for a 503

lbVars == <<view, targets, counter, picked>>
fleetVars == <<nodeVars, serviceVars, lbVars>>

FleetTypeOK ==
    /\ NodesTypeOK
    /\ ServicesTypeOK
    /\ view \in View
    /\ targets \in Seq(Target)
    /\ counter \in 0 .. CounterSize - 1
    /\ picked \in Seq(Target) /\ Len(picked) <= 1

LBInit ==
    /\ view = Idle
    /\ targets = <<>> /\ picked = <<>>
    /\ counter = 0

FleetInit == NodesInit /\ ServicesInit /\ LBInit

-----------------------------------------------------------------------------
\* The agent takes jobs, runs their tasks and polls once it is registered.
AgentWorks(step) ==
    /\ programs[Home].pc = "beating"
    /\ step
    /\ UNCHANGED <<nodeVars, lbVars>>

\* What the registry, its clients and the processes do to services.
Serves(step) == step /\ UNCHANGED <<nodeVars, lbVars>>

\* Registrations, heartbeats and the health check.
Keeps(step) == step /\ UNCHANGED <<serviceVars, lbVars>>

ProgramDies(n) ==
    /\ StopProgram(n)
    /\ IF n = Home THEN AgentCrash ELSE UNCHANGED serviceVars
    /\ UNCHANGED lbVars

RegistryRestart == NodesRestart /\ ServicesRestart /\ UNCHANGED lbVars

-----------------------------------------------------------------------------
\* Something answers at the address of a target: the agent of a node, or a
\* process of the job that owns the port, whichever run it is.
Answers(x) ==
    IF x \in Nodes THEN programs[x].pc = "beating"
    ELSE \E r \in Runs : r.job = x.job /\ procs[r] = "alive"

\* checkHealth is an http.Get without a timeout: as long as the backend that has
\* accepted the connection lives and sends nothing, it does not return.
Blocked ==
    \E w \in view.waits :
        IF w.of \in Nodes THEN programs[w.of] = [pc |-> "beating", boot |-> w.boot]
        ELSE procs[w.of] = "alive"

Collect(stage, hosts, list, done) ==
    view' = [stage |-> stage, hosts |-> hosts, list |-> list, done |-> done, waits |-> {}]

\* GET /nodes: the agents of the healthy ones will be checked, in any order.
\* When it fails the refresh ends, and the list stays.
RefreshNodes ==
    /\ view.stage = "idle"
    /\ LET hosts == Listed(nodes) \ Storage IN
       \E list \in SetToSeqs({n \in hosts : nodes[n].status = "healthy"}) :
           Collect("agents", hosts, list, <<>>)
    /\ UNCHANGED <<nodeVars, serviceVars, targets, counter, picked>>

\* A check returns.  It is passed only when something answers, and not when
\* what had accepted the connection is gone.
Check(passed) ==
    /\ view.list # <<>>
    /\ passed => Answers(Head(view.list)) /\ (view.waits = {} \/ Blocked)
    /\ Collect(view.stage, view.hosts, Tail(view.list),
               Append(view.done, [of |-> Head(view.list), healthy |-> passed]))
    /\ UNCHANGED <<nodeVars, serviceVars, targets, counter, picked>>

CheckReturns == ~Blocked /\ \E passed \in BOOLEAN : Check(passed)
BackendAnswers == Blocked /\ \E passed \in BOOLEAN : Check(passed)

\* The backend accepts the connection and does not answer yet, if it ever does.
CheckHangs ==
    /\ view.list # <<>> /\ view.waits = {}
    /\ LET x == Head(view.list) IN
       \/ /\ x \in Nodes /\ Answers(x)
          /\ view' = [view EXCEPT !.waits = {[of |-> x, boot |-> programs[x].boot]}]
       \/ \E r \in Runs :
             /\ x \in Runs /\ r.job = x.job /\ procs[r] = "alive"
             /\ view' = [view EXCEPT !.waits = {[of |-> r, boot |-> 0]}]
    /\ UNCHANGED <<nodeVars, serviceVars, targets, counter, picked>>

\* The list is exchanged.
Swap ==
    /\ targets' = view.done
    /\ view' = Idle
    /\ UNCHANGED <<nodeVars, serviceVars, counter, picked>>

\* Rows of running services of nodes that are listed, whatever the node's status.
RunningRows == {k \in DOMAIN rows : rows[k].status = "running" /\ Home \in view.hosts}

\* GET /services: the rows are read at once, in any order, and each will be
\* checked.
ReadServices ==
    /\ \E order \in SetToSeqs(RunningRows) :
           Collect("apps", view.hosts, [k \in DOMAIN order |-> rows[order[k]].run], view.done)
    /\ UNCHANGED <<nodeVars, serviceVars, targets, counter, picked>>

AgentsChecked == view.stage = "agents" /\ view.list = <<>>

\* Mutant: the list is left as it is when the services cannot be read.
RefreshOrKeep ==
    /\ AgentsChecked
    /\ \/ ReadServices
       \/ view' = Idle /\ UNCHANGED <<nodeVars, serviceVars, targets, counter, picked>>

\* The second half of refresh().  When the services cannot be read the list put
\* up holds the agents only.
RefreshServices == AgentsChecked /\ (ReadServices \/ Swap)

\* The last app is checked.
SwapTargets == view.stage = "apps" /\ view.list = <<>> /\ Swap

\* Mutant: the counter does not overflow.
EndlessCounter == counter + 1

\* atomic.AddUint64
NextCounter == (counter + 1) % CounterSize

\* A request is proxied to the next healthy target; with none it gets a 503.
Route ==
    /\ LET healthy == {k \in DOMAIN targets : targets[k].healthy} IN
       IF healthy = {} THEN picked' = <<>> /\ UNCHANGED counter
       ELSE /\ counter' = NextCounter
            /\ \E k \in healthy :
                  /\ Cardinality({j \in healthy : j < k}) = counter' % Cardinality(healthy)
                  /\ picked' = <<targets[k]>>
    /\ UNCHANGED <<nodeVars, serviceVars, view, targets>>

LBRestart ==
    /\ view' = Idle
    /\ targets' = <<>> /\ picked' = <<>>
    /\ counter' = 0
    /\ UNCHANGED <<nodeVars, serviceVars>>

-----------------------------------------------------------------------------
NodeMoves(n) ==
    \/ Keeps(StartAgent(n)) \/ Keeps(StartStore(n)) \/ Keeps(Register(n))
    \/ Keeps(Heartbeat(n)) \/ Keeps(DeleteNode(n)) \/ Keeps(TimePasses(n))
    \/ \E s \in saving : s.node = n /\ Keeps(SaveRegistration(s))
    \/ ProgramDies(n)

PollMoves == AgentWorks(PollStopped) \/ \E id \in Ids : AgentWorks(KillStopped(id))

AgentMoves ==
    \/ \E j \in Jobs : AgentWorks(Spawn(j)) \/ AgentWorks(SpawnFails(j))
    \/ \E r \in Runs : AgentWorks(TaskStep(r))
    \/ PollMoves

ServiceMoves ==
    \/ \E r \in Runs : Serves(ProcessEnds(r))
    \/ \E c \in creating : Serves(SaveService(c))
    \/ \E id \in Ids : Serves(StopService(id))

RefreshMoves == RefreshNodes \/ RefreshServices \/ CheckReturns \/ SwapTargets
BackendMoves == CheckHangs \/ BackendAnswers
LBMoves == RefreshMoves \/ BackendMoves \/ Route \/ LBRestart

FleetNext ==
    \/ \E n \in Nodes : NodeMoves(n)
    \/ AgentMoves \/ ServiceMoves \/ LBMoves
    \/ Keeps(CheckNodesHealth)
    \/ RegistryRestart

\* The health check, the kill poller and the refresh run on tickers; the
\* registry answers the load balancer in the end, but nothing makes a backend
\* answer its check.
FleetFairness ==
    /\ WF_fleetVars(Keeps(CheckNodesHealth))
    /\ \A n \in Nodes : WF_fleetVars(Keeps(TimePasses(n)))
    /\ WF_fleetVars(PollMoves)
    /\ WF_fleetVars(RefreshMoves)

FleetSpec == FleetInit /\ [][FleetNext]_fleetVars /\ FleetFairness
-----------------------------------------------------------------------------
\* No app has two entries in the list, and so twice its share of the requests,
\* unless a call of an earlier run of it was lost or the agent died under it.
OneTargetPerApp ==
    \A k, m \in DOMAIN targets :
        LET r == targets[k].of
            s == targets[m].of
        IN  r \in Runs /\ s \in Runs =>
                (r.job = s.job /\ r.run < s.run => r \in unheard)

\* What has stopped answering leaves the list of healthy targets, although each
\* list is put together from answers that are old when it is put up: as long as
\* no check waits for ever, which the code leaves to the backends (checkHealth
\* has no timeout, and a refresh checks one address after the other).
DeadTargetsLeave ==
    []<>~Blocked =>
        \A x \in Nodes \cup Runs :
            <>[](~Answers(x)) =>
                <>[](\A k \in DOMAIN targets : targets[k] # [of |-> x, healthy |-> TRUE])
=============================================================================
