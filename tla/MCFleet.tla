------------------------------ MODULE MCFleet ------------------------------
(***************************************************************************)
(* Fleet for TLC.  All its actors at once are too many states, so each     *)
(* behaviour has a focus, chosen at the start: the actors that move in it. *)
(* Every behaviour found is one of Fleet, fairness being asked of the      *)
(* actors in focus only.                                                   *)
(***************************************************************************)
EXTENDS Fleet

CONSTANT FirstJob

VARIABLE focus

Foci == {"agent", "store", "crashes", "restarts", "overtaking", "hosts", "targets", "requests"}

mcVars == <<fleetVars, focus>>
In(S) == focus \in S /\ UNCHANGED focus

\* The agent of Home registers and keeps beating, without a failure.
Registers ==
    \/ Keeps(StartAgent(Home)) \/ Keeps(Register(Home))
    \/ \E s \in saving :
           Keeps(SaveRegistration(s)) /\ programs'[Home].pc = "beating" /\ faults' = faults

\* A service comes up and may exit.
Deploys ==
    \/ \E j \in Jobs : AgentWorks(Spawn(j))
    \/ \E r \in Runs : AgentWorks(TakeNumber(r)) \/ Serves(ProcessEnds(r))
    \/ \E c \in creating : Serves(SaveService(c))

\* The agent takes jobs and runs their tasks to the end.
RunsTasks ==
    \/ \E j \in Jobs : AgentWorks(Spawn(j))
    \/ \E r \in Runs : AgentWorks(TaskStep(r))

TwoRuns == \A j \in Jobs : jobs'[j].runs <= 2
OtherJobOnce == \A j \in Jobs \ {FirstJob} : jobs'[j].runs <= 1
OneJob == \A j \in Jobs \ {FirstJob} : jobs'[j].runs = 0
OneRun == \A j \in Jobs : jobs'[j].runs <= 1 /\ jobs'[j].retries = 0
OneBoot == programs'[Home].boot = 1
NothingFails == faults' = 0 /\ saveFaults' = 0 /\ unheard' = {}
AgentPasses == \A k \in DOMAIN view'.done : view'.done[k].of \in Nodes => view'.done[k].healthy

MCInit ==
    /\ FleetInit
    /\ focus \in Foci

MCNext ==
    \/ /\ In({"agent", "store"})
       /\ \/ \E n \in Nodes : (n \in Storage <=> focus = "store") /\ NodeMoves(n)
          \/ Keeps(CheckNodesHealth)
          \/ RegistryRestart
    \/ /\ In({"crashes"})
       /\ Registers \/ AgentMoves \/ ServiceMoves \/ ProgramDies(Home)
       /\ OneJob /\ TwoRuns /\ saveFaults' = 0
    \/ /\ In({"restarts"})
       /\ Registers \/ AgentMoves \/ ServiceMoves \/ RegistryRestart
       /\ OneJob /\ OneBoot
    \/ /\ In({"overtaking"})
       /\ \/ RegistryRestart
          \/ /\ \/ Registers \/ Deploys \/ PollMoves
                \/ \E r \in Runs : r.job = FirstJob /\ AgentWorks(TaskStep(r))
                \/ \E id \in Ids : Serves(StopService(id))
             /\ unheard' = unheard
       /\ OtherJobOnce /\ TwoRuns /\ OneBoot /\ saveFaults' = 0
    \/ /\ In({"hosts"})
       /\ NodeMoves(Home) \/ Keeps(CheckNodesHealth) \/ Deploys \/ RefreshMoves \/ BackendMoves
       /\ OneJob /\ OneRun /\ OneBoot /\ faults' = 0 /\ saveFaults' = 0
    \/ /\ In({"targets"})
       /\ Registers \/ RunsTasks \/ ServiceMoves \/ RefreshMoves \/ BackendMoves
       /\ OneJob /\ TwoRuns /\ AgentPasses /\ saveFaults' = 0
    \/ /\ In({"requests"})
       /\ Registers \/ Deploys \/ RefreshMoves \/ Route \/ LBRestart
       /\ OneRun /\ NothingFails /\ AgentPasses

KeepsNodes == In({"agent", "store", "hosts"})
Polls == In({"crashes", "restarts", "overtaking"})
Balances == In({"hosts", "targets", "requests"})

MCFairness ==
    /\ WF_mcVars(KeepsNodes /\ Keeps(CheckNodesHealth))
    /\ WF_mcVars(KeepsNodes /\ \E n \in Nodes : Keeps(TimePasses(n)))
    /\ WF_mcVars(Polls /\ PollMoves)
    /\ WF_mcVars(Balances /\ RefreshMoves)

MCSpec == MCInit /\ [][MCNext]_mcVars /\ MCFairness
-----------------------------------------------------------------------------
\* The liveness properties of the fleet, each where the actors it waits for
\* are in focus: the registry's health check, the kill poller of the agent and
\* the refresh of the load balancer.
SilentPruned == focus \in {"agent", "store", "hosts"} => SilentNodesPruned
StoppedSignalled == focus \in {"crashes", "restarts", "overtaking"} => StoppedIsSignalled
DeadLeave == focus \in {"hosts", "targets", "requests"} => DeadTargetsLeave
=============================================================================
