---------------------------- MODULE FleetProofs ----------------------------
(***************************************************************************)
(* Proofs about registry, agents, services and load balancer together:     *)
(* what holds of the tables by themselves holds in the fleet, and the load *)
(* balancer's list keeps what the table of services promises.              *)
(***************************************************************************)
EXTENDS Fleet, NodeRegistryProofs, ServicesProofs

\* Nothing in the fleet does to the table of nodes, or to services, what their
\* modules do not allow.
LEMMA FleetSteps ==
    ASSUME [FleetNext]_fleetVars
    PROVE  [NodesNext]_nodeVars /\ [ServicesNext]_serviceVars
<1>1. ASSUME NEW n \in Nodes, NodeMoves(n)
      PROVE  [NodesNext]_nodeVars /\ [ServicesNext]_serviceVars
  <2>1. CASE ProgramDies(n)
    BY <2>1 DEF ProgramDies, NodesNext, ServicesNext
  <2>2. CASE ~ProgramDies(n)
    <3>1. UNCHANGED serviceVars
      BY <1>1, <2>2 DEF NodeMoves, Keeps
    <3>2. NodesNext
      BY <1>1, <2>2 DEF NodeMoves, Keeps, NodesNext
    <3> QED
      BY <3>1, <3>2
  <2> QED
    BY <2>1, <2>2
<1>2. CASE AgentMoves
  <2>1. UNCHANGED nodeVars
    BY <1>2 DEF AgentMoves, PollMoves, AgentWorks
  <2>2. ServicesNext
    BY <1>2 DEF AgentMoves, PollMoves, AgentWorks, ServicesNext
  <2> QED
    BY <2>1, <2>2
<1>3. CASE ServiceMoves
  <2>1. UNCHANGED nodeVars
    BY <1>3 DEF ServiceMoves, Serves
  <2>2. ServicesNext
    BY <1>3 DEF ServiceMoves, Serves, ServicesNext
  <2> QED
    BY <2>1, <2>2
<1>4. CASE LBMoves
  BY <1>4 DEF LBMoves, RefreshMoves, BackendMoves, RefreshNodes, RefreshServices, ReadServices,
              SwapTargets, Swap, CheckReturns, BackendAnswers, Check, CheckHangs, Route, LBRestart
<1>5. CASE Keeps(CheckNodesHealth)
  BY <1>5 DEF Keeps, NodesNext
<1>6. CASE RegistryRestart
  BY <1>6 DEF RegistryRestart, NodesNext, ServicesNext
<1>7. CASE UNCHANGED fleetVars
  BY <1>7 DEF fleetVars
<1> QED
  BY <1>1, <1>2, <1>3, <1>4, <1>5, <1>6, <1>7 DEF FleetNext

-----------------------------------------------------------------------------
\* An entry is a node's agent or a run, and an earlier run than another one in
\* the list was not heard of to its end.
ListInv ==
    /\ targets \in Seq(Target)
    /\ OneTargetPerApp

\* What a refresh has checked or has still to check.
Collected(x) ==
    \/ \E k \in DOMAIN view.list : x = view.list[k]
    \/ \E k \in DOMAIN view.done : x = view.done[k].of

\* The same holds of what a refresh has collected, which is nodes only before it
\* reads the services.
ViewInv ==
    /\ view \in View
    /\ view.stage = "agents" => \A k \in DOMAIN view.list : view.list[k] \in Nodes
    /\ view.stage = "agents" => \A k \in DOMAIN view.done : view.done[k].of \in Nodes
    /\ \A r, s \in Runs :
          Collected(r) /\ Collected(s) /\ r.job = s.job /\ r.run < s.run => r \in unheard

\* The counter has overflowed in time, and a request went to an entry of the
\* list of its time, or to none.
RouteInv ==
    /\ counter \in 0 .. CounterSize - 1
    /\ picked \in Seq(Target) /\ Len(picked) <= 1

FleetInv == NodesInv /\ Inv /\ ListInv /\ ViewInv /\ RouteInv

LEMMA UnheardGrows ==
    ASSUME [ServicesNext]_serviceVars
    PROVE  unheard \subseteq unheard'
BY DEF ServicesNext, TaskStep, Spawn, SpawnFails, RegisterLost, TakeNumber, SaveService,
       ProcessEnds, Reap, NotifyRegistry, NotifyScheduler, StopService, KillStopped, PollStopped,
       AgentCrash, ServicesRestart, serviceVars, tableVars, agentVars, traceVars

\* The table does not call two runs of a job running, unless the end of the
\* earlier was not heard of.
LEMMA OneRowPerApp ==
    ASSUME Inv, NEW k \in DOMAIN rows, NEW m \in DOMAIN rows,
           rows[k].status = "running",
           rows[k].run.job = rows[m].run.job, rows[k].run.run < rows[m].run.run
    PROVE  rows[k].run \in unheard
<1> SUFFICES ASSUME rows[k].run \notin unheard PROVE FALSE
  OBVIOUS
<1> DEFINE r == rows[k].run
           s == rows[m].run
<1>1. r \in Runs /\ s \in Runs /\ s.job \in Jobs /\ r.run \in Nat /\ s.run \in Nat
  BY RowRuns, JobAndRun DEF Inv
<1>2. r.run = jobs[r.job].runs
  BY <1>1 DEF Inv, RowInv, RunInv, Awaited, Active
<1>3. ~(s.run > jobs[s.job].runs)
  BY <1>1 DEF Inv, CreateInv, RunInv, Counted
<1> QED
  BY <1>1, <1>2, <1>3

LEMMA ListsOf ==
    ASSUME NEW S, IsFiniteSet(S), NEW list \in SetToSeqs(S)
    PROVE  list \in Seq(S)
BY FS_CardinalityType DEF SetToSeqs

LEMMA FleetInitInv == FleetInit => FleetInv
<1>1. FleetInit => ListInv /\ ViewInv /\ RouteInv
  BY FleetConstants
  DEF FleetInit, LBInit, ListInv, ViewInv, View, Collected, RouteInv, Idle, OneTargetPerApp
<1> QED
  BY <1>1, InitNodesInv, InitInv DEF FleetInit, FleetInv

\* A request leaves the list alone and goes to one of its entries.
LEMMA RouteKeepsTypes ==
    ASSUME ListInv, RouteInv, Route
    PROVE  RouteInv'
<1> DEFINE healthy == {k \in DOMAIN targets : targets[k].healthy}
<1>1. CASE healthy = {}
  BY <1>1 DEF Route, RouteInv
<1>2. CASE healthy # {}
  <2>1. counter' = NextCounter /\ \E k \in healthy : picked' = <<targets[k]>>
    BY <1>2 DEF Route
  <2>2. counter' \in 0 .. CounterSize - 1
    BY <2>1, FleetConstants DEF NextCounter, RouteInv
  <2>3. PICK k \in healthy : picked' = <<targets[k]>>
    BY <2>1
  <2>4. targets[k] \in Target
    BY <2>3 DEF ListInv
  <2> QED
    BY <2>2, <2>3, <2>4 DEF RouteInv
<1> QED
  BY <1>1, <1>2

\* The reading of the nodes: no run is collected yet.
LEMMA NodesAreRead ==
    ASSUME FleetInv, RefreshNodes
    PROVE  ViewInv'
<1> DEFINE hosts == Listed(nodes) \ Storage
           agents == {n \in hosts : nodes[n].status = "healthy"}
<1>1. PICK list \in SetToSeqs(agents) : Collect("agents", hosts, list, <<>>)
  BY DEF RefreshNodes
<1>2. hosts \in SUBSET Nodes /\ agents \in SUBSET Nodes
  BY DEF Listed
<1>3. IsFiniteSet(agents)
  BY <1>2, FleetConstants, FS_Subset
<1> HIDE DEF hosts, agents
<1>4. list \in Seq(agents)
  BY <1>1, <1>3, ListsOf
<1>5. list \in Seq(Nodes) /\ list \in Seq(Nodes \cup Runs) /\ \A k \in DOMAIN list : list[k] \in Nodes
  BY <1>2, <1>4
<1>6. view' = [stage |-> "agents", hosts |-> hosts, list |-> list, done |-> <<>>, waits |-> {}]
  BY <1>1 DEF Collect
<1>7. view' \in View
  BY <1>2, <1>5, <1>6 DEF View
<1>8. \A x : Collected(x)' => x \in Nodes
  BY <1>5, <1>6 DEF Collected
<1> QED
  BY <1>5, <1>6, <1>7, <1>8, FleetConstants DEF ViewInv

\* A check moves an address from those to be checked to those that are.
LEMMA CheckMoves ==
    ASSUME FleetInv, NEW passed \in BOOLEAN, Check(passed)
    PROVE  ViewInv'
<1> DEFINE x == Head(view.list)
           entry == [of |-> x, healthy |-> passed]
<1>1. /\ view.list \in Seq(Nodes \cup Runs) /\ view.list # <<>>
      /\ view.done \in Seq(Target) /\ view.hosts \in SUBSET Nodes
      /\ view.stage \in {"idle", "agents", "apps"}
  BY DEF FleetInv, ViewInv, View, Check
<1>2. x \in Nodes \cup Runs /\ entry \in Target
  BY <1>1 DEF Target
<1>3. view' = [stage |-> view.stage, hosts |-> view.hosts, list |-> Tail(view.list),
               done |-> Append(view.done, entry), waits |-> {}]
  BY DEF Check, Collect
<1>4. /\ Tail(view.list) \in Seq(Nodes \cup Runs)
      /\ DOMAIN Tail(view.list) = 1 .. Len(view.list) - 1
      /\ DOMAIN view.list = 1 .. Len(view.list) /\ Len(view.list) \in Nat \ {0}
      /\ x = view.list[1]
      /\ \A k \in DOMAIN Tail(view.list) : Tail(view.list)[k] = view.list[k + 1]
  BY <1>1
<1>5. /\ Append(view.done, entry) \in Seq(Target)
      /\ DOMAIN view.done = 1 .. Len(view.done) /\ Len(view.done) \in Nat
      /\ DOMAIN Append(view.done, entry) = 1 .. Len(view.done) + 1
      /\ \A k \in DOMAIN view.done : Append(view.done, entry)[k] = view.done[k]
      /\ Append(view.done, entry)[Len(view.done) + 1] = entry
  BY <1>1, <1>2
<1>6. entry.of = x
  OBVIOUS
<1> HIDE DEF x, entry
<1>7. \A k \in DOMAIN view'.list : \E i \in DOMAIN view.list : view'.list[k] = view.list[i]
  <2> SUFFICES ASSUME NEW k \in DOMAIN Tail(view.list)
               PROVE  \E i \in DOMAIN view.list : Tail(view.list)[k] = view.list[i]
    BY <1>3
  <2>1. k + 1 \in DOMAIN view.list
    BY <1>4
  <2> QED
    BY <1>4, <2>1
<1>8. \A k \in DOMAIN view'.done : \/ \E i \in DOMAIN view.done : view'.done[k] = view.done[i]
                                   \/ view'.done[k].of = x /\ x = view.list[1] /\ 1 \in DOMAIN view.list
  <2> SUFFICES ASSUME NEW k \in DOMAIN Append(view.done, entry)
               PROVE  \/ \E i \in DOMAIN view.done : Append(view.done, entry)[k] = view.done[i]
                      \/ Append(view.done, entry)[k].of = x
    BY <1>3, <1>4
  <2>1. k \in DOMAIN view.done \/ k = Len(view.done) + 1
    BY <1>5
  <2> QED
    BY <1>5, <1>6, <2>1
<1>9. \A y : Collected(y)' => Collected(y)
  BY <1>7, <1>8 DEF Collected
<1>10. view' \in View
  BY <1>1, <1>3, <1>4, <1>5 DEF View
<1>11. view'.stage = view.stage
  BY <1>3
<1>12. unheard' = unheard
  BY DEF Check, serviceVars, traceVars
<1> QED
  BY <1>7, <1>8, <1>9, <1>10, <1>11, <1>12 DEF FleetInv, ViewInv

\* A check that hangs has collected nothing more.
LEMMA HangingCollectsNothing ==
    ASSUME FleetInv, CheckHangs
    PROVE  ViewInv'
<1>1. /\ view.list \in Seq(Nodes \cup Runs) /\ view.list # <<>> /\ view \in View
      /\ programs \in [Nodes -> Program] /\ MaxBoots \in Nat
  BY NodeRegistryConstants DEF FleetInv, ViewInv, View, CheckHangs, NodesInv, NodesTypeOK
<1>2. \E w \in [of : Nodes \cup Runs, boot : 0 .. MaxBoots] : view' = [view EXCEPT !.waits = {w}]
  <2> DEFINE x == Head(view.list)
  <2>1. CASE /\ x \in Nodes
             /\ view' = [view EXCEPT !.waits = {[of |-> x, boot |-> programs[x].boot]}]
    BY <1>1, <2>1 DEF Program
  <2>2. ASSUME NEW r \in Runs, view' = [view EXCEPT !.waits = {[of |-> r, boot |-> 0]}]
        PROVE  \E w \in [of : Nodes \cup Runs, boot : 0 .. MaxBoots] :
                   view' = [view EXCEPT !.waits = {w}]
    <3>1. [of |-> r, boot |-> 0] \in [of : Nodes \cup Runs, boot : 0 .. MaxBoots]
      BY <1>1
    <3> QED
      BY <2>2, <3>1
  <2> QED
    BY <2>1, <2>2 DEF CheckHangs
<1>3. /\ view' \in View
      /\ view'.stage = view.stage /\ view'.list = view.list /\ view'.done = view.done
  BY <1>1, <1>2 DEF View
<1>4. unheard' = unheard
  BY DEF CheckHangs, serviceVars, traceVars
<1> QED
  BY <1>3, <1>4 DEF FleetInv, ViewInv, Collected

\* The reading of the services: nodes checked before, and rows that say running.
LEMMA ServicesAreRead ==
    ASSUME FleetInv, AgentsChecked, ReadServices
    PROVE  ViewInv'
<1>1. PICK order \in SetToSeqs(RunningRows) :
          Collect("apps", view.hosts, [k \in DOMAIN order |-> rows[order[k]].run], view.done)
  BY DEF ReadServices
<1> DEFINE list == [k \in DOMAIN order |-> rows[order[k]].run]
<1>2. order \in Seq(RunningRows)
  <2>1. RunningRows \subseteq 1 .. Len(rows) /\ Len(rows) \in Nat
    BY DEF RunningRows, FleetInv, Inv, Shapes
  <2>2. IsFiniteSet(1 .. Len(rows))
    BY <2>1, FS_Interval
  <2>3. IsFiniteSet(RunningRows)
    BY <2>1, <2>2, FS_Subset
  <2> QED
    BY <1>1, <2>3, ListsOf
<1>3. /\ DOMAIN order = 1 .. Len(order) /\ Len(order) \in Nat
      /\ \A k \in DOMAIN order : order[k] \in RunningRows
  BY <1>2
<1>4. \A k \in DOMAIN list : \E m \in RunningRows : list[k] = rows[m].run /\ list[k] \in Runs
  BY <1>3, RowRuns DEF FleetInv, Inv, RunningRows
<1>5. list \in Seq(Runs) /\ list \in Seq(Nodes \cup Runs)
  BY <1>3, <1>4
<1>6. view' = [stage |-> "apps", hosts |-> view.hosts, list |-> list, done |-> view.done,
               waits |-> {}]
  BY <1>1 DEF Collect
<1> HIDE DEF list
<1>7. view \in View /\ \A k \in DOMAIN view.done : view.done[k].of \in Nodes
  BY DEF FleetInv, ViewInv, AgentsChecked
<1>8. view' \in View
  BY <1>5, <1>6, <1>7 DEF View
<1>9. ASSUME NEW r \in Runs, Collected(r)'
      PROVE  \E m \in RunningRows : r = rows[m].run
  BY <1>4, <1>6, <1>7, <1>9, FleetConstants DEF Collected
<1>10. ASSUME NEW r \in Runs, NEW s \in Runs, Collected(r)', Collected(s)',
              r.job = s.job, r.run < s.run
       PROVE  r \in unheard
  BY <1>9, <1>10, OneRowPerApp DEF FleetInv, RunningRows
<1>11. unheard' = unheard
  BY DEF ReadServices, serviceVars, traceVars
<1> QED
  BY <1>6, <1>8, <1>10, <1>11 DEF ViewInv

\* The list put up is what the refresh has collected.
LEMMA SwapKeepsPromises ==
    ASSUME FleetInv, Swap
    PROVE  ListInv' /\ ViewInv'
<1>1. targets' = view.done /\ view' = Idle /\ unheard' = unheard
  BY DEF Swap, serviceVars, traceVars
<1>2. view.done \in Seq(Target) /\ \A k \in DOMAIN view.done : Collected(view.done[k].of)
  BY DEF FleetInv, ViewInv, View, Collected
<1>3. OneTargetPerApp'
  BY <1>1, <1>2 DEF OneTargetPerApp, FleetInv, ViewInv
<1>4. ViewInv'
  BY <1>1 DEF ViewInv, View, Idle, Collected
<1> QED
  BY <1>1, <1>2, <1>3, <1>4 DEF ListInv

LEMMA FleetNextInv ==
    ASSUME FleetInv, [FleetNext]_fleetVars
    PROVE  FleetInv'
<1>1. NodesInv' /\ Inv' /\ unheard \subseteq unheard'
  BY FleetSteps, NextNodesInv, NextInv, UnheardGrows DEF FleetInv
<1>2. CASE UNCHANGED lbVars
  <2>1. \A x : Collected(x)' = Collected(x)
    BY <1>2 DEF Collected, lbVars
  <2>2. ViewInv'
    BY <1>1, <1>2, <2>1 DEF FleetInv, ViewInv, lbVars
  <2> QED
    BY <1>1, <1>2, <2>2 DEF FleetInv, ListInv, RouteInv, OneTargetPerApp, lbVars
<1>3. ASSUME ViewInv', UNCHANGED <<targets, counter, picked>>
      PROVE  FleetInv'
  BY <1>1, <1>3 DEF FleetInv, ListInv, RouteInv, OneTargetPerApp
<1>4. CASE RefreshNodes
  BY <1>3, <1>4, NodesAreRead DEF RefreshNodes
<1>5. CASE \E passed \in BOOLEAN : Check(passed)
  BY <1>3, <1>5, CheckMoves DEF Check
<1>6. CASE CheckHangs
  BY <1>3, <1>6, HangingCollectsNothing DEF CheckHangs
<1>7. CASE AgentsChecked /\ ReadServices
  BY <1>3, <1>7, ServicesAreRead DEF ReadServices
<1>8. CASE Swap
  BY <1>1, <1>8, SwapKeepsPromises DEF Swap, FleetInv, RouteInv
<1>9. CASE LBRestart
  BY <1>1, <1>9, FleetConstants
  DEF LBRestart, FleetInv, ListInv, ViewInv, View, Collected, RouteInv, OneTargetPerApp, Idle
<1>10. CASE Route
  <2>1. ViewInv' /\ ListInv'
    BY <1>10 DEF Route, FleetInv, ListInv, ViewInv, Collected, OneTargetPerApp, serviceVars,
                 traceVars
  <2> QED
    BY <1>1, <1>10, <2>1, RouteKeepsTypes DEF FleetInv
<1>11. UNCHANGED lbVars \/ LBMoves
  BY DEF FleetNext, NodeMoves, Keeps, ProgramDies, AgentMoves, PollMoves, AgentWorks,
         ServiceMoves, Serves, RegistryRestart, fleetVars
<1> QED
  BY <1>2, <1>4, <1>5, <1>6, <1>7, <1>8, <1>9, <1>10, <1>11
  DEF LBMoves, RefreshMoves, BackendMoves, RefreshServices, SwapTargets, CheckReturns,
      BackendAnswers

LEMMA FleetInvariant == FleetSpec => []FleetInv
BY FleetInitInv, FleetNextInv, PTL DEF FleetSpec

-----------------------------------------------------------------------------
\* The load balancer never gives an app two entries, unless a call of an earlier
\* run was lost or the agent died under it: for any number of apps, runs and
\* rows, although a list is put together from two readings of the registry that
\* everything may happen between (refresh).
THEOREM AppsHaveOneTarget == FleetSpec => []OneTargetPerApp
BY FleetInvariant, PTL DEF FleetInv, ListInv

\* The load balancer keeps its types too: the counter wraps around before it
\* gets too large, and every entry is a node's agent or a run (nextTarget,
\* refresh).
THEOREM FleetKeepsTypes == FleetSpec => []FleetTypeOK
<1>1. FleetInv => FleetTypeOK
  BY InvTypes DEF FleetInv, NodesInv, ListInv, ViewInv, RouteInv, FleetTypeOK
<1> QED
  BY <1>1, FleetInvariant, PTL

\* A step of the fleet is a step of either table by itself, and it begins in a
\* state of either.
LEMMA FleetImplementsTables == FleetSpec => NodesSpec /\ ServicesSpec
<1>1. FleetInit => NodesInit /\ ServicesInit
  BY DEF FleetInit
<1>2. [FleetNext]_fleetVars => [NodesNext]_nodeVars /\ [ServicesNext]_serviceVars
  BY FleetSteps
<1> QED
  BY <1>1, <1>2, PTL DEF FleetSpec, NodesSpec, ServicesSpec

\* What is proved of the registry's tables and the kill poller by themselves
\* holds in the fleet, where the registry restarts with both tables and the
\* agent dies with its heartbeats.
THEOREM FleetKeepsTables ==
    FleetSpec => [](/\ DiskMatchesMemory
                    /\ KillsOnlyStopped /\ StaleRowsExplained /\ SecondStopFinal)
BY FleetImplementsTables, TableFollowsMap, PollerKillsStopped, RowsAreCorrected,
   StoppedTwiceIsOver, PTL

\* So do the two that speak of steps: the mark of a stopped service stays while
\* its process lives, and a program that is listed nowhere stays out until it
\* registers, whichever of registry, agent and load balancer moves.
THEOREM FleetKeepsPromises == FleetSpec => StopHolds /\ OutcastStaysOut
BY FleetImplementsTables, StopMarksHold, OutcastsStayOut
=============================================================================
