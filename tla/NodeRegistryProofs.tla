------------------------- MODULE NodeRegistryProofs -------------------------
(***************************************************************************)
(* Proofs about the registry's table of nodes, for any number of nodes,    *)
(* programs, restarts and failing statements.                              *)
(***************************************************************************)
EXTENDS NodeRegistry, TLAPS

LEMMA OlderNode ==
    \A r \in Node \cup {Absent} : Older(r) \in Node \cup {Absent}
BY DEF Older, Node, Absent, Ages, Fresh, Late, Old, Boots

LEMMA OlderSaving ==
    \A s \in Saving : /\ Older(s) \in Saving
                      /\ Older(s).node = s.node /\ Older(s).boot = s.boot
BY DEF Older, Saving, Absent, Ages, Fresh, Late, Old, Boots

\* What a registration in flight will save, and what it wrote in the map.
Entry(s) == [status |-> "healthy", age |-> s.age, boot |-> s.boot]

LEMMA OlderEntry ==
    \A s \in Saving : Entry(Older(s)) = Older(Entry(s))
BY NodeRegistryConstants DEF Older, Entry, Saving, Absent, Ages, Fresh, Late, Old, Boots

LEMMA EntryType == \A s \in Saving : Entry(s) \in Node
BY DEF Entry, Saving, Node

-----------------------------------------------------------------------------
LEMMA PersistTypes ==
    ASSUME NodesTypeOK, nodes' \in [Nodes -> Node \cup {Absent}],
           NEW S \in SUBSET Nodes, Persist(S)
    PROVE  /\ disk' \in [Nodes -> Node \cup {Absent}]
           /\ raced' \subseteq Nodes
           /\ faults' \in 0 .. MaxFaults
<1>1. PICK failed \in SUBSET S :
          /\ failed # {} => faults < MaxFaults
          /\ faults' = IF failed = {} THEN faults ELSE faults + 1
          /\ disk' = [n \in Nodes |-> IF n \in S \ failed THEN nodes'[n] ELSE disk[n]]
          /\ raced' = (raced \ S) \cup failed \cup BeingSaved(S)
  BY DEF Persist
<1>2. BeingSaved(S) \subseteq S
  BY DEF BeingSaved
<1>3. faults' \in 0 .. MaxFaults
  BY <1>1, NodeRegistryConstants DEF NodesTypeOK
<1> QED
  BY <1>1, <1>2, <1>3 DEF NodesTypeOK

\* A program that is up was started.
Booted == \A n \in Nodes : programs[n].pc # "down" => programs[n].boot \in Boots

\* What makes the agreement of map and table inductive: unless something came
\* in between, the map still holds what the registration in flight will save.
InStep ==
    \A n \in Nodes \ raced :
        /\ (\A s \in saving : s.node # n) => disk[n] = nodes[n]
        /\ \A s \in saving : s.node = n => nodes[n] = Entry(s)

NodesInv == NodesTypeOK /\ Booted /\ InStep

LEMMA PersistInStep ==
    ASSUME NodesInv, nodes' \in [Nodes -> Node \cup {Absent}], UNCHANGED saving,
           NEW S \in SUBSET Nodes, \A n \in Nodes \ S : nodes'[n] = nodes[n], Persist(S)
    PROVE  InStep'
<1>1. PICK failed \in SUBSET S :
          /\ disk' = [n \in Nodes |-> IF n \in S \ failed THEN nodes'[n] ELSE disk[n]]
          /\ raced' = (raced \ S) \cup failed \cup BeingSaved(S)
  BY DEF Persist
<1> SUFFICES ASSUME NEW n \in Nodes, n \notin raced'
             PROVE  /\ (\A s \in saving' : s.node # n) => disk'[n] = nodes'[n]
                    /\ \A s \in saving' : s.node = n => nodes'[n] = Entry(s)
  BY DEF InStep
<1>2. CASE n \in S
  <2>1. n \notin failed /\ \A s \in saving : s.node # n
    BY <1>1, <1>2 DEF BeingSaved
  <2> QED
    BY <1>1, <1>2, <2>1
<1>3. CASE n \notin S
  BY <1>1, <1>3 DEF NodesInv, InStep
<1> QED
  BY <1>2, <1>3

LEMMA InitNodesInv == NodesInit => NodesInv
BY NodeRegistryConstants
   DEF NodesInit, NodesInv, NodesTypeOK, Booted, InStep, Program, Absent, Fresh

LEMMA NextNodesInv ==
    ASSUME NodesInv, [NodesNext]_nodeVars
    PROVE  NodesInv'
<1>1. ASSUME NEW n \in Nodes, Boot(n) PROVE NodesInv'
  <2>1. /\ [pc |-> "registering", boot |-> programs[n].boot + 1] \in Program
        /\ programs[n].boot + 1 \in Boots
    BY <1>1, NodeRegistryConstants DEF Boot, Program, Boots, NodesInv, NodesTypeOK
  <2> QED
    BY <1>1, <2>1 DEF Boot, NodesInv, NodesTypeOK, Booted, InStep
<1>2. ASSUME NEW n \in Nodes, StopProgram(n) PROVE NodesInv'
  <2>1. programs' \in [Nodes -> Program]
    BY <1>2 DEF StopProgram, Program, NodesInv, NodesTypeOK
  <2>2. Booted'
    BY <1>2 DEF StopProgram, Program, NodesInv, NodesTypeOK, Booted
  <2> QED
    BY <1>2, <2>1, <2>2 DEF StopProgram, NodesInv, NodesTypeOK, InStep
<1>3. ASSUME NEW n \in Nodes, Register(n) PROVE NodesInv'
  <2> DEFINE s == [node |-> n, age |-> Fresh, boot |-> programs[n].boot]
  <2>1. programs[n].boot \in Boots
    BY <1>3 DEF Register, NodesInv, Booted
  <2>2. s \in Saving /\ s.node = n /\ Entry(s) \in Node
    BY <2>1 DEF Node, Saving, Entry, Ages, Fresh, Old
  <2>3. /\ nodes' = [nodes EXCEPT ![n] = Entry(s)]
        /\ saving' = saving \cup {s}
        /\ raced' = raced \cup BeingSaved({n})
        /\ UNCHANGED <<disk, programs, faults>>
    BY <1>3 DEF Register, Entry
  <2> HIDE DEF s
  <2>4. NodesTypeOK' /\ Booted'
    BY <2>2, <2>3 DEF NodesInv, NodesTypeOK, Booted, BeingSaved
  <2>5. InStep'
    BY <2>2, <2>3 DEF NodesInv, NodesTypeOK, InStep, BeingSaved
  <2> QED
    BY <2>4, <2>5 DEF NodesInv
<1>4. ASSUME NEW s \in saving, SaveRegistration(s) PROVE NodesInv'
  <2>1. s \in Saving /\ s.node \in Nodes /\ Entry(s) \in Node
    BY EntryType DEF NodesInv, NodesTypeOK, Saving
  <2>2. /\ saving' = saving \ {s} /\ UNCHANGED nodes
        /\ \/ /\ disk' = [disk EXCEPT ![s.node] = Entry(s)]
              /\ UNCHANGED <<raced, faults>>
           \/ /\ faults < MaxFaults /\ faults' = faults + 1
              /\ raced' = raced \cup {s.node}
              /\ UNCHANGED disk
    BY <1>4 DEF SaveRegistration, Entry
  <2>3. programs' \in [Nodes -> Program] /\ Booted'
    <3>1. \/ programs' = programs
          \/ /\ programs' = [programs EXCEPT ![s.node].pc = "beating"]
             /\ programs[s.node] = [pc |-> "registering", boot |-> s.boot]
      BY <1>4 DEF SaveRegistration, Registered
    <3>2. CASE programs' = programs
      BY <3>2 DEF NodesInv, NodesTypeOK, Booted
    <3>3. CASE programs' # programs
      <4>1. [programs[s.node] EXCEPT !.pc = "beating"] \in Program
        BY <2>1 DEF NodesInv, NodesTypeOK, Program
      <4>2. programs[s.node].pc # "down"
        BY <3>1, <3>3
      <4>3. programs' = [programs EXCEPT ![s.node] = [programs[s.node] EXCEPT !.pc = "beating"]]
        BY <3>1, <3>3
      <4> QED
        BY <2>1, <4>1, <4>2, <4>3 DEF NodesInv, NodesTypeOK, Booted, Program
    <3> QED
      BY <3>2, <3>3
  <2>4. NodesTypeOK'
    BY <2>1, <2>2, <2>3, NodeRegistryConstants DEF NodesInv, NodesTypeOK
  <2>5. InStep'
    <3> SUFFICES ASSUME NEW n \in Nodes, n \notin raced'
                 PROVE  /\ (\A t \in saving' : t.node # n) => disk'[n] = nodes'[n]
                        /\ \A t \in saving' : t.node = n => nodes'[n] = Entry(t)
      BY DEF InStep
    <3>1. n \notin raced
      BY <2>2
    <3>2. CASE n = s.node
      <4>1. nodes[n] = Entry(s) /\ disk' = [disk EXCEPT ![n] = Entry(s)]
        BY <1>4, <2>2, <3>1, <3>2 DEF NodesInv, InStep
      <4> QED
        BY <2>2, <3>1, <4>1 DEF NodesInv, NodesTypeOK, InStep
    <3>3. CASE n # s.node
      BY <2>1, <2>2, <3>1, <3>3 DEF NodesInv, NodesTypeOK, InStep
    <3> QED
      BY <3>2, <3>3
  <2> QED
    BY <2>3, <2>4, <2>5 DEF NodesInv
<1>5. ASSUME NEW n \in Nodes, Heartbeat(n) PROVE NodesInv'
  <2> DEFINE beat == [status |-> "healthy", age |-> Fresh, boot |-> nodes[n].boot]
  <2>1. /\ nodes' = [nodes EXCEPT ![n] = beat]
        /\ nodes[n] \in Node /\ Persist({n}) /\ UNCHANGED <<saving, programs>>
    BY <1>5 DEF Heartbeat, Listed, Absent, NodesInv, NodesTypeOK
  <2>2. nodes' \in [Nodes -> Node \cup {Absent}]
    BY <2>1 DEF NodesInv, NodesTypeOK, Node, Ages, Fresh, Old
  <2>3. \A m \in Nodes \ {n} : nodes'[m] = nodes[m]
    BY <2>1 DEF NodesInv, NodesTypeOK
  <2> QED
    BY <2>1, <2>2, <2>3, PersistTypes, PersistInStep DEF NodesInv, NodesTypeOK, Booted
<1>6. ASSUME NEW n \in Nodes, DeleteNode(n) PROVE NodesInv'
  <2>1. /\ nodes' = [nodes EXCEPT ![n] = Absent]
        /\ Persist({n}) /\ UNCHANGED <<saving, programs>>
    BY <1>6 DEF DeleteNode
  <2>2. /\ nodes' \in [Nodes -> Node \cup {Absent}]
        /\ \A m \in Nodes \ {n} : nodes'[m] = nodes[m]
    BY <2>1 DEF NodesInv, NodesTypeOK
  <2> QED
    BY <2>1, <2>2, PersistTypes, PersistInStep DEF NodesInv, NodesTypeOK, Booted
<1>7. CASE CheckNodesHealth
  <2> DEFINE late == {n \in Listed(nodes) : nodes[n].age # Fresh}
             pruned == {n \in late : nodes[n].age = Old /\ nodes[n].status = "unhealthy"}
  <2>1. /\ nodes' = [n \in Nodes |->
                        IF n \in pruned THEN Absent
                        ELSE IF n \in late THEN [nodes[n] EXCEPT !.status = "unhealthy"]
                        ELSE nodes[n]]
        /\ Persist(late) /\ UNCHANGED <<saving, programs>>
    BY <1>7 DEF CheckNodesHealth
  <2>2. late \in SUBSET Nodes /\ \A n \in late : nodes[n] \in Node
    BY DEF Listed, Absent, NodesInv, NodesTypeOK
  <2>3. \A n \in late : [nodes[n] EXCEPT !.status = "unhealthy"] \in Node
    BY <2>2 DEF Node
  <2>4. pruned \subseteq late
    OBVIOUS
  <2> HIDE DEF late, pruned
  <2>5. /\ nodes' \in [Nodes -> Node \cup {Absent}]
        /\ \A n \in Nodes \ late : nodes'[n] = nodes[n]
    BY <2>1, <2>3, <2>4 DEF NodesInv, NodesTypeOK
  <2> QED
    BY <2>1, <2>2, <2>5, PersistTypes, PersistInStep DEF NodesInv, NodesTypeOK, Booted
<1>8. ASSUME NEW n \in Nodes, TimePasses(n) PROVE NodesInv'
  <2>1. /\ nodes' = [nodes EXCEPT ![n] = Older(nodes[n])]
        /\ disk' = [disk EXCEPT ![n] = Older(disk[n])]
        /\ saving' = {IF s.node = n THEN Older(s) ELSE s : s \in saving}
        /\ UNCHANGED <<programs, raced, faults>>
    BY <1>8 DEF TimePasses, NodesInv, NodesTypeOK
  <2>2. NodesTypeOK'
    <3>1. Older(nodes[n]) \in Node \cup {Absent} /\ Older(disk[n]) \in Node \cup {Absent}
      BY OlderNode DEF NodesInv, NodesTypeOK
    <3>2. saving' \subseteq Saving
      BY <2>1, OlderSaving DEF NodesInv, NodesTypeOK
    <3> QED
      BY <2>1, <3>1, <3>2 DEF NodesInv, NodesTypeOK
  <2>3. ASSUME NEW m \in Nodes, m \notin raced',
               \A t \in saving' : t.node # m
        PROVE  disk'[m] = nodes'[m]
    <3>1. \A s \in saving : s.node # m
      BY <2>1, <2>3, OlderSaving DEF NodesInv, NodesTypeOK
    <3> QED
      BY <2>1, <2>3, <3>1 DEF NodesInv, NodesTypeOK, InStep
  <2>4. ASSUME NEW m \in Nodes, m \notin raced', NEW t \in saving', t.node = m
        PROVE  nodes'[m] = Entry(t)
    <3>1. PICK s \in saving : t = IF s.node = n THEN Older(s) ELSE s
      BY <2>1
    <3>2. s \in Saving /\ s.node = m /\ nodes[m] = Entry(s)
      BY <2>1, <2>4, <3>1, OlderSaving DEF NodesInv, NodesTypeOK, InStep
    <3> QED
      BY <2>1, <3>1, <3>2, OlderEntry DEF NodesInv, NodesTypeOK
  <2> QED
    BY <2>1, <2>2, <2>3, <2>4 DEF NodesInv, Booted, InStep
<1>9. CASE NodesRestart
  BY <1>9 DEF NodesRestart, NodesInv, NodesTypeOK, Booted, InStep
<1>10. CASE UNCHANGED nodeVars
  BY <1>10 DEF nodeVars, NodesInv, NodesTypeOK, Booted, InStep
<1> QED
  BY <1>1, <1>2, <1>3, <1>4, <1>5, <1>6, <1>7, <1>8, <1>9, <1>10
  DEF NodesNext, StartAgent, StartStore

LEMMA NodesInvariant == NodesSpec => []NodesInv
BY InitNodesInv, NextNodesInv, PTL DEF NodesSpec

-----------------------------------------------------------------------------
\* The registry's map, its table, the registrations on their way to it and the
\* programs keep their types, whatever fails (main.go, store.go).
THEOREM NodesKeepTypes == NodesSpec => []NodesTypeOK
BY NodesInvariant, PTL DEF NodesInv

\* Map and table agree about a node that nothing raced with or failed for: the
\* late save of handleRegister is the only window, for any number of nodes,
\* registrations, restarts and failing statements.
THEOREM TableFollowsMap == NodesSpec => []DiskMatchesMemory
<1>1. NodesInv => DiskMatchesMemory
  BY DEF NodesInv, InStep, DiskMatchesMemory, BeingSaved
<1> QED
  BY <1>1, NodesInvariant, PTL

\* No step lists a node that map and table dropped and whose program goes on
\* beating: handleHeartbeat never brings it back.
THEOREM OutcastsStayOut == NodesSpec => OutcastStaysOut
<1>1. ASSUME NodesInv, [NodesNext]_nodeVars, NEW n \in Nodes,
             programs[n].pc = "beating", programs'[n].pc = "beating",
             n \notin Listed(nodes) \cup Listed(disk)
      PROVE  n \notin Listed(nodes')
  <2>1. nodes[n] = Absent /\ nodes[n].status = "absent" /\ disk[n].status = "absent"
    BY <1>1 DEF NodesInv, NodesTypeOK, Listed, Node
  <2>2. CASE nodes' = nodes \/ nodes' = disk
    BY <2>1, <2>2 DEF Listed
  <2>3. ASSUME NEW m \in Nodes, Register(m) PROVE n \notin Listed(nodes')
    BY <1>1, <2>1, <2>3 DEF Register, Listed, NodesInv, NodesTypeOK
  <2>4. ASSUME NEW m \in Nodes, Heartbeat(m) PROVE n \notin Listed(nodes')
    BY <1>1, <2>1, <2>4 DEF Heartbeat, Listed, NodesInv, NodesTypeOK
  <2>5. ASSUME NEW m \in Nodes, DeleteNode(m) PROVE n \notin Listed(nodes')
    BY <1>1, <2>1, <2>5 DEF DeleteNode, Listed, NodesInv, NodesTypeOK
  <2>6. CASE CheckNodesHealth
    BY <1>1, <2>1, <2>6 DEF CheckNodesHealth, Listed, NodesInv, NodesTypeOK
  <2>7. ASSUME NEW m \in Nodes, TimePasses(m) PROVE n \notin Listed(nodes')
    <3>1. nodes'[n] = nodes[n] \/ nodes'[n] = Older(nodes[n])
      BY <2>7 DEF TimePasses, NodesInv, NodesTypeOK
    <3> QED
      BY <2>1, <3>1 DEF Older, Listed
  <2> QED
    BY <1>1, <2>2, <2>3, <2>4, <2>5, <2>6, <2>7
    DEF NodesNext, nodeVars, StartAgent, StartStore, Boot, StopProgram, SaveRegistration,
        NodesRestart
<1>2. NodesInv /\ [NodesNext]_nodeVars =>
          [\A n \in Nodes :
              /\ programs[n].pc = "beating" /\ programs'[n].pc = "beating"
              /\ n \notin Listed(nodes) \cup Listed(disk)
              => n \notin Listed(nodes')]_nodeVars
  BY <1>1
<1> QED
  BY <1>2, NodesInvariant, PTL DEF NodesSpec, OutcastStaysOut
=============================================================================
