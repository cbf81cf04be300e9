---------------------------- MODULE NodeRegistry ----------------------------
(***************************************************************************)
(* The registry's table of nodes (control-plane/registry, main.go and      *)
(* store.go) and the programs that keep themselves in it by registering    *)
(* once and then sending heartbeats: the ec2-agent and the object store.   *)
(* The map in memory is written under a lock, and so is the database,      *)
(* except by a registration, which saves after it has left the lock.       *)
(*                                                                         *)
(* Time is three ages of an entry: within 30 s of its last_seen, within    *)
(* five minutes, and older.                                                *)
(***************************************************************************)
EXTENDS Naturals

CONSTANTS
    Nodes,        \* ids of nodes, one program each
    Storage,      \* those that run an object store, not an agent
    MaxBoots,     \* bound on how often a program is started
    MaxFaults     \* bound on the moments at which the database fails

Fresh == 0
Late == 1
Old == 2
Ages == Fresh .. Old
Boots == 1 .. MaxBoots

\* boot stands for what a program tells about itself when it registers.
Node == [status : {"healthy", "unhealthy"}, age : Ages, boot : Boots]
Absent == [status |-> "absent", age |-> Fresh, boot |-> 0]
\* A handleRegister that has written the map and has not saved yet.
Saving == [node : Nodes, age : Ages, boot : Boots]
Program == [pc : {"down", "registering", "beating"}, boot : 0 .. MaxBoots]

ASSUME NodeRegistryConstants ==
    /\ Storage \subseteq Nodes
    /\ MaxBoots \in Nat
    /\ MaxFaults \in Nat

VARIABLES
    nodes,        \* the map guarded by nodesMu
    disk,         \* the nodes table
    saving,       \* registrations still to be saved
    programs,     \* the agents and object stores
    raced,        \* nodes changed while a registration of them was to be saved
    faults        \* moments at which the database failed

nodeVars == <<nodes, disk, saving, programs, raced, faults>>

NodesTypeOK ==
    /\ nodes \in [Nodes -> Node \cup {Absent}]
    /\ disk \in [Nodes -> Node \cup {Absent}]
    /\ saving \subseteq Saving
    /\ programs \in [Nodes -> Program]
    /\ raced \subseteq Nodes
    /\ faults \in 0 .. MaxFaults

NodesInit ==
    /\ nodes = [n \in Nodes |-> Absent]
    /\ disk = nodes
    /\ saving = {}
    /\ programs = [n \in Nodes |-> [pc |-> "down", boot |-> 0]]
    /\ raced = {}
    /\ faults = 0

Listed(table) == {n \in Nodes : table[n].status # "absent"}
BeingSaved(S) == {n \in S : \E s \in saving : s.node = n}

\* NodeStore.Save and Delete of the entries of S, which may fail for some.
\* What is written now agrees with the map, unless an older registration is
\* still to be saved over it.
Persist(S) ==
    \E failed \in SUBSET S :
        /\ failed # {} => faults < MaxFaults
        /\ faults' = IF failed = {} THEN faults ELSE faults + 1
        /\ disk' = [n \in Nodes |-> IF n \in S \ failed THEN nodes'[n] ELSE disk[n]]
        /\ raced' = (raced \ S) \cup failed \cup BeingSaved(S)

-----------------------------------------------------------------------------
Boot(n) ==
    /\ programs[n].pc = "down" /\ programs[n].boot < MaxBoots
    /\ programs' = [programs EXCEPT ![n] = [pc |-> "registering", boot |-> @.boot + 1]]
    /\ UNCHANGED <<nodes, disk, saving, raced, faults>>

\* Both programs register before they serve anything.
StartAgent(n) == n \notin Storage /\ Boot(n)
StartStore(n) == n \in Storage /\ Boot(n)

\* The program dies, or exits because its last attempt to register failed.
StopProgram(n) ==
    /\ programs[n].pc # "down"
    /\ programs' = [programs EXCEPT ![n].pc = "down"]
    /\ UNCHANGED <<nodes, disk, saving, raced, faults>>

\* POST /nodes/register up to the end of the lock.  The program waits for the
\* answer of one attempt before it makes the next.
Register(n) ==
    /\ programs[n].pc = "registering"
    /\ ~\E s \in saving : s.node = n /\ s.boot = programs[n].boot
    /\ nodes' = [nodes EXCEPT
                   ![n] = [status |-> "healthy", age |-> Fresh, boot |-> programs[n].boot]]
    /\ saving' = saving \cup {[node |-> n, age |-> Fresh, boot |-> programs[n].boot]}
    /\ raced' = raced \cup BeingSaved({n})
    /\ UNCHANGED <<disk, programs, faults>>

\* The answer 201 ends the attempts of the program that waits for it.
Registered(s) ==
    IF programs[s.node] = [pc |-> "registering", boot |-> s.boot]
    THEN [programs EXCEPT ![s.node].pc = "beating"]
    ELSE programs

\* The rest of the handler: the entry is saved as it was registered, and the
\* answer arrives or is lost; or the save fails and the program is told so.
SaveRegistration(s) ==
    /\ saving' = saving \ {s}
    /\ \/ /\ disk' = [disk EXCEPT
                        ![s.node] = [status |-> "healthy", age |-> s.age, boot |-> s.boot]]
          /\ programs' \in {programs, Registered(s)}
          /\ UNCHANGED <<raced, faults>>
       \/ /\ faults < MaxFaults
          /\ faults' = faults + 1
          /\ raced' = raced \cup {s.node}
          /\ UNCHANGED <<disk, programs>>
    /\ UNCHANGED nodes

\* Mutant: the heartbeat is not saved.
BeatInMemory(n) ==
    /\ programs[n].pc = "beating"
    /\ n \in Listed(nodes)
    /\ nodes' = [nodes EXCEPT ![n] = [status |-> "healthy", age |-> Fresh, boot |-> @.boot]]
    /\ UNCHANGED <<disk, saving, programs, raced, faults>>

\* Mutant: a heartbeat lists a node that is unknown.
BeatAnyone(n) ==
    /\ programs[n].pc = "beating"
    /\ nodes' = [nodes EXCEPT
                   ![n] = [status |-> "healthy", age |-> Fresh, boot |-> programs[n].boot]]
    /\ Persist({n})
    /\ UNCHANGED <<saving, programs>>

\* POST /nodes/heartbeat of a node that is listed; any other is answered 404,
\* which the program ignores.
Heartbeat(n) ==
    /\ programs[n].pc = "beating"
    /\ n \in Listed(nodes)
    /\ nodes' = [nodes EXCEPT ![n] = [status |-> "healthy", age |-> Fresh, boot |-> @.boot]]
    /\ Persist({n})
    /\ UNCHANGED <<saving, programs>>

\* DELETE /nodes/{id}
DeleteNode(n) ==
    /\ n \in Listed(nodes)
    /\ nodes' = [nodes EXCEPT ![n] = Absent]
    /\ Persist({n})
    /\ UNCHANGED <<saving, programs>>

\* Mutant: an entry is never pruned.
MarkNodes ==
    LET late == {n \in Listed(nodes) : nodes[n].age # Fresh} IN
    /\ late # {}
    /\ nodes' = [n \in Nodes |->
                    IF n \in late THEN [nodes[n] EXCEPT !.status = "unhealthy"] ELSE nodes[n]]
    /\ Persist(late)
    /\ UNCHANGED <<saving, programs>>

\* One tick of the health check: entries already unhealthy and old are pruned,
\* the other late ones become or stay unhealthy and are saved.
CheckNodesHealth ==
    LET late == {n \in Listed(nodes) : nodes[n].age # Fresh}
        pruned == {n \in late : nodes[n].age = Old /\ nodes[n].status = "unhealthy"}
    IN
    /\ late # {}
    /\ nodes' = [n \in Nodes |->
                    IF n \in pruned THEN Absent
                    ELSE IF n \in late THEN [nodes[n] EXCEPT !.status = "unhealthy"]
                    ELSE nodes[n]]
    /\ Persist(late)
    /\ UNCHANGED <<saving, programs>>

Older(r) ==
    IF r.age < Old /\ r # Absent THEN [r EXCEPT !.age = @ + 1] ELSE r

\* No heartbeat of n arrives for long enough that its entries age.
TimePasses(n) ==
    /\ nodes' = [nodes EXCEPT ![n] = Older(@)]
    /\ disk' = [disk EXCEPT ![n] = Older(@)]
    /\ saving' = {IF s.node = n THEN Older(s) ELSE s : s \in saving}
    /\ UNCHANGED <<programs, raced, faults>>

\* The registry dies with its handlers and loads the table.
NodesRestart ==
    /\ nodes' = disk
    /\ saving' = {}
    /\ raced' = {}
    /\ UNCHANGED <<disk, programs, faults>>

NodesNext ==
    \/ \E n \in Nodes :
           \/ StartAgent(n) \/ StartStore(n) \/ StopProgram(n)
           \/ Register(n) \/ Heartbeat(n) \/ DeleteNode(n) \/ TimePasses(n)
    \/ \E s \in saving : SaveRegistration(s)
    \/ CheckNodesHealth
    \/ NodesRestart

NodesSpec == NodesInit /\ [][NodesNext]_nodeVars
-----------------------------------------------------------------------------
\* The map and the table of the registry agree about a node, in every field,
\* whenever no registration of it is on its way to the table.  The one
\* exception is a node whose statement failed, or that a heartbeat, a delete,
\* the health check or another registration changed between the lock and the
\* save of a registration, and it lasts until the next write of the node.
DiskMatchesMemory ==
    \A n \in Nodes \ raced : n \notin BeingSaved(Nodes) => disk[n] = nodes[n]

\* A node that was dropped while its program runs stays out, for its heartbeats
\* are answered 404 and no more than that: nothing but the next start of the
\* program lists it again, unless the table still has it and is loaded.
OutcastStaysOut ==
    [][\A n \in Nodes :
          /\ programs[n].pc = "beating" /\ programs'[n].pc = "beating"
          /\ n \notin Listed(nodes) \cup Listed(disk)
          => n \notin Listed(nodes')]_nodeVars

\* A node whose program stays down is dropped from the map for good, whatever
\* was in flight, whichever statements fail, and however often the registry is
\* started again from its table.
SilentNodesPruned ==
    \A n \in Nodes :
        <>[](programs[n].pc = "down") => <>[](n \notin Listed(nodes))
=============================================================================
