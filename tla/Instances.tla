------------------------------ MODULE Instances ------------------------------
(***************************************************************************)
(* The life of instances: the registry (control-plane/registry,            *)
(* instances.go) numbers, stores and lists them; the ec2-agent (server.rs, *)
(* instances.rs) provisions and destroys their containers.  Every handler  *)
(* of the registry changes the database and the memory in two steps and    *)
(* holds no lock over both.  Calls between the two programs get lost, and  *)
(* both crash.                                                             *)
(*                                                                         *)
(* Errors of the database other than in Save are left out.                 *)
(*                                                                         *)
(* One node is enough: instances share nothing on a node, and an agent     *)
(* matters to others only by crashing.  Which node is picked is left out.  *)
(***************************************************************************)
EXTENDS Naturals, Sequences

CONSTANTS
    MaxSeq,       \* bound on the sequence number
    Followed,     \* instances that more happens to than being launched
    MaxCreated    \* bound on how often one number is given out

Ids == 1 .. MaxSeq
Status == {"provisioning", "running", "failed", "terminated"}
Instance == [id : Ids, status : Status]

\* A launchInstance that has its number: before Save, or before the append.
Launch == [id : Ids, pc : {"saving", "appending"}]

\* A handler about to write a status, first to the database, then to memory.
\* orderly: a termination that began after all provisioning of the instance.
Write == {w \in [id : Ids, status : Status \ {"provisioning"},
                 pc : {"db", "memory"}, orderly : BOOLEAN] :
             w.orderly => w.status = "terminated"}

\* A call of the agent's provision endpoint; waited: the registry still waits
\* for the answer.
Call == [id : Ids, waited : BOOLEAN]
\* A provisioning thread of the agent, or the command one left behind.
Thread == [id : Ids, pc : {"checking", "copying", "booting"}, owned : BOOLEAN]
Patch == [id : Ids, status : {"running", "failed"}]
Destroy == [id : Ids, orderly : BOOLEAN]

ASSUME InstancesConstants ==
    /\ MaxSeq \in Nat
    /\ Followed \subseteq Ids
    /\ MaxCreated \in Nat

VARIABLES
    seq,          \* InstanceStore.seq
    launches,     \* open launchInstance handlers
    rows,         \* the instances table, in the order of its rowids
    instances,    \* the slice guarded by instancesMu
    writes,       \* handlers that are writing a status
    calls,        \* provision calls in flight
    threads,      \* provisioning threads of the agent
    patches,      \* status reports in flight to the registry
    destroys,     \* destroy calls in flight to the agent
    destroying,   \* destroy calls the agent is working on
    rootfs,       \* instances with a rootfs directory
    machines,     \* instances with a running container
    created,      \* how often each number was given to a saved instance
    overtaken,    \* a save was overtaken by the save of a higher number
    final,        \* instances answered 204 after an orderly termination
    destroyed     \* instances gone from the agent after an orderly termination

registryVars == <<seq, launches, rows, instances, writes>>
wireVars == <<calls, patches, destroys>>
agentVars == <<threads, destroying, rootfs, machines>>
historyVars == <<created, overtaken, final, destroyed>>
vars == <<registryVars, wireVars, agentVars, historyVars>>

IdsOf(table) == {table[k].id : k \in DOMAIN table}

InstancesTypeOK ==
    /\ seq \in 0 .. MaxSeq
    /\ launches \subseteq Launch
    /\ rows \in Seq(Instance) /\ Len(rows) <= MaxSeq
    /\ instances \in Seq(Instance) /\ Len(instances) <= MaxSeq * MaxCreated
    /\ writes \subseteq Write
    /\ calls \subseteq Call
    /\ patches \subseteq Patch
    /\ destroys \subseteq Destroy
    /\ threads \subseteq Thread
    /\ destroying \subseteq Destroy
    /\ rootfs \subseteq Ids /\ machines \subseteq Ids
    /\ created \in [Ids -> 0 .. MaxCreated]
    /\ overtaken \in BOOLEAN
    /\ final \subseteq Ids /\ destroyed \subseteq Ids

Init ==
    /\ seq = 0
    /\ rows = <<>> /\ instances = <<>>
    /\ launches = {} /\ writes = {}
    /\ calls = {} /\ patches = {} /\ destroys = {}
    /\ threads = {} /\ destroying = {} /\ rootfs = {} /\ machines = {}
    /\ created = [id \in Ids |-> 0]
    /\ overtaken = FALSE
    /\ final = {} /\ destroyed = {}

\* The first entry of the id gets the status; there may be none.
WithStatus(table, id, s) ==
    [k \in DOMAIN table |->
        IF table[k].id = id /\ \A j \in 1 .. k - 1 : table[j].id # id
        THEN [table[k] EXCEPT !.status = s]
        ELSE table[k]]

-----------------------------------------------------------------------------
\* POST /instances: InstanceStore.Create takes the next number.
TakeNumber ==
    /\ seq < MaxSeq
    /\ created[seq + 1] < MaxCreated
    /\ seq' = seq + 1
    /\ launches' = launches \cup {[id |-> seq', pc |-> "saving"]}
    /\ UNCHANGED <<rows, instances, writes, wireVars, agentVars, historyVars>>

\* Mutant: a table without a primary key.
SaveAnotherRow(l) ==
    /\ l.pc = "saving"
    /\ launches' = (launches \ {l}) \cup {[l EXCEPT !.pc = "appending"]}
    /\ rows' = Append(rows, [id |-> l.id, status |-> "provisioning"])
    /\ created' = [created EXCEPT ![l.id] = @ + 1]
    /\ overtaken' = (overtaken \/ \E id \in IdsOf(rows) : id > l.id)
    /\ UNCHANGED <<seq, instances, writes, wireVars, agentVars, final, destroyed>>

\* InstanceStore.Save: a row with this id is overwritten.  An error ends the
\* process, which is a restart.
SaveInstance(l) ==
    /\ l.pc = "saving"
    /\ launches' = (launches \ {l}) \cup {[l EXCEPT !.pc = "appending"]}
    /\ rows' = IF l.id \in IdsOf(rows)
               THEN WithStatus(rows, l.id, "provisioning")
               ELSE Append(rows, [id |-> l.id, status |-> "provisioning"])
    /\ created' = [created EXCEPT ![l.id] = @ + 1]
    /\ overtaken' = (overtaken \/ \E id \in IdsOf(rows) : id > l.id)
    /\ UNCHANGED <<seq, instances, writes, wireVars, agentVars, final, destroyed>>

\* The instance is listed, the client answered, and the agent called.
AppendInstance(l) ==
    /\ l.pc = "appending"
    /\ launches' = launches \ {l}
    /\ instances' = Append(instances, [id |-> l.id, status |-> "provisioning"])
    /\ calls' = calls \cup {[id |-> l.id, waited |-> TRUE]}
    /\ UNCHANGED <<seq, rows, writes, patches, destroys, agentVars, historyVars>>

Begin(id, s, orderly) ==
    writes' = writes \cup {[id |-> id, status |-> s, pc |-> "db", orderly |-> orderly]}

\* The agent accepts the call and starts a thread, unless the call is lost.
\* The registry marks the instance failed when it gets an error, and it gets
\* one too when only the answer is lost.
ProvisionCall(c) ==
    /\ c.id \in Followed
    /\ calls' = calls \ {c}
    /\ \E served, answered \in BOOLEAN :
           /\ answered => served
           /\ threads' = IF served
                         THEN threads \cup {[id |-> c.id, pc |-> "checking", owned |-> TRUE]}
                         ELSE threads
           /\ IF c.waited /\ ~answered
              THEN Begin(c.id, "failed", FALSE)
              ELSE UNCHANGED writes
    /\ UNCHANGED <<seq, launches, rows, instances, patches, destroys,
                   destroying, rootfs, machines, historyVars>>

\* The thread ends and reports, once; a command left behind just ends.
Finish(t, s) ==
    /\ threads' = threads \ {t}
    /\ patches' = IF t.owned THEN patches \cup {[id |-> t.id, status |-> s]} ELSE patches

\* provision(): a rootfs that exists counts as provisioned, a missing base
\* image is an error, otherwise the copy begins.
CheckRootfs(t) ==
    /\ t.pc = "checking"
    /\ \/ Finish(t, "failed") /\ UNCHANGED rootfs
       \/ t.id \in rootfs /\ Finish(t, "running") /\ UNCHANGED rootfs
       \/ /\ t.id \notin rootfs
          /\ rootfs' = rootfs \cup {t.id}
          /\ threads' = (threads \ {t}) \cup {[t EXCEPT !.pc = "copying"]}
          /\ UNCHANGED patches
    /\ UNCHANGED <<registryVars, calls, destroys, destroying, machines, historyVars>>

\* cp ends.  If the directory was removed meanwhile, part of it may be back.
CopyRootfs(t) ==
    /\ t.pc = "copying"
    /\ rootfs' \in {rootfs, rootfs \cup {t.id}}
    /\ \/ Finish(t, "failed")
       \/ /\ t.owned
          /\ threads' = (threads \ {t}) \cup {[t EXCEPT !.pc = "booting"]}
          /\ UNCHANGED patches
    /\ UNCHANGED <<registryVars, calls, destroys, destroying, machines, historyVars>>

\* systemd-run boots the container, or fails.
Boot(t) ==
    /\ t.pc = "booting"
    /\ \/ Finish(t, "failed") /\ UNCHANGED machines
       \/ t.id \in rootfs /\ Finish(t, "running") /\ machines' = machines \cup {t.id}
    /\ UNCHANGED <<registryVars, calls, destroys, destroying, rootfs, historyVars>>

\* PATCH /instances/{id} reaches the registry, or is lost.
PatchInstance(p) ==
    /\ patches' = patches \ {p}
    /\ Begin(p.id, p.status, FALSE) \/ UNCHANGED writes
    /\ UNCHANGED <<seq, launches, rows, instances, calls, destroys, agentVars, historyVars>>

\* Something that will still write a status other than "terminated", or bring
\* up the container.
Provisioning(id) ==
    \/ id \in {x.id : x \in launches \cup calls \cup threads \cup patches}
    \/ \E w \in writes : w.id = id /\ w.status # "terminated"

\* DELETE /instances/{id} of an instance that is listed (and followed).
TerminateInstance(id) ==
    /\ id \in Followed \cap IdsOf(instances)
    /\ Begin(id, "terminated", ~Provisioning(id))
    /\ UNCHANGED <<seq, launches, rows, instances, wireVars, agentVars, historyVars>>

\* Mutant: the termination is not written to the database.
WriteRowUnlessTerminated(w) ==
    /\ w.pc = "db"
    /\ writes' = (writes \ {w}) \cup {[w EXCEPT !.pc = "memory"]}
    /\ rows' = IF w.status = "terminated" THEN rows ELSE WithStatus(rows, w.id, w.status)
    /\ UNCHANGED <<seq, launches, instances, wireVars, agentVars, historyVars>>

\* Terminate or SetStatus of the store.
WriteRow(w) ==
    /\ w.pc = "db"
    /\ writes' = (writes \ {w}) \cup {[w EXCEPT !.pc = "memory"]}
    /\ rows' = WithStatus(rows, w.id, w.status)
    /\ UNCHANGED <<seq, launches, instances, wireVars, agentVars, historyVars>>

\* The same status in memory.  A termination is then answered, and the agent
\* is told, if the registry still knows the node.
WriteMemory(w) ==
    /\ w.pc = "memory"
    /\ writes' = writes \ {w}
    /\ instances' = WithStatus(instances, w.id, w.status)
    /\ final' = IF w.orderly THEN final \cup {w.id} ELSE final
    /\ \/ w.status = "terminated" /\
              destroys' = destroys \cup {[id |-> w.id, orderly |-> w.orderly]}
       \/ UNCHANGED destroys
    /\ UNCHANGED <<seq, launches, rows, calls, patches, agentVars,
                   created, overtaken, destroyed>>

\* DELETE /instances/{id} reaches the agent, or is lost.
DestroyCall(d) ==
    /\ destroys' = destroys \ {d}
    /\ destroying' \in {destroying, destroying \cup {d}}
    /\ UNCHANGED <<registryVars, calls, patches, threads, rootfs, machines, historyVars>>

\* Three seconds later the container is down and its rootfs removed, as far as
\* the commands succeed: nobody looks.
DestroyInstance(d) ==
    /\ destroying' = destroying \ {d}
    /\ machines' \in {machines, machines \ {d.id}}
    /\ rootfs' \in {rootfs, rootfs \ {d.id}}
    /\ destroyed' = IF d.orderly /\ d.id \notin rootfs' \cup machines'
                    THEN destroyed \cup {d.id}
                    ELSE destroyed
    /\ UNCHANGED <<registryVars, wireVars, threads, created, overtaken, final>>

\* The agent dies; containers and directories stay, as may the commands its
\* threads were waiting for.  A destruction may have stopped its container.
AgentCrash ==
    /\ \E left \in SUBSET {t \in threads : t.pc # "checking"} :
           threads' = {[t EXCEPT !.owned = FALSE] : t \in left}
    /\ \E off \in SUBSET {d.id : d \in destroying} : machines' = machines \ off
    /\ destroying' = {}
    /\ UNCHANGED <<registryVars, wireVars, rootfs, historyVars>>

\* Mutant: numbering starts over.
FirstNumber == 0

\* The number of the row inserted last, as NewInstanceStore reads it.
LastNumber == IF rows = <<>> THEN 0 ELSE rows[Len(rows)].id

\* Mutant: what the table holds is provisioned once more.
RestartProvisioning ==
    /\ seq' = LastNumber
    /\ instances' = rows
    /\ launches' = {} /\ writes' = {}
    /\ calls' = {[id |-> id, waited |-> FALSE] : id \in IdsOf(rows)}
    /\ UNCHANGED <<rows, patches, destroys, agentVars, historyVars>>

\* The registry dies with its handlers and reloads the table.
RegistryRestart ==
    /\ seq' = LastNumber
    /\ instances' = rows
    /\ launches' = {} /\ writes' = {}
    /\ calls' = {[c EXCEPT !.waited = FALSE] : c \in calls}
    /\ UNCHANGED <<rows, patches, destroys, agentVars, historyVars>>

Next ==
    \/ TakeNumber
    \/ \E l \in launches : SaveInstance(l) \/ AppendInstance(l)
    \/ \E c \in calls : ProvisionCall(c)
    \/ \E t \in threads : CheckRootfs(t) \/ CopyRootfs(t) \/ Boot(t)
    \/ \E p \in patches : PatchInstance(p)
    \/ \E id \in Ids : TerminateInstance(id)
    \/ \E w \in writes : WriteRow(w) \/ WriteMemory(w)
    \/ \E d \in destroys : DestroyCall(d)
    \/ \E d \in destroying : DestroyInstance(d)
    \/ AgentCrash
    \/ RegistryRestart

Spec == Init /\ [][Next]_vars
-----------------------------------------------------------------------------
\* A number is given out twice only after a save was overtaken by the save of
\* a higher number, so that the row inserted last was not the highest when the
\* registry restarted; a crash at any other point does not repeat a number.
ReuseNeedsOvertaking == (\E id \in Ids : created[id] > 1) => overtaken

\* Once a client was told that its instance is terminated, and the instance
\* had been provisioned before it asked, the instance is terminated for ever,
\* in the list and in the database, across restarts.
TerminatedIsFinal ==
    \A id \in final :
        created[id] = 1 =>
            /\ id \in IdsOf(rows) \cap IdsOf(instances)
            /\ \A table \in {rows, instances} :
                   \A k \in DOMAIN table :
                       table[k].id = id => table[k].status = "terminated"

\* The container of such an instance, once it was shut down and its disk
\* removed, does not come back, and neither does the disk.
DestroyedStaysGone ==
    \A id \in destroyed : created[id] = 1 => id \notin rootfs \cup machines
=============================================================================
