----------------------------- MODULE Networking -----------------------------
(***************************************************************************)
(* The networking service (control-plane/networking/vpc): five tables whose*)
(* rows are numbered by one counter, and the subnet of each instance.  A   *)
(* handler takes its number and then inserts the row; which object the     *)
(* client described is a number of its own here.                           *)
(***************************************************************************)
EXTENDS Naturals, FiniteSetsExt

CONSTANTS
    Hosts,        \* instances
    MaxMade,      \* bound on the objects clients create
    MaxNetStarts, \* bound on the starts of the service
    MaxNetFaults  \* bound on the rows whose INSERT fails

ASSUME NetworkingConstants == 
    MaxMade \in Nat /\ MaxNetStarts \in Nat \ {0} /\ MaxNetFaults \in Nat

\* The tables, by the prefix of their ids.
Kinds == {"vpc", "subnet", "rt", "sg", "rule"}
NetNumbers == 1 .. MaxMade
NetRow == [kind : Kinds, n : NetNumbers, made : NetNumbers]

VARIABLES
    netRows, netSeq, subnetOf,
    inserting,    \* the handlers that have their number
    made,         \* how many objects clients have described
    netAnswered,  \* history: what was answered 201,
    netFailed,    \* and what of it the database did not take
    netBefore,    \* history: the highest number before the last start
    netStarts

netVars == <<netRows, netSeq, subnetOf, inserting, made, netAnswered, netFailed, netBefore,
             netStarts>>

NetTypeOK ==
    /\ netRows \subseteq NetRow /\ inserting \subseteq NetRow /\ netAnswered \subseteq NetRow
    /\ netFailed \subseteq netAnswered
    /\ \A r, s \in netRows : r.kind = s.kind /\ r.n = s.n => r = s
    /\ subnetOf \in [Hosts -> NetNumbers \cup {0}]
    /\ netSeq \in 0 .. MaxMade /\ netBefore \in 0 .. MaxMade /\ made \in 0 .. MaxMade
    /\ netStarts \in 1 .. MaxNetStarts

NetInit ==
    /\ netRows = {} /\ inserting = {} /\ netAnswered = {} /\ netFailed = {}
    /\ subnetOf = [h \in Hosts |-> 0]
    /\ netSeq = 0 /\ netBefore = 0 /\ made = 0
    /\ netStarts = 1

\* Mutant: the counter is read and written in two steps, and two handlers may
\* read the same value.
ReadThenWritten == {netSeq + 1} \cup (IF inserting # {} THEN {netSeq} ELSE {})

\* nextID: the counter is advanced atomically, for all tables together.
NextID == {netSeq + 1}

\* A handler up to the number.  What the object refers to is not looked up.
Number(kind) ==
    /\ made < MaxMade
    /\ made' = made + 1
    /\ netSeq' \in NextID
    /\ inserting' = inserting \cup {[kind |-> kind, n |-> netSeq', made |-> made']}
    /\ UNCHANGED <<netRows, subnetOf, netAnswered, netFailed, netBefore, netStarts>>

CreateVPC == Number("vpc")
CreateSubnet == Number("subnet")
CreateRoute == Number("rt")
CreateGroup == Number("sg")
AddRule == Number("rule")

\* The INSERT and the answer 201, whatever error the INSERT had: a row may have
\* that number, or the database may fail.
Insert(r) ==
    /\ r \in inserting
    /\ inserting' = inserting \ {r}
    /\ netAnswered' = netAnswered \cup {r}
    /\ \/ /\ netRows' = IF \E s \in netRows : s.kind = r.kind /\ s.n = r.n THEN netRows
                        ELSE netRows \cup {r}
          /\ UNCHANGED netFailed
       \/ /\ Cardinality(netFailed) < MaxNetFaults
          /\ netFailed' = netFailed \cup {r}
          /\ UNCHANGED netRows
    /\ UNCHANGED <<netSeq, subnetOf, made, netBefore, netStarts>>

\* PUT /instances/{id}/subnet, for a subnet that need not exist
AssignSubnet(h, n) ==
    /\ subnetOf[h] # n
    /\ subnetOf' = [subnetOf EXCEPT ![h] = n]
    /\ UNCHANGED <<netRows, netSeq, inserting, made, netAnswered, netFailed, netBefore, netStarts>>

\* The tables are kept; the counter starts over.
NetRestart ==
    /\ netStarts < MaxNetStarts
    /\ netStarts' = netStarts + 1
    /\ netSeq' = 0
    /\ inserting' = {}
    /\ netBefore' = Max({netBefore, netSeq})
    /\ UNCHANGED <<netRows, subnetOf, made, netAnswered, netFailed>>

NetMoves ==
    \/ CreateVPC \/ CreateSubnet \/ CreateRoute \/ CreateGroup \/ AddRule
    \/ \E r \in inserting : Insert(r)
    \/ \E h \in Hosts, n \in NetNumbers : AssignSubnet(h, n)
    \/ NetRestart
=============================================================================
