------------------------------ MODULE MCEvents ------------------------------
(***************************************************************************)
(* Events for TLC, each behaviour with a focus chosen at the start: what   *)
(* moves in it.  Every behaviour found is one of Events.                   *)
(***************************************************************************)
EXTENDS Events, TLC

CONSTANTS primary, replica, Flat

MCFactor == (primary :> 2) @@ (replica :> 1)
MCBuckets == {Bucket}
MCOrigins == [put : 1 .. MaxPuts, at : Stores]

VARIABLE focus

Foci == {"writes", "failures", "reads", "events", "topic", "network"}

mcVars == <<eventVars, focus>>
In(S) == focus \in S /\ UNCHANGED focus

ClientCalls(n) == Cardinality({c \in Slots : calls'[c] # Free /\ calls'[c].by = Client}) <= n
Asks(S, ks, ops) == \E s \in S, k \in ks, op \in ops : Storing(Request(s, k, op))

Silent == notices' = notices
Joins(S) == \E s \in S : Storing(Discover(s)) /\ peers'[s] # {}

MCInit ==
    /\ EventsInit /\ focus \in Foci
    /\ keyed \in IF focus = "failures" THEN {{}, {replica}} ELSE {{}}

Failing == \E c \in Slots : Storing(Fails(c))

MCNext ==
    \/ /\ In({"writes"}) /\ Silent
       /\ Asks(Stores, {Flat}, {"put", "delete"}) \/ HandlerMoves \/ Joins(Stores)
       /\ ClientCalls(2) /\ callFaults' = 0
    \/ /\ In({"failures"}) /\ Silent
       /\ \/ Asks(Stores, Keys, {"put", "delete"}) \/ HandlerMoves
          \/ \E s \in Stores : Storing(CreateBucket(s) \/ Discover(s) \/ StoreRestart(s))
          \/ Failing
       /\ ClientCalls(1)
    \/ /\ In({"reads"}) /\ Silent
       /\ \/ Asks(Stores, {Flat}, {"get"}) \/ Asks({primary}, {Flat}, {"put", "delete"})
          \/ HandlerMoves
          \/ \E s \in Stores : Storing(Discover(s))
          \/ \E c \in Slots : Storing(CallLost(c))
       /\ ClientCalls(1)
    \/ /\ In({"events"})
       /\ Asks({primary}, Keys, {"put"}) \/ HandlerMoves \/ Joins({primary})
          \/ Storing(CreateBucket(primary)) \/ Notifies(SnsMoves) \/ Notifies(LambdaMoves)
       /\ puts' <= 1 /\ callFaults' = 0 /\ snsStarts' = 1 /\ \A r \in subscriptions' : r.who = Lambda
    \/ /\ In({"topic"})
       /\ Notifies(SnsMoves) \/ Notifies(LambdaMoves)
       /\ trigSeq' = 0 
    \/ /\ In({"network"})
       /\ Connects(NetMoves)

MCSpec == MCInit /\ [][MCNext]_mcVars
=============================================================================
