------------------------------- MODULE Events -------------------------------
(***************************************************************************)
(* The object stores, SNS and the lambda service together: every store     *)
(* that took a PUT publishes it, copies included, SNS delivers it to each  *)
(* subscription, and lambda invokes a function for each matching trigger.  *)
(* The networking service stands beside them, with the counter that SNS    *)
(* has too.                                                                *)
(***************************************************************************)
EXTENDS ObjectStore, Triggers, Networking

CONSTANT Bucket   \* the bucket of the keys in Bucketed

ASSUME EventsConstants ==
    /\ Buckets = {Bucket}
    /\ Origins = [put : 1 .. MaxPuts, at : Stores]

VARIABLE announced   \* history: the notices that were sent, as a bag

eventVars == <<storeVars, triggerVars, netVars, announced>>

EventsTypeOK == StoreTypeOK /\ TriggersTypeOK /\ NetTypeOK /\ BagOf(announced, Notice)

EventsInit == StoreInit /\ TriggersInit /\ NetInit /\ announced = EmptyBag

\* notify_object_created, on a task of its own, by the handler of every PUT:
\* that of a client and that of a peer.  A notice may be lost on its way, and
\* none is sent without SNS_URL.
NoticeOf(c) ==
    [of |-> [put |-> calls[c].val, at |-> calls[c].at],
     bucket |-> IF calls[c].key \in Bucketed THEN Bucket ELSE Unnamed]

Finishes(c) ==
    /\ Finish(c)
    /\ \/ UNCHANGED <<notices, announced>>
       \/ /\ calls[c].op = "put"
          /\ notices' = notices (+) SetToBag({NoticeOf(c)})
          /\ announced' = announced (+) SetToBag({NoticeOf(c)})
    /\ UNCHANGED <<snsVars, lambdaVars, subscribing, deliveries, invocations, invoked, netVars>>

Storing(step) == step /\ UNCHANGED <<triggerVars, netVars, announced>>
Notifies(step) == step /\ UNCHANGED <<storeVars, netVars, announced>>
Connects(step) == step /\ UNCHANGED <<storeVars, triggerVars, announced>>

HandlerMoves == \E c \in Slots : Storing(Works(c) \/ Return(c)) \/ Finishes(c)

EventsNext ==
    \/ HandlerMoves
    \/ \E s \in Stores : Storing(CreateBucket(s) \/ Discover(s) \/ StoreRestart(s))
    \/ \E s \in Stores, k \in Keys, op \in {"put", "get", "delete"} : Storing(Request(s, k, op))
    \/ \E c \in Slots : Storing(Fails(c))
    \/ Notifies(SnsMoves) \/ Notifies(LambdaMoves)
    \/ Connects(NetMoves)

EventsSpec == EventsInit /\ [][EventsNext]_eventVars
-----------------------------------------------------------------------------
\* For every time a store announced an object, a trigger makes at most one
\* invocation per start of lambda: a restart adds a subscription and forgets
\* none, and SNS, which delivers to each, does not try again.
OncePerNotice ==
    \A i \in BagToSet(invoked) :
        i.of \in BagToSet(announced) /\ invoked[i] <= starts * announced[i.of]

\* What SNS and the networking service answered 201 is stored as answered, or
\* the database did not take it, or its number is one they gave before they last
\* started: an object of that time has it, and the new one is dropped, never the
\* old one.
LostRowsExplained ==
    /\ \A r \in subAnswered \ (subscriptions \cup subFailed) :
           r.id <= subBefore /\ \E s \in subscriptions : s.id = r.id
    /\ \A r \in netAnswered \ (netRows \cup netFailed) :
           /\ r.n <= netBefore
           /\ \E s \in netRows : s.kind = r.kind /\ s.n = r.n /\ s.made < r.made
=============================================================================
