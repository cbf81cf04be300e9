------------------------------ MODULE Triggers ------------------------------
(***************************************************************************)
(* How a stored object starts a function: the topic s3:ObjectCreated of    *)
(* SNS (control-plane/messaging/sns), to which the lambda service          *)
(* (data-plane/compute/lambda-runtime) subscribes whenever it starts, and  *)
(* the triggers by which lambda picks what to invoke.  A notice is one     *)
(* publication on its way; requests are lost or served, in any order.      *)
(***************************************************************************)
EXTENDS Naturals, FiniteSetsExt, Bags

CONSTANTS
    Functions,
    Buckets,
    Unnamed,      \* "", the bucket of a flat object; as a source, any bucket
    Lambda,       \* subscribers to the topic: the lambda service,
    Others,       \* and other endpoints
    Origins,      \* what a publication may be of
    MaxStarts,    \* bound on the starts of lambda, and on those of SNS
    MaxRows,      \* bound on the numbers of triggers and of subscriptions
    MaxSubFaults  \* bound on the subscriptions whose INSERT fails

ASSUME TriggersConstants ==
    /\ Unnamed \notin Buckets /\ Lambda \notin Others
    /\ MaxStarts \in Nat \ {0} /\ MaxRows \in Nat /\ MaxSubFaults \in Nat

Numbers == 1 .. MaxRows
Notice == [of : Origins, bucket : Buckets \cup {Unnamed}]
Subscription == [id : Numbers, who : Others \cup {Lambda}]
Trigger == [id : Numbers, fn : Functions, source : Buckets \cup {Unnamed}]
Invocation == [trig : Trigger, of : Notice]

VARIABLES
    subscriptions, subSeq,   \* SNS: its rows and its counter
    subBefore,    \* history: the highest number before its last start
    subAnswered,  \* history: the subscriptions that were answered 201,
    subFailed,    \* and those of them that the database did not take
    snsStarts,
    subscribing,  \* the subscribe requests of lambda on their way
    starts,       \* how often lambda has started
    functions, triggers, trigSeq,
    notices, deliveries,     \* bags of notices on their way to SNS and to lambda
    invocations,  \* the goroutines of triggerInvoke
    invoked       \* history: the invocations that became jobs

triggerVars == <<subscriptions, subSeq, subBefore, subAnswered, subFailed, snsStarts, subscribing,
                 starts, functions, triggers, trigSeq, notices, deliveries, invocations, invoked>>
snsVars == <<subscriptions, subSeq, subBefore, subAnswered, subFailed, snsStarts>>
lambdaVars == <<starts, functions, triggers, trigSeq>>

BagOf(B, S) == IsABag(B) /\ BagToSet(B) \subseteq S

TriggersTypeOK ==
    /\ subscriptions \subseteq Subscription
    /\ subSeq \in 0 .. MaxRows /\ subBefore \in 0 .. MaxRows
    /\ subAnswered \subseteq Subscription /\ subFailed \subseteq subAnswered
    /\ snsStarts \in 1 .. MaxStarts /\ starts \in 1 .. MaxStarts
    /\ subscribing \in 0 .. MaxStarts
    /\ functions \subseteq Functions
    /\ triggers \subseteq Trigger
    /\ \A t, u \in triggers : t.id = u.id => t = u
    /\ trigSeq \in 0 .. MaxRows
    /\ BagOf(notices, Notice) /\ BagOf(deliveries, Notice)
    /\ BagOf(invocations, Invocation)
    /\ BagOf(invoked, Invocation)

TriggersInit ==
    /\ subscriptions = {} /\ subAnswered = {} /\ subFailed = {} /\ functions = {} /\ triggers = {}
    /\ subSeq = 0 /\ subBefore = 0 /\ trigSeq = 0
    /\ snsStarts = 1 /\ starts = 1 /\ subscribing = 1
    /\ notices = EmptyBag /\ deliveries = EmptyBag
    /\ invocations = EmptyBag /\ invoked = EmptyBag

-----------------------------------------------------------------------------
\* handleSubscribe inserts the row under its next number, drops whatever error
\* the INSERT has, and answers 201: a row may have that number, or the database
\* may fail.
InsertSubscription(who) ==
    /\ subSeq < MaxRows
    /\ subSeq' = subSeq + 1
    /\ LET row == [id |-> subSeq', who |-> who]
           taken == \E r \in subscriptions : r.id = row.id
       IN
       /\ subAnswered' = subAnswered \cup {row}
       /\ \/ /\ subscriptions' = IF taken THEN subscriptions ELSE subscriptions \cup {row}
             /\ UNCHANGED subFailed
          \/ /\ Cardinality(subFailed) < MaxSubFaults
             /\ subFailed' = subFailed \cup {row}
             /\ UNCHANGED subscriptions
    /\ UNCHANGED <<subBefore, snsStarts>>

\* Mutant: the request is repeated after it was served.
SubscribeAgain ==
    /\ subscribing > 0 /\ InsertSubscription(Lambda)
    /\ UNCHANGED <<subscribing, lambdaVars, notices, deliveries, invocations, invoked>>

\* The request of subscribeToS3Events is served; the row it adds is not looked
\* for first.
Subscribe ==
    /\ subscribing > 0 /\ InsertSubscription(Lambda)
    /\ subscribing' = subscribing - 1
    /\ UNCHANGED <<lambdaVars, notices, deliveries, invocations, invoked>>

\* SNS is not there: that is logged, and lambda is not subscribed.
SubscribeFails ==
    /\ subscribing > 0
    /\ subscribing' = subscribing - 1
    /\ UNCHANGED <<snsVars, lambdaVars, notices, deliveries, invocations, invoked>>

SubscribeOther(who) ==
    /\ InsertSubscription(who)
    /\ UNCHANGED <<subscribing, lambdaVars, notices, deliveries, invocations, invoked>>

\* The counter is not restored from the rows.  What SNS was delivering may be
\* delivered all the same or be lost, see DeliveryLost.
SnsRestart ==
    /\ snsStarts < MaxStarts
    /\ snsStarts' = snsStarts + 1
    /\ subSeq' = 0
    /\ subBefore' = Max({subBefore, subSeq})
    /\ UNCHANGED <<subscriptions, subAnswered, subFailed, subscribing, lambdaVars,
                   notices, deliveries, invocations, invoked>>

\* handlePublish: one delivery for each row, of which those to lambda matter.
Publish(n) ==
    /\ BagIn(n, notices)
    /\ notices' = notices (-) SetToBag({n})
    /\ LET rows == {r \in subscriptions : r.who = Lambda} IN
       deliveries' = deliveries (+) [x \in IF rows = {} THEN {} ELSE {n} |-> Cardinality(rows)]
    /\ UNCHANGED <<snsVars, subscribing, lambdaVars, invocations, invoked>>

DeliveryLost(n) ==
    /\ BagIn(n, deliveries)
    /\ deliveries' = deliveries (-) SetToBag({n})
    /\ UNCHANGED <<snsVars, subscribing, lambdaVars, notices, invocations, invoked>>
-----------------------------------------------------------------------------
\* Lambda starts again with its tables, subscribes, and counts its triggers
\* from one; its goroutines are gone, one that subscribes perhaps after it sent
\* the request.
LambdaStart ==
    /\ starts < MaxStarts
    /\ starts' = starts + 1
    /\ trigSeq' = 0
    /\ subscribing' \in {1, subscribing + 1}
    /\ invocations' = EmptyBag
    /\ UNCHANGED <<snsVars, functions, triggers, notices, deliveries, invoked>>

CreateFunction(f) ==
    /\ f \notin functions
    /\ functions' = functions \cup {f}
    /\ UNCHANGED <<snsVars, subscribing, starts, triggers, trigSeq,
                   notices, deliveries, invocations, invoked>>

\* Mutant: the table of triggers has no primary key.
NeverRefused(id) == FALSE

\* The INSERT of a trigger fails on a number that a row has.
Refused(id) == \E t \in triggers : t.id = id

\* A number that is refused, or a statement that fails, is answered 500, and the
\* next one is tried by whoever asks again.  The function need not exist.
CreateTrigger(f, source) ==
    /\ trigSeq < MaxRows
    /\ trigSeq' = trigSeq + 1
    /\ triggers' \in {triggers} \cup
                     (IF Refused(trigSeq') THEN {}
                      ELSE {triggers \cup {[id |-> trigSeq', fn |-> f, source |-> source]}})
    /\ UNCHANGED <<snsVars, subscribing, starts, functions,
                   notices, deliveries, invocations, invoked>>

DeleteTrigger(t) ==
    /\ t \in triggers
    /\ triggers' = triggers \ {t}
    /\ UNCHANGED <<snsVars, subscribing, starts, functions, trigSeq,
                   notices, deliveries, invocations, invoked>>

\* The triggers of handleTriggerNotify.
Matching(n) == {t \in triggers : t.source \in {n.bucket, Unnamed}}

\* handleTriggerNotify starts a goroutine for each.
Deliver(n) ==
    /\ BagIn(n, deliveries)
    /\ deliveries' = deliveries (-) SetToBag({n})
    /\ invocations' = invocations (+) SetToBag({[trig |-> t, of |-> n] : t \in Matching(n)})
    /\ UNCHANGED <<snsVars, subscribing, lambdaVars, notices, invoked>>

\* triggerInvoke and handleInvoke: a 404 without the function, otherwise the
\* job is made, or the scheduler is not there.  What follows only reads the job
\* to answer the goroutine, which logs it.
Invoke(i) ==
    /\ BagIn(i, invocations)
    /\ invocations' = invocations (-) SetToBag({i})
    /\ invoked' \in {invoked} \cup (IF i.trig.fn \in functions THEN {invoked (+) SetToBag({i})} ELSE {})
    /\ UNCHANGED <<snsVars, subscribing, lambdaVars, notices, deliveries>>

SnsMoves ==
    \/ SnsRestart
    \/ \E who \in Others : SubscribeOther(who)
    \/ \E n \in BagToSet(notices) : Publish(n)

LambdaMoves ==
    \/ LambdaStart \/ Subscribe \/ SubscribeFails
    \/ \E n \in BagToSet(deliveries) : Deliver(n) \/ DeliveryLost(n)
    \/ \E i \in BagToSet(invocations) : Invoke(i)
    \/ \E f \in Functions :
           \/ CreateFunction(f)
           \/ \E source \in Buckets \cup {Unnamed} : CreateTrigger(f, source)
    \/ \E t \in triggers : DeleteTrigger(t)
=============================================================================
