------------------------------ MODULE JobIntake ------------------------------
(***************************************************************************)
(* The scheduler's pollSQSQueue together with the queue service: a loop in *)
(* the scheduler receives messages from one queue, makes a job of each,    *)
(* and acknowledges it by a DELETE.  Requests and replies get lost, and    *)
(* both processes crash.                                                   *)
(*                                                                         *)
(* The job table is reduced to how many jobs it holds for each message;    *)
(* module Scheduler has the rest of it.  Other clients receive from the    *)
(* other queues only, and the jobs queue is nobody's dead letter queue.    *)
(***************************************************************************)
EXTENDS Sqs, FiniteSets

CONSTANTS
    JobsQueue,      \* the queue "jobs"
    GoodBodies,     \* bodies that decode to a job with something to run
    Poller,         \* the scheduler, as a client of the queues
    SavesMayFail,   \* whether jobStore.Save may return an error
    MaxReads,       \* bound on the open receives that are not the poller's
    MaxFaults       \* bound on the interruptions of one message

VARIABLES
    poller,        \* the loop of pollSQSQueue
    acks,          \* messages with a DELETE in flight
    made,          \* jobs in memory, by message
    saved,         \* jobs in the database, by message
    interrupted    \* how often work on a message was cut short

intakeVars == <<poller, acks, made, saved, interrupted>>
vars == <<sqsVars, intakeVars>>

Resting == [pc |-> "resting"]
Receiving == [pc |-> "receiving"]
PollerState == {Resting, Receiving} \cup [pc : {"holding", "acking"}, msg : MsgIds]

ASSUME IntakeConstants ==
    /\ JobsQueue \in Queues
    /\ \A q \in Queues : \A p \in Policies[q] : p.dlq # JobsQueue
    /\ GoodBodies \subseteq Bodies
    /\ Poller \in Clients
    /\ SavesMayFail \in BOOLEAN
    /\ MaxReads \in Nat
    /\ MaxFaults \in Nat

IntakeTypeOK ==
    /\ SqsTypeOK
    /\ poller \in PollerState
    /\ acks \subseteq MsgIds
    /\ made \in [MsgIds -> 0 .. MaxFaults + 1]
    /\ saved \in [MsgIds -> 0 .. MaxFaults + 1]
    /\ interrupted \in [MsgIds -> 0 .. MaxFaults]

IntakeInit ==
    /\ SqsInit
    /\ poller = Resting
    /\ acks = {}
    /\ made = [id \in MsgIds |-> 0]
    /\ saved = made
    /\ interrupted = made

-----------------------------------------------------------------------------
Holding(id) == poller = [pc |-> "holding", msg |-> id]
Acking(id) == poller = [pc |-> "acking", msg |-> id]

SpareReads == Cardinality({r \in reads : r.client # Poller}) < MaxReads

\* A tick: the poller asks for a message.  If there is none it rests.
Poll ==
    /\ poller = Resting
    /\ Select(Poller, JobsQueue)
    /\ poller' = Receiving
    /\ UNCHANGED <<acks, made, saved, interrupted>>

\* The message reaches the poller.
Take(r) ==
    /\ r.client = Poller
    /\ HandOut(r)
    /\ poller' = [pc |-> "holding", msg |-> r.id]
    /\ UNCHANGED <<acks, made, saved, interrupted>>

\* The answer is empty.
Miss(r) ==
    /\ MoveToDlq(r)
    /\ poller' = IF r.client = Poller THEN Resting ELSE poller
    /\ UNCHANGED <<acks, made, saved, interrupted>>

\* The message goes to another client, or the answer is lost.
TakeElsewhere(r) ==
    /\ HandOut(r)
    /\ poller' = IF r.client = Poller THEN Resting ELSE poller
    /\ UNCHANGED <<acks, made, saved, interrupted>>

\* The connection breaks while the receive is being handled.
StopReceiving ==
    /\ poller = Receiving
    /\ SpareReads
    /\ poller' = Resting
    /\ Forsake(Poller)
    /\ UNCHANGED <<queues, messages, msgSeq, sends, sent, handouts,
                   acks, made, saved, interrupted>>

Acknowledge(id) ==
    /\ poller' = [pc |-> "acking", msg |-> id]
    /\ acks' = acks \cup {id}

\* A node was found: the job is inserted and saved, then the DELETE is sent.
\* An error of Save is only logged.
MakeJob(id) ==
    /\ Holding(id)
    /\ messages[id].body \in GoodBodies
    /\ made' = [made EXCEPT ![id] = @ + 1]
    /\ \E lost \in BOOLEAN :
           /\ lost => SavesMayFail
           /\ saved' = IF lost THEN saved ELSE [saved EXCEPT ![id] = @ + 1]
    /\ Acknowledge(id)
    /\ UNCHANGED <<sqsVars, interrupted>>

\* A body that is no job is acknowledged and dropped.
Discard(id) ==
    /\ Holding(id)
    /\ messages[id].body \notin GoodBodies
    /\ Acknowledge(id)
    /\ UNCHANGED <<sqsVars, made, saved, interrupted>>

\* Mutant: a message nobody can run is acknowledged.
AckWithoutNode(id) ==
    /\ Holding(id)
    /\ messages[id].body \in GoodBodies
    /\ Acknowledge(id)
    /\ UNCHANGED <<sqsVars, made, saved, interrupted>>

\* Without a node the message is left to become visible again.
NoNode(id) ==
    /\ Holding(id)
    /\ messages[id].body \in GoodBodies
    /\ poller' = Resting
    /\ UNCHANGED <<sqsVars, acks, made, saved, interrupted>>

Interrupt(id) ==
    /\ interrupted[id] < MaxFaults
    /\ interrupted' = [interrupted EXCEPT ![id] = @ + 1]

\* The DELETE is served.  The poller looks at neither answer nor error.
AckServed(id) ==
    /\ id \in acks
    /\ Delete(id)
    /\ acks' = acks \ {id}
    /\ poller' = IF Acking(id) THEN Resting ELSE poller
    /\ UNCHANGED <<made, saved, interrupted>>

\* The DELETE is lost, or its UPDATE fails and the answer is 204 all the same.
AckLost(id) ==
    /\ id \in acks
    /\ acks' = acks \ {id}
    /\ poller' = IF Acking(id) THEN Resting ELSE poller
    /\ Interrupt(id)
    /\ UNCHANGED <<sqsVars, made, saved>>

\* The connection breaks before the DELETE is served; it may be later.
AckLate(id) ==
    /\ Acking(id)
    /\ poller' = Resting
    /\ Interrupt(id)
    /\ UNCHANGED <<sqsVars, acks, made, saved>>

\* The scheduler dies and reloads its jobs from the database.
SchedulerRestart ==
    /\ poller = Receiving => SpareReads
    /\ poller' = Resting
    /\ made' = saved
    /\ Forsake(Poller)
    /\ IF "msg" \in DOMAIN poller THEN Interrupt(poller.msg) ELSE UNCHANGED interrupted
    /\ UNCHANGED <<queues, messages, msgSeq, sends, sent, handouts, acks, saved>>

\* The queue service dies; a poller waiting for a message gets an error.
SqsRestart ==
    /\ RestartSqs
    /\ poller' = IF poller = Receiving THEN Resting ELSE poller
    /\ UNCHANGED <<acks, made, saved, interrupted>>

\* What other clients do.  Messages sent straight to other queues are left
\* out: the poller never sees them.
Others ==
    /\ \/ \E q \in Queues : \E p \in Policies[q] : CreateQueue(q, p)
       \/ \E b \in Bodies : TakeNumber(JobsQueue, b)
       \/ \E s \in sends : InsertMessage(s)
       \/ \E c \in Clients \ {Poller}, q \in Queues \ {JobsQueue} : SpareReads /\ Select(c, q)
       \/ \E id \in Stored \ InQueue(JobsQueue) : handouts[id] > 0 /\ Delete(id)
       \/ \E id \in MsgIds : Reveal(id)
    /\ UNCHANGED intakeVars

IntakeNext ==
    \/ Others
    \/ Poll
    \/ StopReceiving
    \/ SchedulerRestart
    \/ SqsRestart
    \/ \E r \in reads : Take(r) \/ Miss(r) \/ TakeElsewhere(r)
    \/ \E id \in MsgIds :
           MakeJob(id) \/ Discard(id) \/ NoNode(id) \/ AckServed(id) \/ AckLost(id) \/ AckLate(id)

IntakeSpec == IntakeInit /\ [][IntakeNext]_vars

\* The ticker runs for ever, hidden time ends, handlers come to their end and
\* requests that are not lost are served.  Receives are not cut short for
\* ever, UPDATEs do not fail for ever, and a message is not for ever without a
\* node.
IntakeFairness ==
    /\ WF_vars(Poll)
    /\ SF_vars(\E r \in reads : Take(r))
    /\ WF_vars(\E r \in reads : Miss(r))
    /\ SF_vars(\E r \in reads : Miss(r) /\ messages' # messages)
    /\ WF_vars(\E r \in reads : TakeElsewhere(r))
    /\ \A id \in MsgIds :
           /\ WF_vars(Reveal(id) /\ UNCHANGED intakeVars)
           /\ SF_vars(MakeJob(id))
           /\ WF_vars(Discard(id))
           /\ WF_vars(AckServed(id))

FairIntakeSpec == IntakeSpec /\ IntakeFairness
-----------------------------------------------------------------------------
\* A job message that was acknowledged has its job on disk, whichever process
\* died in between and however late the DELETE came; only a body that is no
\* job goes without one.
AckedMeansJob ==
    \A id \in InQueue(JobsQueue) :
        messages[id].deleted =>
            messages[id].body \notin GoodBodies \/ saved[id] > 0

\* One message makes one job, plus at most one for each time the loop was cut
\* short between taking the message and having it deleted.
DuplicatesExplained == \A id \in MsgIds : made[id] <= 1 + interrupted[id]

\* The two services, with their crashes and lost requests, implement what
\* MessageContract promises of a message.
Place(m) ==
    IF m = NoMessage THEN "absent" ELSE IF m.deleted THEN "gone"
    ELSE IF m.queue = JobsQueue THEN "waiting" ELSE "dead"

Messages == INSTANCE MessageContract WITH
    place <- [id \in MsgIds |-> Place(messages[id])],
    work <- {id \in Stored : messages[id].body \in GoodBodies},
    jobs <- saved,
    cuts <- interrupted

MessagesKept == Messages!Spec

(* The invariant from which the two properties above follow.               *)

\* The message may be dropped: its job is saved, or it has none, or saves are
\* not to be relied on.
Settled(id) == messages[id].body \notin GoodBodies \/ saved[id] > 0 \/ SavesMayFail

DeletedSettled == \A id \in InQueue(JobsQueue) : messages[id].deleted => Settled(id)

\* Handlers, the poller and DELETEs in flight refer to stored messages; only
\* settled messages are acknowledged; one receive at most is the poller's.
WorkInv ==
    /\ \A r \in reads : r.id \in Stored /\ (r.client = Poller => poller = Receiving)
    /\ \A r, t \in reads : r.client = Poller /\ t.client = Poller => r = t
    /\ \A id \in MsgIds : Holding(id) => id \in Stored
    /\ \A id \in MsgIds : Acking(id) => id \in acks
    /\ \A id \in acks : id \in Stored /\ Settled(id)

ToPoller(id) == Holding(id) \/ \E r \in reads : r.client = Poller /\ r.id = id

\* A job is unpaid for only while its DELETE is awaited, or when its message is
\* deleted and not on its way to the poller once more.
MadeInv ==
    \A id \in MsgIds :
        /\ saved[id] <= made[id]
        /\ \/ made[id] <= interrupted[id]
           \/ /\ made[id] = 1 + interrupted[id]
              /\ \/ Acking(id)
                 \/ id \in Stored /\ messages[id].deleted /\ ~ToPoller(id)

IntakeInv == SentIsStored /\ WorkInv /\ DeletedSettled /\ MadeInv

\* A message that describes a job is in the end a job or a dead letter, while
\* other messages arrive, find no node, or are bad.
MessagesBecomeJobs ==
    \A id \in MsgIds :
        (id \in InQueue(JobsQueue) /\ messages[id].body \in GoodBodies)
            ~> (made[id] > 0 \/ id \in Stored \ InQueue(JobsQueue))
=============================================================================
