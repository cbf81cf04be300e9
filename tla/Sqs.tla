--------------------------------- MODULE Sqs ---------------------------------
(***************************************************************************)
(* The message queues of control-plane/messaging/sqs: two SQLite tables,   *)
(* the counter that numbers messages, and handlers that run concurrently.  *)
(* handleSend takes its number before it inserts; handleReceive selects a  *)
(* message and updates it in two statements with nothing in between to     *)
(* keep other handlers away.                                               *)
(*                                                                         *)
(* Time is abstracted: a hidden message may become visible at any moment.  *)
(* Counts saturate at CountCap, which is above every max_receive_count.    *)
(***************************************************************************)
EXTENDS Naturals

CONSTANTS
    Queues,       \* names of queues
    Policies,     \* Policies[q]: settings a client may create q with
    Bodies,       \* message bodies
    Clients,      \* who receives messages
    MaxMsg,       \* bound on the message number
    CountCap,     \* where counts saturate
    NoDlq,        \* the empty dead_letter_queue
    NoQueue,      \* the entry of a queue nobody created
    NoMessage,    \* the entry of a number the table does not hold
    Nobody        \* the client of a handler whose client has gone

MsgIds == 1 .. MaxMsg
Policy == [dlq : Queues \cup {NoDlq}, max : 1 .. CountCap - 1]
Message == [queue : Queues, body : Bodies, row : MsgIds,
            receives : 0 .. CountCap, hidden : BOOLEAN, deleted : BOOLEAN]

\* A handleSend between AddUint64 and INSERT.
Send == [id : MsgIds, queue : Queues, body : Bodies]

\* A handleReceive between SELECT and UPDATE; receives is already counted up.
Receive == [id : MsgIds, queue : Queues, receives : 1 .. CountCap,
            client : Clients \cup {Nobody}]

ASSUME SqsConstants ==
    /\ MaxMsg \in Nat
    /\ CountCap \in Nat \ {0, 1}
    /\ Policies \in [Queues -> SUBSET Policy]
    /\ NoDlq \notin Queues
    /\ NoQueue \notin Policy
    /\ NoMessage \notin Message
    /\ Nobody \notin Clients

VARIABLES
    queues,     \* the queues table
    messages,   \* the messages table
    msgSeq,     \* the atomic counter
    sends,      \* open handleSend handlers
    reads,      \* open handleReceive handlers
    sent,       \* what was answered 201
    handouts    \* how often each message was handed to a client, or moved on

sqsVars == <<queues, messages, msgSeq, sends, reads, sent, handouts>>

SqsTypeOK ==
    /\ queues \in [Queues -> Policy \cup {NoQueue}]
    /\ \A q \in Queues : queues[q] \in Policies[q] \cup {NoQueue}
    /\ messages \in [MsgIds -> Message \cup {NoMessage}]
    /\ msgSeq \in 0 .. MaxMsg
    /\ sends \subseteq Send
    /\ reads \subseteq Receive
    /\ sent \subseteq Send
    /\ handouts \in [MsgIds -> 0 .. CountCap]

Stored == {id \in MsgIds : messages[id] # NoMessage}
InQueue(q) == {id \in Stored : messages[id].queue = q}
Bump(n) == IF n < CountCap THEN n + 1 ELSE n

SqsInit ==
    /\ queues = [q \in Queues |-> NoQueue]
    /\ messages = [id \in MsgIds |-> NoMessage]
    /\ msgSeq = 0
    /\ sends = {}
    /\ reads = {}
    /\ sent = {}
    /\ handouts = [id \in MsgIds |-> 0]

-----------------------------------------------------------------------------
\* POST /queues/{name}: the first creation wins, later ones change nothing.
CreateQueue(q, p) ==
    /\ queues[q] = NoQueue
    /\ queues' = [queues EXCEPT ![q] = p]
    /\ UNCHANGED <<messages, msgSeq, sends, reads, sent, handouts>>

\* POST /queues/{name}/messages, first part.  The queue need not exist.
TakeNumber(q, b) ==
    /\ msgSeq < MaxMsg
    /\ msgSeq' = msgSeq + 1
    /\ sends' = sends \cup {[id |-> msgSeq', queue |-> q, body |-> b]}
    /\ UNCHANGED <<queues, messages, reads, sent, handouts>>

\* The rowid of the next insertion.
NextRow(k) ==
    /\ \A id \in Stored : messages[id].row < k
    /\ k = 1 \/ \E id \in Stored : messages[id].row = k - 1

NewMessage(s, k) == [queue |-> s.queue, body |-> s.body, row |-> k,
                     receives |-> 0, hidden |-> FALSE, deleted |-> FALSE]

\* Mutant: the row that has the number already is overwritten, as
\* InstanceStore.Save of the registry does with instances.
UpsertMessage(s) ==
    /\ sends' = sends \ {s}
    /\ \E k \in MsgIds :
           /\ IF s.id \in Stored THEN k = messages[s.id].row ELSE NextRow(k)
           /\ messages' = [messages EXCEPT ![s.id] = NewMessage(s, k)]
    /\ sent' = sent \cup {s}
    /\ UNCHANGED <<queues, msgSeq, reads, handouts>>

\* POST /queues/{name}/messages, second part.  A number the table already
\* holds violates the primary key, and any INSERT may fail: the sender is told
\* 500.  Otherwise the message is stored and the sender told 201.
InsertMessage(s) ==
    /\ sends' = sends \ {s}
    /\ \/ UNCHANGED <<messages, sent>>
       \/ /\ s.id \notin Stored
          /\ \E k \in MsgIds :
                 /\ NextRow(k)
                 /\ messages' = [messages EXCEPT ![s.id] = NewMessage(s, k)]
          /\ sent' = sent \cup {s}
    /\ UNCHANGED <<queues, msgSeq, reads, handouts>>

\* Mutant: deleted messages are received again.
ReceivableDeleted(q) ==
    {id \in InQueue(q) : ~messages[id].hidden}

Receivable(q) ==
    {id \in InQueue(q) : ~messages[id].deleted /\ ~messages[id].hidden}

\* GET /queues/{name}/messages, first part: the oldest visible message.
Select(c, q) ==
    /\ \E id \in Receivable(q) :
           /\ \A other \in Receivable(q) : messages[id].row <= messages[other].row
           /\ reads' = reads \cup {[id |-> id, queue |-> q, client |-> c,
                                    receives |-> Bump(messages[id].receives)]}
    /\ UNCHANGED <<queues, messages, msgSeq, sends, sent, handouts>>

\* Mutant: the last permitted delivery does not take place.
ExhaustedAtMax(r) ==
    /\ queues[r.queue] # NoQueue
    /\ queues[r.queue].dlq # NoDlq
    /\ r.receives >= queues[r.queue].max

Exhausted(r) ==
    /\ queues[r.queue] # NoQueue
    /\ queues[r.queue].dlq # NoDlq
    /\ r.receives > queues[r.queue].max

\* Mutant: the count is written, the queue is not.
MoveNowhere(r) ==
    /\ Exhausted(r)
    /\ reads' = reads \ {r}
    /\ messages' \in {messages, [messages EXCEPT ![r.id].receives = r.receives,
                                                 ![r.id].hidden = FALSE]}
    /\ UNCHANGED <<queues, msgSeq, sends, sent, handouts>>

\* GET /queues/{name}/messages, second part: the message goes to the dead
\* letter queue, with its count, and the client gets nothing.  Nobody notices
\* when the UPDATE fails.
MoveToDlq(r) ==
    /\ Exhausted(r)
    /\ reads' = reads \ {r}
    /\ \/ UNCHANGED <<messages, handouts>>
       \/ /\ messages' = [messages EXCEPT ![r.id].queue = queues[r.queue].dlq,
                                          ![r.id].receives = r.receives,
                                          ![r.id].hidden = FALSE]
          /\ handouts' = [handouts EXCEPT ![r.id] = Bump(@)]
    /\ UNCHANGED <<queues, msgSeq, sends, sent>>

\* GET /queues/{name}/messages, second part: the message is hidden and handed
\* to the client.  What happened to it since the SELECT is not looked at, nor
\* whether the UPDATE fails.
HandOut(r) ==
    /\ ~Exhausted(r)
    /\ reads' = reads \ {r}
    /\ messages' \in {messages, [messages EXCEPT ![r.id].receives = r.receives,
                                                 ![r.id].hidden = TRUE]}
    /\ handouts' = [handouts EXCEPT ![r.id] = Bump(@)]
    /\ UNCHANGED <<queues, msgSeq, sends, sent>>

\* DELETE /queues/{name}/messages/{id}, whatever queue holds the message.
Delete(id) ==
    /\ messages' = IF id \in Stored
                   THEN [messages EXCEPT ![id].deleted = TRUE]
                   ELSE messages
    /\ UNCHANGED <<queues, msgSeq, sends, reads, sent, handouts>>

\* The 30 seconds of a message that was handed out pass.
Reveal(id) ==
    /\ id \in Stored
    /\ messages[id].hidden
    /\ messages' = [messages EXCEPT ![id].hidden = FALSE]
    /\ UNCHANGED <<queues, msgSeq, sends, reads, sent, handouts>>

\* A client goes away; the handlers of its receives run to their end.
Forsake(c) ==
    reads' = {IF r.client = c THEN [r EXCEPT !.client = Nobody] ELSE r : r \in reads}

\* The service dies with its open handlers and continues after the number of
\* the row inserted last, which need not be the highest.
RestartSqs ==
    /\ sends' = {}
    /\ reads' = {}
    /\ \/ Stored = {} /\ msgSeq' = 0
       \/ \E last \in Stored :
              /\ \A id \in Stored : messages[id].row <= messages[last].row
              /\ msgSeq' = last
    /\ UNCHANGED <<queues, messages, sent, handouts>>

-----------------------------------------------------------------------------
\* A sender that was told 201 for a message finds its own body under that id
\* for ever: although a restart resumes from the last inserted row, and may
\* hand out a number a second time, no message takes another's place.
SentIsStored ==
    \A s \in sent : s.id \in Stored /\ messages[s.id].body = s.body

\* A message goes to a dead letter queue only after it was handed out as often
\* as the queue allows, however many receives raced for it, and only to the
\* dead letter queue of a queue it could be received from.  Its count goes with
\* it: on the way to a second one, each earlier move stands for a delivery, and
\* so it may have had none from the queue it leaves.
DeadLettersWereTried ==
    [][\A id \in Stored :
           messages'[id].queue # messages[id].queue =>
               \E q \in Queues :
                   /\ queues[q] # NoQueue
                   /\ messages'[id].queue = queues[q].dlq
                   /\ handouts[id] >= queues[q].max]_sqsVars
=============================================================================
