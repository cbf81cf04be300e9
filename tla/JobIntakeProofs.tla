--------------------------- MODULE JobIntakeProofs ---------------------------
(***************************************************************************)
(* Proofs about JobIntake.  Types come first, action by action; then what  *)
(* an action of the queue service may do to the messages is put into two   *)
(* predicates, Kept and Fresh, and the invariant is shown from those.  The *)
(* action property about dead letters and the refinement of                *)
(* MessageContract rest on that invariant.                                 *)
(***************************************************************************)
EXTENDS JobIntake, TLAPS

-----------------------------------------------------------------------------
(* Types.                                                                  *)

LEMMA BumpType == \A n \in 0 .. CountCap : Bump(n) \in 1 .. CountCap
  BY SqsConstants DEF Bump

LEMMA InsertType ==
    ASSUME SqsTypeOK, NEW s \in sends, InsertMessage(s)
    PROVE  SqsTypeOK'
  <1>1. s \in Send
    BY DEF SqsTypeOK
  <1>2. \A k \in MsgIds : NewMessage(s, k) \in Message
    BY <1>1, SqsConstants DEF NewMessage, Message, Send
  <1>3. messages' \in [MsgIds -> Message \cup {NoMessage}]
    BY <1>1, <1>2 DEF SqsTypeOK, InsertMessage, Send
  <1> QED
    BY <1>1, <1>3 DEF SqsTypeOK, InsertMessage

LEMMA SelectType ==
    ASSUME SqsTypeOK, NEW c \in Clients, NEW q \in Queues, Select(c, q)
    PROVE  SqsTypeOK'
  <1>1. PICK id \in Receivable(q) :
            reads' = reads \cup {[id |-> id, queue |-> q, client |-> c,
                                  receives |-> Bump(messages[id].receives)]}
    BY DEF Select
  <1>2. id \in MsgIds /\ messages[id] \in Message
    BY DEF Receivable, InQueue, Stored, SqsTypeOK
  <1>3. Bump(messages[id].receives) \in 1 .. CountCap
    BY <1>2, BumpType DEF Message
  <1>4. reads' \subseteq Receive
    BY <1>1, <1>2, <1>3 DEF SqsTypeOK, Receive
  <1> QED
    BY <1>4 DEF SqsTypeOK, Select

LEMMA HandlerType ==
    ASSUME SqsTypeOK, NEW r \in reads, MoveToDlq(r) \/ HandOut(r),
           messages[r.id] # NoMessage
    PROVE  SqsTypeOK'
  <1>1. r \in Receive /\ r.id \in MsgIds /\ r.receives \in 0 .. CountCap /\ r.queue \in Queues
    BY SqsConstants DEF SqsTypeOK, Receive
  <1>2. messages[r.id] \in Message
    BY <1>1 DEF SqsTypeOK
  <1>3. CASE MoveToDlq(r)
    <2>1. queues[r.queue].dlq \in Queues
      BY <1>1, <1>3 DEF MoveToDlq, Exhausted, SqsTypeOK, Policy
    <2>2. messages' \in [MsgIds -> Message \cup {NoMessage}]
      <3>1. CASE UNCHANGED messages
        BY <3>1 DEF SqsTypeOK
      <3>2. CASE ~UNCHANGED messages
        <4> DEFINE d == queues[r.queue].dlq
        <4>1. messages' = [messages EXCEPT ![r.id].queue = d, ![r.id].receives = r.receives,
                                           ![r.id].hidden = FALSE]
          BY <1>3, <3>2 DEF MoveToDlq
        <4>2. d \in Queues
          BY <2>1
        <4> HIDE DEF d
        <4> QED
          BY <1>1, <1>2, <4>1, <4>2 DEF SqsTypeOK, Message
      <3> QED
        BY <3>1, <3>2
    <2>3. handouts' \in [MsgIds -> 0 .. CountCap]
      BY <1>1, <1>3, BumpType DEF MoveToDlq, SqsTypeOK
    <2> QED
      BY <1>3, <2>2, <2>3 DEF MoveToDlq, SqsTypeOK
  <1>4. CASE HandOut(r)
    <2>1. messages' \in [MsgIds -> Message \cup {NoMessage}]
      <3>1. CASE UNCHANGED messages
        BY <3>1 DEF SqsTypeOK
      <3>2. CASE ~UNCHANGED messages
        <4>1. messages' = [messages EXCEPT ![r.id].receives = r.receives, ![r.id].hidden = TRUE]
          BY <1>4, <3>2 DEF HandOut
        <4> QED
          BY <1>1, <1>2, <4>1 DEF SqsTypeOK, Message
      <3> QED
        BY <3>1, <3>2
    <2>2. handouts' \in [MsgIds -> 0 .. CountCap]
      BY <1>1, <1>4, BumpType DEF HandOut, SqsTypeOK
    <2> QED
      BY <1>4, <2>1, <2>2 DEF HandOut, SqsTypeOK
  <1> QED
    BY <1>3, <1>4

LEMMA DeleteType ==
    ASSUME SqsTypeOK, NEW id \in MsgIds, Delete(id) \/ Reveal(id)
    PROVE  SqsTypeOK'
  <1>1. id \in Stored => messages[id] \in Message
    BY DEF SqsTypeOK, Stored
  <1>2. id \in Stored => /\ [messages[id] EXCEPT !.deleted = TRUE] \in Message
                         /\ [messages[id] EXCEPT !.hidden = FALSE] \in Message
    BY <1>1 DEF Message
  <1>3. messages' \in [MsgIds -> Message \cup {NoMessage}]
    BY <1>2 DEF SqsTypeOK, Delete, Reveal
  <1> QED
    BY <1>3 DEF SqsTypeOK, Delete, Reveal

LEMMA ForsakeType ==
    ASSUME SqsTypeOK, Forsake(Poller)
    PROVE  reads' \subseteq Receive
  BY DEF SqsTypeOK, Forsake, Receive

LEMMA OthersType ==
    ASSUME IntakeTypeOK, Others
    PROVE  SqsTypeOK'
  <1>1. SqsTypeOK
    BY DEF IntakeTypeOK
  <1>2. ASSUME NEW q \in Queues, NEW p \in Policies[q], CreateQueue(q, p)
        PROVE  SqsTypeOK'
    <2>1. p \in Policy
      BY SqsConstants
    <2> QED
      BY <1>1, <1>2, <2>1 DEF SqsTypeOK, CreateQueue
  <1>3. ASSUME NEW b \in Bodies, TakeNumber(JobsQueue, b)
        PROVE  SqsTypeOK'
    <2>1. msgSeq' \in MsgIds
      BY <1>1, <1>3, SqsConstants DEF SqsTypeOK, TakeNumber, MsgIds
    <2>2. sends' \subseteq Send
      BY <1>1, <1>3, <2>1, IntakeConstants DEF SqsTypeOK, TakeNumber, Send
    <2> QED
      BY <1>1, <1>3, <2>1, <2>2, SqsConstants DEF SqsTypeOK, TakeNumber, MsgIds
  <1> QED
    BY <1>1, <1>2, <1>3, InsertType, SelectType, DeleteType DEF Others, Stored

-----------------------------------------------------------------------------
(* What happens to messages.                                               *)

\* Stored messages stay, deleted or not as they were, and none comes to the
\* jobs queue from another one.
Kept ==
    \A id \in Stored :
        /\ id \in Stored'
        /\ messages'[id].body = messages[id].body
        /\ messages'[id].deleted = messages[id].deleted
        /\ messages'[id].queue # messages[id].queue => messages'[id].queue # JobsQueue

\* A message that was not stored before is not deleted.
Fresh == \A id \in Stored' \ Stored : ~messages'[id].deleted

LEMMA UnchangedKept ==
    ASSUME UNCHANGED messages
    PROVE  Kept /\ Fresh
  BY DEF Kept, Fresh, Stored

LEMMA InsertKept ==
    ASSUME SqsTypeOK, NEW s \in sends, InsertMessage(s)
    PROVE  Kept /\ Fresh
  <1>1. s.id \in MsgIds /\ \A k \in MsgIds : NewMessage(s, k) # NoMessage
    <2>1. s \in Send
      BY DEF SqsTypeOK
    <2>2. \A k \in MsgIds : NewMessage(s, k) \in Message
      BY <2>1, SqsConstants DEF NewMessage, Message, Send
    <2> QED
      BY <2>1, <2>2, SqsConstants DEF Send
  <1>2. \A k \in MsgIds : NewMessage(s, k).deleted = FALSE
    BY DEF NewMessage
  <1> QED
    BY <1>1, <1>2 DEF SqsTypeOK, InsertMessage, Kept, Fresh, Stored

LEMMA HandlerKept ==
    ASSUME SqsTypeOK, NEW r \in reads, MoveToDlq(r) \/ HandOut(r),
           messages[r.id] # NoMessage
    PROVE  Kept /\ Fresh
  <1>1. /\ r.id \in MsgIds /\ r.queue \in Queues /\ r.receives \in 0 .. CountCap
        /\ messages[r.id] \in Message
    BY SqsConstants DEF SqsTypeOK, Receive
  <1>2. CASE UNCHANGED messages
    BY <1>2, UnchangedKept
  <1>3. CASE HandOut(r) /\ ~UNCHANGED messages
    <2>1. messages' = [messages EXCEPT ![r.id].receives = r.receives, ![r.id].hidden = TRUE]
      BY <1>3 DEF HandOut
    <2>2. \A id \in MsgIds : id # r.id => messages'[id] = messages[id]
      BY <2>1 DEF SqsTypeOK
    <2>3. messages'[r.id] = [messages[r.id] EXCEPT !.receives = r.receives, !.hidden = TRUE]
      BY <1>1, <2>1 DEF SqsTypeOK
    <2>4. /\ messages'[r.id] \in Message
          /\ messages'[r.id].body = messages[r.id].body
          /\ messages'[r.id].deleted = messages[r.id].deleted
          /\ messages'[r.id].queue = messages[r.id].queue
      BY <1>1, <2>3 DEF Message
    <2> QED
      BY <1>1, <2>2, <2>4, SqsConstants DEF Kept, Fresh, Stored
  <1>4. CASE MoveToDlq(r) /\ ~UNCHANGED messages
    <2> DEFINE d == queues[r.queue].dlq
    <2>1. messages' = [messages EXCEPT ![r.id].queue = d, ![r.id].receives = r.receives,
                                       ![r.id].hidden = FALSE]
      BY <1>4 DEF MoveToDlq
    <2>2. d \in Queues /\ d # JobsQueue
      <3>1. queues[r.queue] \in Policies[r.queue] /\ d # NoDlq
        BY <1>1, <1>4 DEF MoveToDlq, Exhausted, SqsTypeOK
      <3>2. queues[r.queue] \in Policy
        BY <1>1, <3>1, SqsConstants
      <3> QED
        BY <1>1, <3>1, <3>2, IntakeConstants DEF Policy
    <2> HIDE DEF d
    <2>3. \A id \in MsgIds : id # r.id => messages'[id] = messages[id]
      BY <2>1 DEF SqsTypeOK
    <2>4. messages'[r.id] = [messages[r.id] EXCEPT !.queue = d, !.receives = r.receives,
                                                   !.hidden = FALSE]
      BY <1>1, <2>1 DEF SqsTypeOK
    <2>5. /\ messages'[r.id] \in Message
          /\ messages'[r.id].body = messages[r.id].body
          /\ messages'[r.id].deleted = messages[r.id].deleted
          /\ messages'[r.id].queue # JobsQueue
      BY <1>1, <2>2, <2>4 DEF Message
    <2> QED
      BY <1>1, <2>3, <2>5, SqsConstants DEF Kept, Fresh, Stored
  <1> QED
    BY <1>2, <1>3, <1>4

LEMMA RevealKept ==
    ASSUME SqsTypeOK, NEW id \in MsgIds, Reveal(id)
    PROVE  Kept /\ Fresh
  <1>1. messages[id] \in Message
    BY DEF SqsTypeOK, Reveal, Stored
  <1>2. [messages[id] EXCEPT !.hidden = FALSE] \in Message
    BY <1>1 DEF Message
  <1> QED
    BY <1>1, <1>2, SqsConstants DEF SqsTypeOK, Reveal, Stored, Kept, Fresh, Message

\* A deletion changes one flag.
LEMMA DeleteEffect ==
    ASSUME SqsTypeOK, NEW id \in MsgIds, Delete(id)
    PROVE  /\ Stored' = Stored
           /\ \A other \in Stored :
                  /\ messages'[other].body = messages[other].body
                  /\ messages'[other].queue = messages[other].queue
                  /\ other # id => messages'[other].deleted = messages[other].deleted
           /\ id \in Stored => messages'[id].deleted
  <1>1. CASE id \in Stored
    <2>1. messages[id] \in Message
      BY <1>1 DEF SqsTypeOK, Stored
    <2>2. [messages[id] EXCEPT !.deleted = TRUE] \in Message
      BY <2>1 DEF Message
    <2> QED
      BY <1>1, <2>1, <2>2, SqsConstants DEF SqsTypeOK, Delete, Stored, Message
  <1>2. CASE id \notin Stored
    BY <1>2 DEF Delete, Stored
  <1> QED
    BY <1>1, <1>2

-----------------------------------------------------------------------------
(* What follows from steady messages.                                      *)

LEMMA KeptSent ==
    ASSUME SentIsStored, Kept, UNCHANGED sent
    PROVE  SentIsStored'
  BY DEF SentIsStored, Kept

LEMMA KeptAcked ==
    ASSUME IntakeTypeOK, IntakeTypeOK', DeletedSettled, Kept, Fresh,
           \A id \in MsgIds : saved[id] > 0 => saved'[id] > 0
    PROVE  DeletedSettled'
  BY DEF DeletedSettled, Settled, InQueue, Kept, Fresh, Stored

LEMMA KeptSettled ==
    ASSUME Kept, NEW id \in Stored, Settled(id), saved[id] > 0 => saved'[id] > 0
    PROVE  id \in Stored' /\ Settled(id)'
  BY DEF Kept, Settled

Inv == IntakeTypeOK /\ IntakeInv

-----------------------------------------------------------------------------
(* Every action preserves the types, given the rest of the invariant.      *)

LEMMA NextIntakeTypeOK ==
    ASSUME Inv, [IntakeNext]_vars
    PROVE  IntakeTypeOK'
  <1> USE DEF Inv, IntakeInv
  <1>1. SqsTypeOK /\ \A r \in reads : messages[r.id] # NoMessage
    BY DEF IntakeTypeOK, WorkInv, Stored
  <1>2. CASE Others
    BY <1>2, OthersType DEF Others, IntakeTypeOK, intakeVars
  <1>3. CASE Poll
    <2>1. SqsTypeOK'
      BY <1>1, <1>3, SelectType, IntakeConstants DEF Poll
    <2> QED
      BY <1>3, <2>1 DEF Poll, IntakeTypeOK, PollerState
  <1>4. CASE StopReceiving
    BY <1>1, <1>4, ForsakeType DEF StopReceiving, IntakeTypeOK, SqsTypeOK, PollerState
  <1>5. CASE SchedulerRestart
    <2>1. interrupted' \in [MsgIds -> 0 .. MaxFaults]
      <3>1. "msg" \in DOMAIN poller => poller.msg \in MsgIds
        BY DEF IntakeTypeOK, PollerState, Resting, Receiving
      <3> QED
        BY <1>5, <3>1, IntakeConstants DEF SchedulerRestart, IntakeTypeOK, Interrupt
    <2> QED
      BY <1>1, <1>5, <2>1, ForsakeType
      DEF SchedulerRestart, IntakeTypeOK, SqsTypeOK, PollerState
  <1>6. CASE SqsRestart
    <2>1. msgSeq' \in 0 .. MaxMsg
      BY <1>6, SqsConstants DEF SqsRestart, RestartSqs, Stored, MsgIds
    <2> QED
      BY <1>1, <1>6, <2>1 DEF SqsRestart, RestartSqs, IntakeTypeOK, SqsTypeOK, PollerState
  <1>7. ASSUME NEW r \in reads, Take(r) \/ Miss(r) \/ TakeElsewhere(r)
        PROVE  IntakeTypeOK'
    <2>1. SqsTypeOK'
      BY <1>1, <1>7, HandlerType DEF Take, Miss, TakeElsewhere
    <2>2. r.id \in MsgIds
      BY <1>1 DEF SqsTypeOK, Receive
    <2>3. poller' \in PollerState
      BY <1>7, <2>2 DEF Take, Miss, TakeElsewhere, IntakeTypeOK, PollerState
    <2> QED
      BY <1>7, <2>1, <2>3 DEF Take, Miss, TakeElsewhere, IntakeTypeOK
  <1>8. ASSUME NEW id \in MsgIds, MakeJob(id)
        PROVE  IntakeTypeOK'
    <2>1. made[id] <= interrupted[id] /\ saved[id] <= made[id]
      BY <1>8, IntakeConstants DEF MakeJob, MadeInv, ToPoller, Holding, Acking, IntakeTypeOK
    <2>2. made[id] + 1 \in 0 .. MaxFaults + 1 /\ saved[id] + 1 \in 0 .. MaxFaults + 1
      BY <2>1, IntakeConstants DEF IntakeTypeOK
    <2>3. made' \in [MsgIds -> 0 .. MaxFaults + 1] /\ saved' \in [MsgIds -> 0 .. MaxFaults + 1]
      BY <1>8, <2>2 DEF MakeJob, IntakeTypeOK
    <2>4. poller' \in PollerState /\ acks' \subseteq MsgIds
      BY <1>8 DEF MakeJob, Acknowledge, IntakeTypeOK, PollerState
    <2> QED
      BY <1>8, <2>3, <2>4 DEF MakeJob, IntakeTypeOK, SqsTypeOK, sqsVars
  <1>9. ASSUME NEW id \in MsgIds, Discard(id) \/ NoNode(id)
        PROVE  IntakeTypeOK'
    BY <1>9 DEF Discard, NoNode, Acknowledge, IntakeTypeOK, SqsTypeOK, sqsVars, PollerState
  <1>10. ASSUME NEW id \in MsgIds, AckServed(id)
         PROVE  IntakeTypeOK'
    <2>1. SqsTypeOK'
      BY <1>1, <1>10, DeleteType DEF AckServed
    <2> QED
      BY <1>10, <2>1 DEF AckServed, IntakeTypeOK, PollerState
  <1>11. ASSUME NEW id \in MsgIds, AckLost(id) \/ AckLate(id)
         PROVE  IntakeTypeOK'
    <2>1. interrupted' \in [MsgIds -> 0 .. MaxFaults]
      BY <1>11, IntakeConstants DEF AckLost, AckLate, Interrupt, IntakeTypeOK
    <2> QED
      BY <1>11, <2>1 DEF AckLost, AckLate, IntakeTypeOK, SqsTypeOK, sqsVars, PollerState
  <1>12. CASE UNCHANGED vars
    BY <1>12 DEF vars, sqsVars, intakeVars, IntakeTypeOK, SqsTypeOK
  <1> QED
    BY <1>2, <1>3, <1>4, <1>5, <1>6, <1>7, <1>8, <1>9, <1>10, <1>11, <1>12 DEF IntakeNext

-----------------------------------------------------------------------------
(* Every action preserves the rest of the invariant.                       *)

\* Actions that leave the poller's part alone, and the receives as well but
\* for new ones of other clients.
LEMMA IdleInv ==
    ASSUME Inv, IntakeTypeOK', Kept, Fresh, UNCHANGED intakeVars, SentIsStored',
           \A r \in reads' \ reads : r.client # Poller /\ r.id \in Stored,
           \A r \in reads : r.client = Poller => r \in reads'
    PROVE  IntakeInv'
  <1> USE DEF Inv, IntakeInv, intakeVars
  <1>1. WorkInv'
    <2>1. \A id \in acks : id \in Stored' /\ Settled(id)'
      BY KeptSettled DEF WorkInv
    <2> QED
      BY <2>1 DEF WorkInv, Kept, Holding, Acking
  <1>2. DeletedSettled'
    BY KeptAcked
  <1>3. MadeInv'
    <2>1. \A id \in MsgIds : ToPoller(id)' <=> ToPoller(id)
      BY DEF ToPoller, Holding
    <2> QED
      BY <2>1 DEF MadeInv, Acking, Kept
  <1> QED
    BY <1>1, <1>2, <1>3

LEMMA OthersInv ==
    ASSUME Inv, IntakeTypeOK', Others
    PROVE  IntakeInv'
  <1> USE DEF Inv, IntakeInv
  <1>1. UNCHANGED intakeVars /\ SqsTypeOK
    BY DEF Others, IntakeTypeOK
  <1>2. ASSUME NEW q \in Queues, NEW p \in Policies[q], CreateQueue(q, p)
        PROVE  IntakeInv'
    <2>1. UNCHANGED <<messages, reads, sent>>
      BY <1>2 DEF CreateQueue
    <2> QED
      BY <1>1, <2>1, IdleInv, UnchangedKept, KeptSent
  <1>3. ASSUME NEW b \in Bodies, TakeNumber(JobsQueue, b)
        PROVE  IntakeInv'
    <2>1. UNCHANGED <<messages, reads, sent>>
      BY <1>3 DEF TakeNumber
    <2> QED
      BY <1>1, <2>1, IdleInv, UnchangedKept, KeptSent
  <1>4. ASSUME NEW s \in sends, InsertMessage(s)
        PROVE  IntakeInv'
    <2>1. Kept /\ Fresh
      BY <1>1, <1>4, InsertKept
    <2>2. SentIsStored'
      <3>1. CASE UNCHANGED sent
        BY <1>4, <2>1, <3>1, KeptSent
      <3>2. CASE ~UNCHANGED sent
        <4>1. PICK k \in MsgIds : messages' = [messages EXCEPT ![s.id] = NewMessage(s, k)]
          BY <1>4, <3>2 DEF InsertMessage
        <4>2. s \in Send /\ NewMessage(s, k) \in Message
          BY <1>1, SqsConstants DEF SqsTypeOK, NewMessage, Message, Send
        <4>3. s.id \in Stored' /\ messages'[s.id].body = s.body
          BY <1>1, <4>1, <4>2, SqsConstants DEF SqsTypeOK, Send, Stored, NewMessage
        <4> QED
          BY <1>4, <2>1, <3>2, <4>3 DEF InsertMessage, SentIsStored, Kept
      <3> QED
        BY <3>1, <3>2
    <2>3. UNCHANGED reads
      BY <1>4 DEF InsertMessage
    <2> QED
      BY <1>1, <2>1, <2>2, <2>3, IdleInv
  <1>5. ASSUME NEW c \in Clients \ {Poller}, NEW q \in Queues \ {JobsQueue}, Select(c, q)
        PROVE  IntakeInv'
    <2>1. UNCHANGED <<messages, sent>>
      BY <1>5 DEF Select
    <2>2. \A r \in reads' \ reads : r.client # Poller /\ r.id \in Stored
      BY <1>5 DEF Select, Receivable, InQueue
    <2>3. reads \subseteq reads'
      BY <1>5 DEF Select
    <2> QED
      BY <1>1, <2>1, <2>2, <2>3, IdleInv, UnchangedKept, KeptSent
  <1>6. ASSUME NEW id \in Stored \ InQueue(JobsQueue), Delete(id)
        PROVE  IntakeInv'
    <2>0. id \in MsgIds /\ UNCHANGED <<reads, sent>>
      BY <1>6 DEF Stored, Delete
    <2>1. SentIsStored'
      BY <1>1, <1>6, <2>0, DeleteEffect DEF SentIsStored
    <2>2. WorkInv'
      BY <1>1, <1>6, <2>0, DeleteEffect DEF WorkInv, Holding, Acking, Settled, intakeVars
    <2>3. DeletedSettled'
      BY <1>1, <1>6, <2>0, DeleteEffect DEF DeletedSettled, Settled, InQueue, intakeVars
    <2>4. MadeInv'
      BY <1>1, <1>6, <2>0, DeleteEffect DEF MadeInv, ToPoller, Holding, Acking, intakeVars
    <2> QED
      BY <2>1, <2>2, <2>3, <2>4
  <1>7. ASSUME NEW id \in MsgIds, Reveal(id)
        PROVE  IntakeInv'
    <2>1. UNCHANGED <<reads, sent>>
      BY <1>7 DEF Reveal
    <2> QED
      BY <1>1, <1>7, <2>1, RevealKept, IdleInv, KeptSent
  <1> QED
    BY <1>2, <1>3, <1>4, <1>5, <1>6, <1>7 DEF Others

LEMMA PollInv ==
    ASSUME Inv, IntakeTypeOK', Poll
    PROVE  IntakeInv'
  <1> USE DEF Inv, IntakeInv
  <1>1. /\ UNCHANGED <<messages, sent, acks, made, saved, interrupted>>
        /\ poller = Resting /\ poller' = Receiving
    BY DEF Poll, Select
  <1>2. PICK id \in Receivable(JobsQueue) :
            reads' = reads \cup {[id |-> id, queue |-> JobsQueue, client |-> Poller,
                                  receives |-> Bump(messages[id].receives)]}
    BY DEF Poll, Select
  <1>3. id \in Stored /\ ~messages[id].deleted
    BY DEF Receivable, InQueue
  <1>4. \A r \in reads : r.client # Poller
    BY <1>1 DEF WorkInv, Resting, Receiving
  <1>5. SentIsStored' /\ DeletedSettled'
    BY <1>1, UnchangedKept, KeptSent, KeptAcked
  <1>6. WorkInv'
    <2>1. \A r \in reads' : r.id \in Stored /\ (r.client = Poller => r \notin reads)
      BY <1>2, <1>3, <1>4 DEF WorkInv
    <2>2. \A r, t \in reads' : r.client = Poller /\ t.client = Poller => r = t
      BY <1>2, <1>4
    <2>3. \A other \in acks : other \in Stored' /\ Settled(other)'
      BY <1>1 DEF WorkInv, Settled, Stored
    <2>4. \A other \in MsgIds : ~Holding(other)' /\ ~Acking(other)'
      BY <1>1 DEF Holding, Acking, Receiving
    <2>5. Stored' = Stored
      BY <1>1 DEF Stored
    <2>6. \A r \in reads' : r.id \in Stored' /\ (r.client = Poller => poller' = Receiving)
      BY <1>1, <2>1, <2>5
    <2>7. \A other \in acks' : other \in Stored' /\ Settled(other)'
      BY <1>1, <2>3
    <2> QED
      BY <2>2, <2>4, <2>6, <2>7 DEF WorkInv
  <1>7. MadeInv'
    <2>1. \A other \in MsgIds : ~Acking(other) /\ ~Holding(other)'
      BY <1>1 DEF Acking, Holding, Resting, Receiving
    <2>2. \A other \in MsgIds : ToPoller(other)' => other = id
      BY <1>2, <1>4, <2>1 DEF ToPoller
    <2>3. Stored' = Stored
      BY <1>1 DEF Stored
    <2> QED
      BY <1>1, <1>3, <2>1, <2>2, <2>3 DEF MadeInv
  <1> QED
    BY <1>5, <1>6, <1>7

\* A client that leaves makes no receive the poller's.
LEMMA StopInv ==
    ASSUME Inv, IntakeTypeOK', StopReceiving
    PROVE  IntakeInv'
  <1> USE DEF Inv, IntakeInv
  <1>1. /\ UNCHANGED <<messages, sent, acks, made, saved, interrupted>>
        /\ poller = Receiving /\ poller' = Resting
    BY DEF StopReceiving
  <1>2. \A r \in reads' : r.client # Poller /\ \E t \in reads : r.id = t.id
    BY SqsConstants, IntakeConstants DEF StopReceiving, Forsake, IntakeTypeOK, SqsTypeOK, Receive
  <1>3. SentIsStored' /\ DeletedSettled'
    BY <1>1, UnchangedKept, KeptSent, KeptAcked
  <1>4. WorkInv'
    BY <1>1, <1>2 DEF WorkInv, Holding, Acking, Stored, Settled, Resting, Receiving
  <1>5. MadeInv'
    BY <1>1, <1>2 DEF MadeInv, ToPoller, Holding, Acking, Stored, Resting, Receiving
  <1> QED
    BY <1>3, <1>4, <1>5

LEMMA SchedulerRestartInv ==
    ASSUME Inv, IntakeTypeOK', SchedulerRestart
    PROVE  IntakeInv'
  <1> USE DEF Inv, IntakeInv
  <1>1. /\ UNCHANGED <<messages, sent, acks, saved>>
        /\ poller' = Resting /\ made' = saved
    BY DEF SchedulerRestart
  <1>2. \A r \in reads' : r.client # Poller /\ \E t \in reads : r.id = t.id
    BY SqsConstants, IntakeConstants DEF SchedulerRestart, Forsake, IntakeTypeOK, SqsTypeOK, Receive
  <1>3. SentIsStored' /\ DeletedSettled'
    BY <1>1, UnchangedKept, KeptSent, KeptAcked
  <1>4. WorkInv'
    BY <1>1, <1>2 DEF WorkInv, Holding, Acking, Stored, Settled, Resting, Receiving
  <1>5. MadeInv'
    <2> SUFFICES ASSUME NEW id \in MsgIds
                 PROVE  /\ saved'[id] <= made'[id]
                        /\ \/ made'[id] <= interrupted'[id]
                           \/ /\ made'[id] = 1 + interrupted'[id]
                              /\ id \in Stored' /\ messages'[id].deleted /\ ~ToPoller(id)'
      BY DEF MadeInv
    <2>1. ~ToPoller(id)'
      BY <1>1, <1>2 DEF ToPoller, Holding, Resting
    <2>2. saved[id] \in Nat /\ made[id] \in Nat /\ interrupted[id] \in Nat /\ interrupted'[id] \in Nat
      BY IntakeConstants DEF IntakeTypeOK
    <2>3. interrupted'[id] >= interrupted[id]
      BY <2>2 DEF SchedulerRestart, Interrupt, IntakeTypeOK
    <2>4. CASE Acking(id)
      <3>1. interrupted'[id] = interrupted[id] + 1
        BY <2>2, <2>4 DEF SchedulerRestart, Interrupt, IntakeTypeOK, Acking
      <3> QED
        BY <1>1, <2>2, <3>1 DEF MadeInv
    <2>5. CASE ~Acking(id)
      <3>1. \/ interrupted'[id] = interrupted[id]
            \/ interrupted'[id] >= interrupted[id] + 1
        BY <2>2, <2>3
      <3> QED
        BY <1>1, <2>1, <2>2, <2>5, <3>1 DEF MadeInv, Stored
    <2> QED
      BY <2>4, <2>5
  <1> QED
    BY <1>3, <1>4, <1>5

LEMMA SqsRestartInv ==
    ASSUME Inv, IntakeTypeOK', SqsRestart
    PROVE  IntakeInv'
  <1> USE DEF Inv, IntakeInv
  <1>1. /\ UNCHANGED <<messages, sent, acks, made, saved, interrupted>>
        /\ reads' = {} /\ poller' = IF poller = Receiving THEN Resting ELSE poller
    BY DEF SqsRestart, RestartSqs
  <1>2. \A id \in MsgIds : (Holding(id)' <=> Holding(id)) /\ (Acking(id)' <=> Acking(id))
    BY <1>1 DEF Holding, Acking, Resting, Receiving
  <1>3. SentIsStored' /\ DeletedSettled'
    BY <1>1, UnchangedKept, KeptSent, KeptAcked
  <1>4. WorkInv'
    BY <1>1, <1>2 DEF WorkInv, Stored, Settled
  <1>5. MadeInv'
    BY <1>1, <1>2 DEF MadeInv, ToPoller, Stored
  <1> QED
    BY <1>3, <1>4, <1>5

\* A receive comes to its end, for the poller or for another client.
LEMMA HandlerInv ==
    ASSUME Inv, IntakeTypeOK', NEW r \in reads, Take(r) \/ Miss(r) \/ TakeElsewhere(r)
    PROVE  IntakeInv'
  <1> USE DEF Inv, IntakeInv
  <1>1. /\ UNCHANGED <<sent, acks, made, saved, interrupted>>
        /\ reads' = reads \ {r}
        /\ MoveToDlq(r) \/ HandOut(r)
    BY DEF Take, Miss, TakeElsewhere, MoveToDlq, HandOut
  <1>2. Kept /\ Fresh
    BY <1>1, HandlerKept DEF IntakeTypeOK, WorkInv, Stored
  <1>3. SentIsStored' /\ DeletedSettled'
    BY <1>1, <1>2, KeptSent, KeptAcked
  <1>4. \A id \in acks : id \in Stored' /\ Settled(id)'
    BY <1>1, <1>2, KeptSettled DEF WorkInv
  <1>5. \/ r.client = Poller /\ poller = Receiving /\ poller' = Resting
        \/ r.client = Poller /\ poller = Receiving /\ poller' = [pc |-> "holding", msg |-> r.id]
        \/ r.client # Poller /\ poller' = poller
    BY DEF Take, Miss, TakeElsewhere, WorkInv
  <1>6. WorkInv'
    BY <1>1, <1>2, <1>4, <1>5 DEF WorkInv, Kept, Holding, Acking, Resting, Receiving
  <1>7. MadeInv'
    <2>1. \A id \in MsgIds : Acking(id) => Acking(id)'
      BY <1>5 DEF Acking, Receiving
    <2>2. \A id \in MsgIds : ToPoller(id)' => ToPoller(id)
      BY <1>1, <1>5 DEF ToPoller, Holding, Resting, Receiving
    <2> QED
      BY <1>1, <1>2, <2>1, <2>2 DEF MadeInv, Kept
  <1> QED
    BY <1>3, <1>6, <1>7

LEMMA MakeJobInv ==
    ASSUME Inv, IntakeTypeOK', NEW id \in MsgIds, MakeJob(id)
    PROVE  IntakeInv'
  <1> USE DEF Inv, IntakeInv
  <1>1. /\ UNCHANGED <<messages, reads, sent, interrupted>>
        /\ Holding(id) /\ Acking(id)' /\ acks' = acks \cup {id}
        /\ made' = [made EXCEPT ![id] = @ + 1]
        /\ saved' = [saved EXCEPT ![id] = @ + 1] \/ saved' = saved
    BY DEF MakeJob, Acknowledge, Acking, sqsVars
  <1>2. ~SavesMayFail => saved' = [saved EXCEPT ![id] = @ + 1]
    BY DEF MakeJob
  <1>3. \A other \in MsgIds : saved[other] \in Nat /\ made[other] \in Nat /\ interrupted[other] \in Nat
    BY IntakeConstants DEF IntakeTypeOK
  <1>4. \A other \in MsgIds : saved[other] > 0 => saved'[other] > 0
    BY <1>1, <1>3 DEF IntakeTypeOK
  <1>5. SentIsStored' /\ DeletedSettled'
    BY <1>1, <1>4, UnchangedKept, KeptSent, KeptAcked
  <1>6. WorkInv'
    <2>1. SavesMayFail \/ saved'[id] > 0
      BY <1>2, <1>3 DEF IntakeTypeOK
    <2>2. \A other \in acks' : other \in Stored' /\ Settled(other)'
      BY <1>1, <1>4, <2>1 DEF WorkInv, Settled, Stored, IntakeTypeOK
    <2>3. \A r \in reads : r.client # Poller
      BY <1>1 DEF WorkInv, Holding, Receiving
    <2> QED
      BY <1>1, <2>2, <2>3 DEF WorkInv, Holding, Acking, Stored
  <1>7. MadeInv'
    <2>1. \A other \in MsgIds : other # id => ~Acking(other)
      BY <1>1 DEF Holding, Acking
    <2>2. ToPoller(id) /\ ~Acking(id)
      BY <1>1 DEF ToPoller, Holding, Acking
    <2>3. \A other \in MsgIds : other # id =>
              ~ToPoller(other)' /\ made'[other] = made[other] /\ saved'[other] = saved[other]
      BY <1>1 DEF ToPoller, Holding, Acking, WorkInv, Receiving, IntakeTypeOK
    <2>4. made'[id] = made[id] + 1 /\ saved'[id] <= made'[id]
      BY <1>1, <1>3 DEF MadeInv, IntakeTypeOK
    <2> QED
      BY <1>1, <1>3, <2>1, <2>2, <2>3, <2>4 DEF MadeInv, Stored
  <1> QED
    BY <1>5, <1>6, <1>7

\* The poller goes on without a job.
LEMMA NoJobInv ==
    ASSUME Inv, IntakeTypeOK', NEW id \in MsgIds, Discard(id) \/ NoNode(id)
    PROVE  IntakeInv'
  <1> USE DEF Inv, IntakeInv
  <1>1. /\ UNCHANGED <<messages, reads, sent, made, saved, interrupted>>
        /\ Holding(id)
        /\ \/ poller' = Resting /\ acks' = acks
           \/ Acking(id)' /\ acks' = acks \cup {id} /\ Settled(id)
    BY DEF Discard, NoNode, Acknowledge, Acking, Settled, sqsVars
  <1>2. SentIsStored' /\ DeletedSettled'
    BY <1>1, UnchangedKept, KeptSent, KeptAcked
  <1>3. \A r \in reads : r.client # Poller
    BY <1>1 DEF WorkInv, Holding, Receiving
  <1>4. \A other \in MsgIds : ~Acking(other) /\ ~ToPoller(other)' /\ ~Holding(other)'
    BY <1>1, <1>3 DEF Holding, Acking, ToPoller, Resting
  <1>5. WorkInv'
    <2>1. \A other \in acks' : other \in Stored' /\ Settled(other)'
      BY <1>1 DEF WorkInv, Settled, Stored
    <2> QED
      BY <1>1, <1>3, <1>4, <2>1 DEF WorkInv, Acking, Stored, Resting
  <1>6. MadeInv'
    BY <1>1, <1>4 DEF MadeInv, Stored
  <1> QED
    BY <1>2, <1>5, <1>6

LEMMA AckServedInv ==
    ASSUME Inv, IntakeTypeOK', NEW id \in MsgIds, AckServed(id)
    PROVE  IntakeInv'
  <1> USE DEF Inv, IntakeInv
  <1>1. /\ UNCHANGED <<reads, sent, made, saved, interrupted>>
        /\ id \in acks /\ acks' = acks \ {id} /\ id \in Stored /\ Settled(id)
        /\ poller' = IF Acking(id) THEN Resting ELSE poller
        /\ Delete(id) /\ SqsTypeOK
    BY DEF AckServed, Delete, WorkInv, IntakeTypeOK
  <1>2. \A other \in MsgIds : /\ Holding(other)' <=> Holding(other)
                              /\ Acking(other)' <=> Acking(other) /\ other # id
                              /\ ToPoller(other)' <=> ToPoller(other)
    BY <1>1 DEF Holding, Acking, ToPoller, Resting
  <1>3. SentIsStored'
    BY <1>1, DeleteEffect DEF SentIsStored
  <1>4. DeletedSettled'
    BY <1>1, DeleteEffect DEF DeletedSettled, InQueue, Settled, Stored
  <1>5. WorkInv'
    <2>1. \A other \in acks' : other \in Stored' /\ Settled(other)'
      BY <1>1, DeleteEffect DEF WorkInv, Settled
    <2>2. poller = Receiving => poller' = Receiving
      BY <1>1 DEF Acking, Receiving
    <2> QED
      BY <1>1, <1>2, <2>1, <2>2, DeleteEffect DEF WorkInv
  <1>6. MadeInv'
    <2>1. ToPoller(id) => ~Acking(id)
      BY DEF ToPoller, Holding, Acking, WorkInv, Receiving
    <2> QED
      BY <1>1, <1>2, <2>1, DeleteEffect DEF MadeInv
  <1> QED
    BY <1>3, <1>4, <1>5, <1>6

LEMMA AckMissedInv ==
    ASSUME Inv, IntakeTypeOK', NEW id \in MsgIds, AckLost(id) \/ AckLate(id)
    PROVE  IntakeInv'
  <1> USE DEF Inv, IntakeInv
  <1>1. /\ UNCHANGED <<messages, reads, sent, made, saved>>
        /\ acks' \subseteq acks /\ acks \ {id} \subseteq acks'
        /\ poller' = IF Acking(id) THEN Resting ELSE poller
        /\ interrupted' = [interrupted EXCEPT ![id] = @ + 1]
    BY DEF AckLost, AckLate, Interrupt, sqsVars
  <1>2. \A other \in MsgIds : /\ Holding(other)' <=> Holding(other)
                              /\ Acking(other)' <=> Acking(other) /\ other # id
                              /\ ToPoller(other)' <=> ToPoller(other)
    BY <1>1 DEF Holding, Acking, ToPoller, Resting
  <1>3. SentIsStored' /\ DeletedSettled'
    BY <1>1, UnchangedKept, KeptSent, KeptAcked
  <1>4. WorkInv'
    <2>1. \A other \in acks' : other \in Stored' /\ Settled(other)'
      BY <1>1 DEF WorkInv, Settled, Stored
    <2>2. poller = Receiving => poller' = Receiving
      BY <1>1 DEF Acking, Receiving
    <2> QED
      BY <1>1, <1>2, <2>1, <2>2 DEF WorkInv, Stored
  <1>5. MadeInv'
    <2>1. \A other \in MsgIds : made[other] \in Nat /\ interrupted[other] \in Nat
      BY IntakeConstants DEF IntakeTypeOK
    <2>2. /\ interrupted'[id] = interrupted[id] + 1
          /\ \A other \in MsgIds : other # id => interrupted'[other] = interrupted[other]
      BY <1>1 DEF IntakeTypeOK
    <2> QED
      BY <1>1, <1>2, <2>1, <2>2 DEF MadeInv, Stored
  <1> QED
    BY <1>3, <1>4, <1>5

LEMMA NextIntakeInv ==
    ASSUME Inv, [IntakeNext]_vars
    PROVE  Inv'
  <1>1. IntakeTypeOK'
    BY NextIntakeTypeOK
  <1>2. CASE UNCHANGED vars
    <2>1. UNCHANGED <<intakeVars, messages, reads, sent>>
      BY <1>2 DEF vars, sqsVars
    <2> QED
      BY <1>1, <2>1, IdleInv, UnchangedKept, KeptSent DEF Inv, IntakeInv
  <1> QED
    BY <1>1, <1>2, OthersInv, PollInv, StopInv, SchedulerRestartInv, SqsRestartInv, HandlerInv,
       MakeJobInv, NoJobInv, AckServedInv, AckMissedInv
    DEF IntakeNext, Inv

LEMMA InitIntakeInv == IntakeInit => Inv
  <1> SUFFICES ASSUME IntakeInit
               PROVE  Inv
    OBVIOUS
  <1> USE DEF IntakeInit, SqsInit
  <1>1. IntakeTypeOK
    BY SqsConstants, IntakeConstants DEF IntakeTypeOK, SqsTypeOK, PollerState
  <1>2. Stored = {}
    BY DEF Stored
  <1>3. \A id \in MsgIds : ~Holding(id) /\ ~Acking(id)
    BY DEF Holding, Acking, Resting
  <1> QED
    BY <1>1, <1>2, <1>3
    DEF Inv, IntakeInv, SentIsStored, WorkInv, DeletedSettled, InQueue, MadeInv

LEMMA IntakeInvariant == IntakeSpec => []Inv
  <1> QED
    BY InitIntakeInv, NextIntakeInv, PTL DEF IntakeSpec

-----------------------------------------------------------------------------

\* Every variable of the queues and of the poller keeps its type; in particular
\* no more jobs are made of a message than interruptions account for
\* (pollSQSQueue, handleReceive).
THEOREM IntakeTypes == IntakeSpec => []IntakeTypeOK
  BY IntakeInvariant, PTL DEF Inv

\* What a sender was told is stored stays stored under that id, whatever number
\* the service resumes from after a crash (handleSend, main).
THEOREM SentMessagesStay == IntakeSpec => []SentIsStored
  BY IntakeInvariant, PTL DEF Inv, IntakeInv

\* When saves do not fail, a job message is acknowledged only after its job is
\* on disk, for any number of queues, clients, messages and crashes
\* (pollSQSQueue).
THEOREM AcknowledgedWorkIsSaved ==
    ASSUME ~SavesMayFail
    PROVE  IntakeSpec => []AckedMeansJob
  <1>1. Inv => AckedMeansJob
    BY DEF Inv, IntakeInv, DeletedSettled, Settled, AckedMeansJob
  <1> QED
    BY <1>1, IntakeInvariant, PTL

\* One job for each message, plus one for each interruption (pollSQSQueue).
THEOREM OneJobPerMessage == IntakeSpec => []DuplicatesExplained
  <1>1. Inv => DuplicatesExplained
    BY IntakeConstants DEF Inv, IntakeInv, MadeInv, DuplicatesExplained, IntakeTypeOK
  <1> QED
    BY <1>1, IntakeInvariant, PTL

\* Handlers, poller, DELETEs in flight, deleted messages and jobs made of them
\* fit together (pollSQSQueue, handleReceive, handleDelete): what the theorems
\* above rest on.
THEOREM IntakeInStep == IntakeSpec => []IntakeInv
  BY IntakeInvariant, PTL DEF Inv

-----------------------------------------------------------------------------
(* Dead letters.                                                           *)

\* A row counts no receive that did not take place, and a handler under way
\* counts its own besides.
CountedInv ==
    /\ \A id \in Stored : messages[id].receives <= handouts[id]
    /\ \A r \in reads : r.receives <= Bump(handouts[r.id])

LEMMA BumpGrows ==
    \A m, n \in 0 .. CountCap : m <= n => Bump(m) <= Bump(n) /\ m <= Bump(n)
  BY SqsConstants DEF Bump

\* What is handed out stays handed out; rows and handlers count no more than that.
LEMMA CountedStep ==
    ASSUME SqsTypeOK, SqsTypeOK', CountedInv,
           \A id \in MsgIds : handouts[id] <= handouts'[id],
           \A id \in Stored' :
               \/ messages'[id].receives <= handouts'[id]
               \/ id \in Stored /\ messages'[id].receives = messages[id].receives,
           \A r \in reads' :
               \/ \E t \in reads : t.id = r.id /\ t.receives = r.receives
               \/ r.receives <= Bump(handouts[r.id])
    PROVE  CountedInv'
  <1>1. \A id \in MsgIds : handouts[id] \in 0 .. CountCap /\ handouts'[id] \in 0 .. CountCap
    BY DEF SqsTypeOK
  <1>2. \A id \in MsgIds : Bump(handouts[id]) <= Bump(handouts'[id])
    BY <1>1, BumpGrows
  <1>3. \A id \in MsgIds : Bump(handouts[id]) \in Nat /\ Bump(handouts'[id]) \in Nat
    BY <1>1, BumpType
  <1>4. ASSUME NEW id \in Stored'
        PROVE  messages'[id].receives <= handouts'[id]
    <2>1. id \in MsgIds /\ (id \in Stored => messages[id].receives \in Nat)
      BY DEF Stored, SqsTypeOK, Message
    <2> QED
      BY <1>1, <2>1 DEF CountedInv
  <1>5. ASSUME NEW r \in reads'
        PROVE  r.receives <= Bump(handouts[r.id])'
    <2>1. r.id \in MsgIds /\ r.receives \in Nat
      BY DEF SqsTypeOK, Receive
    <2>2. r.receives <= Bump(handouts[r.id])
      BY DEF CountedInv
    <2>3. r.receives <= Bump(handouts'[r.id])
      BY <1>2, <1>3, <2>1, <2>2
    <2> QED
      BY <2>3 DEF Bump
  <1> QED
    BY <1>4, <1>5 DEF CountedInv

LEMMA SelectCounted ==
    ASSUME SqsTypeOK, SqsTypeOK', CountedInv, NEW c, NEW q \in Queues, Select(c, q)
    PROVE  CountedInv'
  <1>1. PICK id \in Receivable(q) :
            reads' = reads \cup {[id |-> id, queue |-> q, client |-> c,
                                  receives |-> Bump(messages[id].receives)]}
    BY DEF Select
  <1>2. id \in Stored /\ id \in MsgIds /\ messages[id].receives \in 0 .. CountCap
    BY DEF Receivable, InQueue, Stored, SqsTypeOK, Message
  <1>3. handouts[id] \in 0 .. CountCap
    BY <1>2 DEF SqsTypeOK
  <1>4. Bump(messages[id].receives) <= Bump(handouts[id])
    BY <1>2, <1>3, BumpGrows DEF CountedInv
  <1>5. UNCHANGED <<messages, handouts>>
    BY DEF Select
  <1>6. \A i \in MsgIds : handouts[i] \in Nat
    BY DEF SqsTypeOK
  <1> QED
    BY <1>1, <1>4, <1>5, <1>6, CountedStep DEF Stored

LEMMA HandlerCounted ==
    ASSUME SqsTypeOK, SqsTypeOK', CountedInv, NEW r \in reads, r.id \in Stored,
           MoveToDlq(r) \/ HandOut(r)
    PROVE  CountedInv'
  <1>1. /\ r.id \in MsgIds /\ r.receives \in 0 .. CountCap /\ handouts[r.id] \in 0 .. CountCap
        /\ messages[r.id] \in Message
    BY SqsConstants DEF SqsTypeOK, Receive, Stored
  <1>2. r.receives <= Bump(handouts[r.id])
    BY DEF CountedInv
  <1>3. \A i \in MsgIds : handouts[i] \in Nat
    BY DEF SqsTypeOK
  <1>4. reads' = reads \ {r}
    BY DEF MoveToDlq, HandOut
  <1>5. CASE UNCHANGED <<messages, handouts>>
    BY <1>3, <1>4, <1>5, CountedStep DEF Stored
  <1>6. CASE handouts' = [handouts EXCEPT ![r.id] = Bump(handouts[r.id])]
    <2>1. /\ handouts'[r.id] = Bump(handouts[r.id])
          /\ \A i \in MsgIds \ {r.id} : handouts'[i] = handouts[i]
      BY <1>1, <1>6 DEF SqsTypeOK
    <2>2. \A i \in MsgIds : handouts[i] <= handouts'[i]
      BY <1>1, <1>3, <2>1, BumpGrows
    <2>3. \A i \in MsgIds \ {r.id} : messages'[i] = messages[i]
      BY <1>1 DEF MoveToDlq, HandOut, SqsTypeOK
    <2>4. messages'[r.id].receives \in {messages[r.id].receives, r.receives}
      <3>1. CASE UNCHANGED messages
        BY <3>1
      <3>2. CASE HandOut(r) /\ ~UNCHANGED messages
        <4>1. messages'[r.id] = [messages[r.id] EXCEPT !.receives = r.receives, !.hidden = TRUE]
          BY <1>1, <3>2 DEF HandOut, SqsTypeOK
        <4> QED
          BY <1>1, <4>1 DEF Message
      <3>3. CASE MoveToDlq(r) /\ ~UNCHANGED messages
        <4> DEFINE d == queues[r.queue].dlq
        <4>1. messages'[r.id] = [messages[r.id] EXCEPT !.queue = d, !.receives = r.receives,
                                                       !.hidden = FALSE]
          BY <1>1, <3>3 DEF MoveToDlq, SqsTypeOK
        <4> HIDE DEF d
        <4> QED
          BY <1>1, <4>1 DEF Message
      <3> QED
        BY <3>1, <3>2, <3>3
    <2>5. \A i \in Stored' : \/ messages'[i].receives <= handouts'[i]
                             \/ i \in Stored /\ messages'[i].receives = messages[i].receives
      BY <1>2, <2>1, <2>3, <2>4 DEF Stored
    <2> QED
      BY <1>4, <2>2, <2>5, CountedStep
  <1> QED
    BY <1>5, <1>6 DEF MoveToDlq, HandOut

LEMMA NextCounted ==
    ASSUME Inv, Inv', CountedInv, [IntakeNext]_vars
    PROVE  CountedInv'
  <1>1. SqsTypeOK /\ SqsTypeOK' /\ \A i \in MsgIds : handouts[i] \in Nat
    BY DEF Inv, IntakeTypeOK, SqsTypeOK
  <1>2. CASE UNCHANGED <<messages, handouts>> /\ reads' \subseteq reads
    BY <1>1, <1>2, CountedStep DEF Stored
  <1>3. CASE Forsake(Poller) /\ UNCHANGED <<messages, handouts>>
    <2>1. \A r \in reads' : \E t \in reads : t.id = r.id /\ t.receives = r.receives
      BY <1>1, <1>3 DEF Forsake, SqsTypeOK, Receive
    <2> QED
      BY <1>1, <1>3, <2>1, CountedStep DEF Stored
  <1>4. ASSUME NEW id \in MsgIds, Delete(id) \/ Reveal(id)
        PROVE  CountedInv'
    <2>1. id \in Stored => messages[id] \in Message
      BY <1>1 DEF SqsTypeOK, Stored
    <2>2. id \in Stored => /\ [messages[id] EXCEPT !.deleted = TRUE].receives = messages[id].receives
                           /\ [messages[id] EXCEPT !.hidden = FALSE].receives = messages[id].receives
      BY <2>1 DEF Message
    <2>3. /\ id \notin Stored => messages' = messages
          /\ id \in Stored => \/ messages' = [messages EXCEPT ![id] = [messages[id] EXCEPT !.deleted = TRUE]]
                              \/ messages' = [messages EXCEPT ![id] = [messages[id] EXCEPT !.hidden = FALSE]]
      BY <1>1, <1>4 DEF Delete, Reveal, SqsTypeOK
    <2>4. \A i \in Stored' : i \in Stored /\ messages'[i].receives = messages[i].receives
      BY <1>1, <2>2, <2>3 DEF Stored, SqsTypeOK
    <2>5. UNCHANGED <<reads, handouts>>
      BY <1>4 DEF Delete, Reveal
    <2> QED
      BY <1>1, <2>4, <2>5, CountedStep
  <1>5. ASSUME NEW s \in sends, InsertMessage(s)
        PROVE  CountedInv'
    <2>1. s.id \in MsgIds /\ \A k \in MsgIds : NewMessage(s, k).receives = 0
      BY <1>1 DEF SqsTypeOK, Send, NewMessage
    <2>2. \A i \in Stored' : \/ messages'[i].receives <= handouts[i]
                             \/ i \in Stored /\ messages'[i].receives = messages[i].receives
      BY <1>1, <1>5, <2>1 DEF InsertMessage, Stored, SqsTypeOK
    <2>3. UNCHANGED <<reads, handouts>>
      BY <1>5 DEF InsertMessage
    <2> QED
      BY <1>1, <2>2, <2>3, CountedStep
  <1>6. CASE Others
    BY <1>1, <1>2, <1>4, <1>5, <1>6, SelectCounted DEF Others, CreateQueue, TakeNumber, Stored
  <1>7. CASE Poll
    BY <1>1, <1>7, SelectCounted, IntakeConstants DEF Poll
  <1>8. CASE StopReceiving \/ SchedulerRestart
    BY <1>3, <1>8 DEF StopReceiving, SchedulerRestart
  <1>9. CASE SqsRestart
    BY <1>2, <1>9 DEF SqsRestart, RestartSqs
  <1>10. ASSUME NEW r \in reads, Take(r) \/ Miss(r) \/ TakeElsewhere(r)
         PROVE  CountedInv'
    BY <1>1, <1>10, HandlerCounted DEF Take, Miss, TakeElsewhere, Inv, IntakeInv, WorkInv
  <1>11. ASSUME NEW id \in MsgIds,
                MakeJob(id) \/ Discard(id) \/ NoNode(id) \/ AckLost(id) \/ AckLate(id)
         PROVE  CountedInv'
    BY <1>2, <1>11 DEF MakeJob, Discard, NoNode, AckLost, AckLate, sqsVars
  <1>12. ASSUME NEW id \in MsgIds, AckServed(id)
         PROVE  CountedInv'
    BY <1>4, <1>12 DEF AckServed
  <1>13. CASE UNCHANGED vars
    BY <1>2, <1>13 DEF vars, sqsVars
  <1> QED
    BY <1>6, <1>7, <1>8, <1>9, <1>10, <1>11, <1>12, <1>13 DEF IntakeNext

\* A message moves only when its handler counted past the limit of the queue.
LEMMA MovesAreDue ==
    ASSUME Inv, CountedInv, NEW id \in Stored, [IntakeNext]_vars,
           messages'[id].queue # messages[id].queue
    PROVE  \E q \in Queues :
               /\ queues[q] # NoQueue
               /\ messages'[id].queue = queues[q].dlq
               /\ handouts[id] >= queues[q].max
  <1>1. SqsTypeOK /\ id \in MsgIds /\ messages[id] \in Message
    BY DEF Inv, IntakeTypeOK, SqsTypeOK, Stored
  <1>2. ASSUME NEW i \in MsgIds, Delete(i) \/ Reveal(i)
        PROVE  FALSE
    <2>1. /\ [messages[id] EXCEPT !.deleted = TRUE].queue = messages[id].queue
          /\ [messages[id] EXCEPT !.hidden = FALSE].queue = messages[id].queue
      BY <1>1 DEF Message
    <2> QED
      BY <1>1, <1>2, <2>1 DEF Delete, Reveal, SqsTypeOK
  <1>3. ASSUME NEW s \in sends, InsertMessage(s)
        PROVE  FALSE
    BY <1>1, <1>3 DEF InsertMessage, SqsTypeOK
  <1>4. ~UNCHANGED messages
    OBVIOUS
  <1>5. \A r \in reads : ~HandOut(r)
    <2> SUFFICES ASSUME NEW r \in reads, HandOut(r) PROVE FALSE
      OBVIOUS
    <2>1. messages' = [messages EXCEPT ![r.id].receives = r.receives, ![r.id].hidden = TRUE]
      BY <1>4 DEF HandOut
    <2>2. id = r.id /\ messages'[id] = [messages[id] EXCEPT !.receives = r.receives, !.hidden = TRUE]
      BY <1>1, <2>1 DEF SqsTypeOK
    <2> QED
      BY <1>1, <2>2 DEF Message
  <1>6. PICK r \in reads : MoveToDlq(r)
    BY <1>2, <1>3, <1>4, <1>5
    DEF IntakeNext, Others, CreateQueue, TakeNumber, Select, Poll, StopReceiving, SchedulerRestart,
        SqsRestart, RestartSqs, Take, Miss, TakeElsewhere, MakeJob, Discard, NoNode, AckServed,
        AckLost, AckLate, Stored, vars, sqsVars
  <1> DEFINE q == r.queue
             d == queues[q].dlq
  <1>7. /\ q \in Queues /\ r.id \in MsgIds /\ r.receives \in Nat
        /\ queues[q] # NoQueue /\ r.receives > queues[q].max
    BY <1>1, <1>6 DEF MoveToDlq, Exhausted, SqsTypeOK, Receive
  <1>8. queues[q].max \in Nat
    BY <1>1, <1>7, SqsConstants DEF SqsTypeOK, Policy
  <1>9. messages' = [messages EXCEPT ![r.id].queue = d, ![r.id].receives = r.receives,
                                     ![r.id].hidden = FALSE]
    BY <1>4, <1>6 DEF MoveToDlq
  <1> HIDE DEF d
  <1>10. id = r.id
    BY <1>1, <1>9 DEF SqsTypeOK
  <1>11. messages'[id].queue = d
    <2>1. messages'[id] = [messages[id] EXCEPT !.queue = d, !.receives = r.receives, !.hidden = FALSE]
      BY <1>1, <1>9, <1>10 DEF SqsTypeOK
    <2> QED
      BY <1>1, <2>1 DEF Message
  <1>12. handouts[id] \in 0 .. CountCap /\ Bump(handouts[id]) <= handouts[id] + 1
    BY <1>1, SqsConstants DEF SqsTypeOK, Bump
  <1>13. r.receives <= Bump(handouts[id]) /\ Bump(handouts[id]) \in Nat
    BY <1>10, <1>12, BumpType DEF CountedInv
  <1>14. handouts[id] >= queues[q].max
    BY <1>7, <1>8, <1>12, <1>13
  <1> QED
    BY <1>7, <1>11, <1>14 DEF d

\* No message becomes a dead letter before it was tried as often as its queue
\* says, whatever queues stand behind one another, and however many handlers
\* of it race, fail to write or are cut off (handleReceive).
THEOREM DeadLettersAreTried == IntakeSpec => DeadLettersWereTried
  <1>1. IntakeInit => CountedInv
    BY DEF IntakeInit, SqsInit, CountedInv, Stored
  <1>2. Inv /\ Inv' /\ CountedInv /\ [IntakeNext]_vars => CountedInv'
    BY NextCounted
  <1>3. Inv /\ CountedInv /\ [IntakeNext]_vars =>
            [\A id \in Stored :
                messages'[id].queue # messages[id].queue =>
                    \E q \in Queues : /\ queues[q] # NoQueue
                                      /\ messages'[id].queue = queues[q].dlq
                                      /\ handouts[id] >= queues[q].max]_sqsVars
    BY MovesAreDue
  <1> QED
    BY <1>1, <1>2, <1>3, IntakeInvariant, PTL DEF IntakeSpec, DeadLettersWereTried

-----------------------------------------------------------------------------
(* The contract of MessageContract.                                        *)

\* Nothing is on its way to a queue other than the jobs queue.
SendsInv == \A s \in sends : s.queue = JobsQueue

LEMMA NextSends ==
    ASSUME SendsInv, [IntakeNext]_vars
    PROVE  SendsInv'
  <1>1. CASE sends' \subseteq sends
    BY <1>1 DEF SendsInv
  <1>2. ASSUME NEW b \in Bodies, TakeNumber(JobsQueue, b)
        PROVE  SendsInv'
    BY <1>2 DEF TakeNumber, SendsInv
  <1> QED
    BY <1>1, <1>2
    DEF IntakeNext, Others, CreateQueue, InsertMessage, Select, Delete, Reveal, Poll,
        StopReceiving, SchedulerRestart, SqsRestart, RestartSqs, Take, Miss, TakeElsewhere,
        MoveToDlq, HandOut, MakeJob, Discard, NoNode, AckServed, AckLost, AckLate, vars, sqsVars

AsksForWork == {id \in Stored : messages[id].body \in GoodBodies}

LEMMA MessageStill ==
    ASSUME \A id \in MsgIds : Place(messages'[id]) = Place(messages[id]),
           AsksForWork' = AsksForWork, UNCHANGED <<saved, interrupted>>
    PROVE  UNCHANGED Messages!contractVars
  <1>1. [id \in MsgIds |-> Place(messages'[id])] = [id \in MsgIds |-> Place(messages[id])]
    OBVIOUS
  <1> QED
    BY <1>1 DEF Messages!contractVars, AsksForWork, Place

LEMMA MessageGoes ==
    ASSUME NEW id \in MsgIds, NEW from, NEW to,
           \A other \in MsgIds : other # id => messages'[other] = messages[other],
           Place(messages[id]) = from, Place(messages'[id]) = to,
           UNCHANGED <<saved, interrupted>>
    PROVE  Messages!Goes(id, from, to)
  <1>1. [i \in MsgIds |-> Place(messages'[i])] =
            [[i \in MsgIds |-> Place(messages[i])] EXCEPT ![id] = to]
    OBVIOUS
  <1> QED
    BY <1>1 DEF Messages!Goes, Place

\* An action of the queue service that rewrites one stored message, or none.
LEMMA SameWork ==
    ASSUME NEW id \in Stored, id \in Stored',
           \A other \in MsgIds : other # id => messages'[other] = messages[other],
           messages'[id].body = messages[id].body
    PROVE  AsksForWork' = AsksForWork
  BY DEF AsksForWork, Stored

LEMMA InsertContract ==
    ASSUME SqsTypeOK, SendsInv, NEW s \in sends, InsertMessage(s), UNCHANGED <<saved, interrupted>>
    PROVE  Messages!Accept(s.id) \/ UNCHANGED Messages!contractVars
  <1>1. CASE UNCHANGED messages
    BY <1>1, MessageStill DEF AsksForWork, Stored
  <1>2. CASE ~UNCHANGED messages
    <2>1. PICK k \in MsgIds : messages' = [messages EXCEPT ![s.id] = NewMessage(s, k)]
      BY <1>2 DEF InsertMessage
    <2>2. s \in Send /\ s.id \in MsgIds /\ s.id \notin Stored
      BY <1>2 DEF InsertMessage, SqsTypeOK, Send
    <2>3. NewMessage(s, k) # NoMessage /\ NewMessage(s, k).queue = JobsQueue
          /\ ~NewMessage(s, k).deleted
      <3>1. NewMessage(s, k) \in Message
        BY <2>2, SqsConstants DEF NewMessage, Message, Send
      <3> QED
        BY <3>1, SqsConstants DEF NewMessage, SendsInv
    <2>4. /\ messages'[s.id] = NewMessage(s, k)
          /\ \A other \in MsgIds : other # s.id => messages'[other] = messages[other]
      BY <2>1, <2>2 DEF SqsTypeOK
    <2>5. Place(messages[s.id]) = "absent" /\ Place(messages'[s.id]) = "waiting"
      BY <2>2, <2>3, <2>4 DEF Place, Stored
    <2>6. Messages!Goes(s.id, "absent", "waiting")
      BY <2>2, <2>4, <2>5, MessageGoes
    <2>7. AsksForWork' \in {AsksForWork, AsksForWork \cup {s.id}}
      BY <2>2, <2>3, <2>4 DEF AsksForWork, Stored
    <2> QED
      BY <2>6, <2>7 DEF Messages!Accept, AsksForWork
  <1> QED
    BY <1>1, <1>2

\* Whatever is done to a stored message, short of deleting it: it waits, or it
\* becomes a dead letter.
LEMMA KeptContract ==
    ASSUME Kept, NEW id \in Stored, UNCHANGED <<saved, interrupted>>,
           \A other \in MsgIds : other # id => messages'[other] = messages[other]
    PROVE  Messages!Bury(id) \/ UNCHANGED Messages!contractVars
  <1>1. AsksForWork' = AsksForWork
    BY SameWork DEF Kept
  <1>2. \/ Place(messages'[id]) = Place(messages[id])
        \/ Place(messages[id]) = "waiting" /\ Place(messages'[id]) = "dead"
    BY DEF Kept, Place, Stored
  <1>3. CASE Place(messages'[id]) = Place(messages[id])
    BY <1>1, <1>3, MessageStill
  <1>4. CASE Place(messages[id]) = "waiting" /\ Place(messages'[id]) = "dead"
    <2>1. Messages!Goes(id, "waiting", "dead")
      BY <1>4, MessageGoes DEF Stored
    <2> QED
      BY <1>1, <2>1 DEF Messages!Bury, AsksForWork
  <1> QED
    BY <1>2, <1>3, <1>4

LEMMA HandlerContract ==
    ASSUME Inv, NEW r \in reads, MoveToDlq(r) \/ HandOut(r), UNCHANGED <<saved, interrupted>>
    PROVE  Messages!Bury(r.id) \/ UNCHANGED Messages!contractVars
  <1>1. SqsTypeOK /\ r.id \in Stored /\ messages[r.id] # NoMessage
    BY DEF Inv, IntakeInv, WorkInv, IntakeTypeOK, Stored
  <1>2. Kept
    BY <1>1, HandlerKept
  <1>3. \A other \in MsgIds : other # r.id => messages'[other] = messages[other]
    BY <1>1 DEF MoveToDlq, HandOut, SqsTypeOK
  <1> QED
    BY <1>1, <1>2, <1>3, KeptContract

LEMMA RevealContract ==
    ASSUME SqsTypeOK, NEW id \in MsgIds, Reveal(id), UNCHANGED <<saved, interrupted>>
    PROVE  Messages!Bury(id) \/ UNCHANGED Messages!contractVars
  <1>1. id \in Stored /\ \A other \in MsgIds : other # id => messages'[other] = messages[other]
    BY DEF Reveal, SqsTypeOK
  <1> QED
    BY <1>1, RevealKept, KeptContract

LEMMA DeleteContract ==
    ASSUME SqsTypeOK, NEW id \in Stored, Delete(id), UNCHANGED <<saved, interrupted>>,
           id \in InQueue(JobsQueue) /\ messages[id].body \in GoodBodies => saved[id] > 0
    PROVE  Messages!Finish(id) \/ Messages!Forget(id) \/ UNCHANGED Messages!contractVars
  <1>1. id \in MsgIds /\ \A other \in MsgIds : other # id => messages'[other] = messages[other]
    BY DEF Delete, SqsTypeOK, Stored
  <1>2. id \in Stored' /\ messages'[id].body = messages[id].body /\ messages'[id].deleted
    BY <1>1, DeleteEffect
  <1>3. AsksForWork' = AsksForWork
    BY <1>1, <1>2, SameWork
  <1>4. Place(messages'[id]) = "gone"
    BY <1>2 DEF Place, Stored
  <1>5. CASE messages[id].deleted
    BY <1>1, <1>3, <1>4, <1>5, MessageStill DEF Place, Stored
  <1>6. CASE ~messages[id].deleted /\ messages[id].queue = JobsQueue
    <2>1. Messages!Goes(id, "waiting", "gone")
      BY <1>1, <1>4, <1>6, MessageGoes DEF Place, Stored
    <2> QED
      BY <1>3, <1>6, <2>1 DEF Messages!Finish, AsksForWork, InQueue
  <1>7. CASE ~messages[id].deleted /\ messages[id].queue # JobsQueue
    <2>1. Messages!Goes(id, "dead", "gone")
      BY <1>1, <1>4, <1>7, MessageGoes DEF Place, Stored
    <2> QED
      BY <1>3, <2>1 DEF Messages!Forget, AsksForWork
  <1> QED
    BY <1>5, <1>6, <1>7

\* A job is made only of a message whose earlier jobs the interruptions account for.
LEMMA MakeJobContract ==
    ASSUME ~SavesMayFail, Inv, NEW id \in MsgIds, MakeJob(id)
    PROVE  Messages!Work(id)
  <1>1. saved' = [saved EXCEPT ![id] = @ + 1] /\ UNCHANGED <<messages, interrupted>>
    BY DEF MakeJob, sqsVars
  <1>2. made[id] <= interrupted[id] /\ saved[id] <= made[id]
    BY IntakeConstants DEF Inv, IntakeInv, MakeJob, MadeInv, ToPoller, Holding, Acking, IntakeTypeOK
  <1>3. saved[id] <= interrupted[id]
    BY <1>2, IntakeConstants DEF Inv, IntakeTypeOK
  <1>4. id \in Stored /\ messages[id].body \in GoodBodies
    BY DEF Inv, IntakeInv, WorkInv, MakeJob
  <1> QED
    BY <1>1, <1>3, <1>4 DEF Messages!Work, Stored

LEMMA CutContract ==
    ASSUME NEW id \in MsgIds, Interrupt(id), UNCHANGED <<messages, saved>>
    PROVE  Messages!Cut(id)
  BY DEF Interrupt, Messages!Cut, Stored

LEMMA NextMessageContract ==
    ASSUME ~SavesMayFail, Inv, SendsInv, [IntakeNext]_vars
    PROVE  [Messages!Next]_(Messages!contractVars)
  <1>1. SqsTypeOK
    BY DEF Inv, IntakeTypeOK
  <1>2. CASE UNCHANGED <<messages, saved, interrupted>>
    BY <1>2, MessageStill DEF AsksForWork, Stored
  <1>3. ASSUME NEW s \in sends, InsertMessage(s), UNCHANGED <<saved, interrupted>>
        PROVE  [Messages!Next]_(Messages!contractVars)
    <2>1. s.id \in MsgIds
      BY <1>1 DEF SqsTypeOK, Send
    <2> QED
      BY <1>1, <1>3, <2>1, InsertContract DEF Messages!Next
  <1>4. ASSUME NEW id \in Stored, Delete(id), UNCHANGED <<saved, interrupted>>,
               id \in InQueue(JobsQueue) /\ messages[id].body \in GoodBodies => saved[id] > 0
        PROVE  [Messages!Next]_(Messages!contractVars)
    BY <1>1, <1>4, DeleteContract DEF Messages!Next, Stored
  <1>5. CASE Others
    <2>1. ASSUME NEW id \in Stored \ InQueue(JobsQueue), Delete(id)
          PROVE  [Messages!Next]_(Messages!contractVars)
      BY <1>4, <1>5, <2>1 DEF Others, intakeVars
    <2>2. ASSUME NEW id \in MsgIds, Reveal(id)
          PROVE  [Messages!Next]_(Messages!contractVars)
      BY <1>1, <1>5, <2>2, RevealContract DEF Others, intakeVars, Messages!Next
    <2> QED
      BY <1>2, <1>3, <1>5, <2>1, <2>2 DEF Others, intakeVars, CreateQueue, TakeNumber, Select
  <1>6. ASSUME NEW r \in reads, Take(r) \/ Miss(r) \/ TakeElsewhere(r)
        PROVE  [Messages!Next]_(Messages!contractVars)
    <2>1. r.id \in MsgIds
      BY <1>1 DEF SqsTypeOK, Receive
    <2> QED
      BY <1>6, <2>1, HandlerContract DEF Take, Miss, TakeElsewhere, Messages!Next
  <1>7. ASSUME NEW id \in MsgIds, MakeJob(id)
        PROVE  [Messages!Next]_(Messages!contractVars)
    BY <1>7, MakeJobContract DEF Messages!Next
  <1>8. ASSUME NEW id \in MsgIds, AckServed(id)
        PROVE  [Messages!Next]_(Messages!contractVars)
    \* Only settled messages have a DELETE in flight.
    <2>1. id \in Stored /\ Settled(id)
      BY <1>8 DEF AckServed, Inv, IntakeInv, WorkInv
    <2> QED
      BY <1>4, <1>8, <2>1 DEF AckServed, Settled
  <1>9. ASSUME NEW id \in MsgIds, AckLost(id) \/ AckLate(id)
        PROVE  [Messages!Next]_(Messages!contractVars)
    BY <1>9, CutContract DEF AckLost, AckLate, sqsVars, Messages!Next
  <1>10. CASE SchedulerRestart
    <2>1. "msg" \in DOMAIN poller => poller.msg \in MsgIds
      BY DEF Inv, IntakeTypeOK, PollerState, Resting, Receiving
    <2> QED
      BY <1>2, <1>10, <2>1, CutContract DEF SchedulerRestart, Messages!Next
  <1> QED
    BY <1>2, <1>5, <1>6, <1>7, <1>8, <1>9, <1>10
    DEF IntakeNext, Poll, Select, StopReceiving, SqsRestart, RestartSqs, Discard, NoNode, vars,
        sqsVars, intakeVars

LEMMA InitMessageContract == IntakeInit => Messages!Init
  BY DEF IntakeInit, SqsInit, Messages!Init, Place, Stored

\* The queue service and the scheduler's loop implement MessageContract: a
\* message waits until its job is on disk or it is a dead letter, is never
\* lost, replaced or queued again, and makes one job more only when work on it
\* was cut short (handleSend, handleReceive, handleDelete, pollSQSQueue).
THEOREM IntakeKeepsContract ==
    ASSUME ~SavesMayFail
    PROVE  IntakeSpec => MessagesKept
  <1>1. IntakeInit => SendsInv
    BY DEF IntakeInit, SqsInit, SendsInv
  <1>2. SendsInv /\ [IntakeNext]_vars => SendsInv'
    BY NextSends
  <1>3. Inv /\ SendsInv /\ [IntakeNext]_vars => [Messages!Next]_(Messages!contractVars)
    BY NextMessageContract
  <1> QED
    BY <1>1, <1>2, <1>3, InitMessageContract, IntakeInvariant, PTL
    DEF IntakeSpec, MessagesKept, Messages!Spec
=============================================================================
