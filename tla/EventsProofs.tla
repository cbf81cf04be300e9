---------------------------- MODULE EventsProofs ----------------------------
(***************************************************************************)
(* What Events promises, for any number of stores, objects, calls, rows    *)
(* and restarts.  In this order: the numbers of SNS and of the networking  *)
(* service, of which a 201 is only ever a lie about an old one; files and  *)
(* rows, and reads that find nothing; copies, which agree after a clean    *)
(* write; the types of all the state; and invocations, which no loss or    *)
(* restart multiplies beyond the starts of lambda.                         *)
(***************************************************************************)
EXTENDS Events, FiniteSetTheorems, TLAPS

LEMMA MaxOfTwo ==
    ASSUME NEW a \in Nat, NEW b \in Nat
    PROVE  /\ Max({a, b}) \in Nat
           /\ Max({a, b}) >= a /\ Max({a, b}) >= b
           /\ Max({a, b}) \in {a, b}
<1>1. \E x \in {a, b} : \A y \in {a, b} : x >= y
  <2>1. CASE a >= b
    BY <2>1
  <2>2. CASE b >= a
    BY <2>2
  <2> QED
    BY <2>1, <2>2
<1> QED
  BY <1>1 DEF Max

\* Every row has a number of this run of SNS or of an earlier one, so that a
\* number taken now meets a row only if it was given before.
SubsNumbered ==
    /\ subSeq \in Nat /\ subBefore \in Nat
    /\ \A r \in subscriptions : r.id \in Nat /\ (r.id <= subSeq \/ r.id <= subBefore)
    /\ \A r \in subAnswered \ (subscriptions \cup subFailed) :
           r.id \in Nat /\ r.id <= subBefore /\ \E s \in subscriptions : s.id = r.id

\* The same of the rows of the networking service, and of the handlers that
\* have a number and no row yet: their numbers are of this run, no two have the
\* same, and a row that has it already was described before.
NetNumbered ==
    /\ netSeq \in Nat /\ netBefore \in Nat /\ made \in Nat
    /\ \A r \in inserting : r.n \in Nat /\ r.n <= netSeq
    /\ \A r, s \in inserting : r.n = s.n => r = s
    /\ \A r \in netRows : r.n \in Nat /\ (r.n <= netSeq \/ r.n <= netBefore)
    /\ \A r \in netRows \cup inserting : r.made \in Nat /\ r.made <= made
    /\ \A r \in inserting, s \in netRows :
           r.n = s.n => r.n <= netBefore /\ s.made < r.made
    /\ \A r \in netAnswered \ (netRows \cup netFailed) :
           /\ r.n \in Nat /\ r.n <= netBefore
           /\ \E s \in netRows : s.kind = r.kind /\ s.n = r.n /\ s.made < r.made

LEMMA InsertSubscriptionNumbered ==
    ASSUME SubsNumbered, NEW who, InsertSubscription(who)
    PROVE  SubsNumbered'
<1> DEFINE row == [id |-> subSeq + 1, who |-> who]
<1>1. /\ subSeq' = subSeq + 1 /\ subBefore' = subBefore
      /\ subAnswered' = subAnswered \cup {row}
      /\ \/ /\ subscriptions' = IF \E r \in subscriptions : r.id = row.id THEN subscriptions
                                ELSE subscriptions \cup {row}
            /\ subFailed' = subFailed
         \/ subscriptions' = subscriptions /\ subFailed' = subFailed \cup {row}
  BY DEF InsertSubscription
<1>2. row.id = subSeq + 1
  OBVIOUS
<1> HIDE DEF row
<1>3. CASE subscriptions' = subscriptions /\ subFailed' = subFailed \cup {row}
  BY <1>1, <1>2, <1>3 DEF SubsNumbered
<1>4. CASE subscriptions' = subscriptions /\ subFailed' = subFailed
           /\ \E r \in subscriptions : r.id = row.id
  <2>1. row.id <= subBefore
    BY <1>2, <1>4 DEF SubsNumbered
  <2> QED
    BY <1>1, <1>2, <1>4, <2>1 DEF SubsNumbered
<1>5. CASE subscriptions' = subscriptions \cup {row} /\ subFailed' = subFailed
  BY <1>1, <1>2, <1>5 DEF SubsNumbered
<1> QED
  BY <1>1, <1>3, <1>4, <1>5

LEMMA SnsRestartNumbered ==
    ASSUME SubsNumbered, SnsRestart
    PROVE  SubsNumbered'
<1>1. /\ subBefore' \in Nat /\ subBefore' >= subBefore /\ subBefore' >= subSeq
  BY MaxOfTwo DEF SubsNumbered, SnsRestart
<1>2. subSeq' = 0 /\ UNCHANGED <<subscriptions, subAnswered, subFailed>>
  BY DEF SnsRestart
<1>3. \A r \in subscriptions' : r.id \in Nat /\ r.id <= subBefore'
  BY <1>1, <1>2 DEF SubsNumbered
<1>4. \A r \in subAnswered' \ (subscriptions' \cup subFailed') :
          r.id \in Nat /\ r.id <= subBefore' /\ \E s \in subscriptions' : s.id = r.id
  BY <1>1, <1>2 DEF SubsNumbered
<1> QED
  BY <1>1, <1>2, <1>3, <1>4 DEF SubsNumbered

LEMMA SnsVarsNumbered ==
    ASSUME SubsNumbered, UNCHANGED snsVars
    PROVE  SubsNumbered'
BY DEF SubsNumbered, snsVars

\* Only subscriptions and restarts of SNS touch its rows.
LEMMA NextSubsNumbered ==
    ASSUME SubsNumbered, [EventsNext]_eventVars
    PROVE  SubsNumbered'
<1>1. CASE HandlerMoves
  BY <1>1, SnsVarsNumbered DEF HandlerMoves, Storing, Finishes, triggerVars, snsVars
<1>2. CASE Notifies(SnsMoves)
  <2>1. CASE SnsRestart
    BY <2>1, SnsRestartNumbered
  <2>2. ASSUME NEW who \in Others, SubscribeOther(who) PROVE SubsNumbered'
    BY <2>2, InsertSubscriptionNumbered DEF SubscribeOther
  <2>3. ASSUME NEW n, Publish(n) PROVE SubsNumbered'
    BY <2>3, SnsVarsNumbered DEF Publish
  <2> QED
    BY <1>2, <2>1, <2>2, <2>3 DEF Notifies, SnsMoves
<1>3. CASE Notifies(LambdaMoves)
  <2>1. CASE Subscribe
    BY <2>1, InsertSubscriptionNumbered DEF Subscribe
  <2>2. CASE ~Subscribe
    <3>1. UNCHANGED snsVars
      BY <1>3, <2>2 DEF Notifies, LambdaMoves, LambdaStart, SubscribeFails, Deliver,
         DeliveryLost, Invoke, CreateFunction, CreateTrigger, DeleteTrigger
    <3> QED
      BY <3>1, SnsVarsNumbered
  <2> QED
    BY <2>1, <2>2
<1>4. CASE Connects(NetMoves)
  BY <1>4, SnsVarsNumbered DEF Connects, triggerVars, snsVars
<1>5. CASE UNCHANGED eventVars
  BY <1>5, SnsVarsNumbered DEF eventVars, triggerVars, snsVars
<1> QED
  BY <1>1, <1>2, <1>3, <1>4, <1>5, SnsVarsNumbered DEF EventsNext, Storing, triggerVars, snsVars

LEMMA NumberNumbered ==
    ASSUME NetNumbered, NEW kind, Number(kind)
    PROVE  NetNumbered'
<1> DEFINE row == [kind |-> kind, n |-> netSeq + 1, made |-> made + 1]
<1>1. /\ netSeq' = netSeq + 1 /\ inserting' = inserting \cup {row}
      /\ made' = made + 1
      /\ UNCHANGED <<netRows, netAnswered, netFailed, netBefore>>
  BY DEF Number, NextID
<1>2. row.n = netSeq + 1 /\ row.made = made + 1
  OBVIOUS
<1> HIDE DEF row
<1> QED
  BY <1>1, <1>2 DEF NetNumbered

LEMMA InsertNumbered ==
    ASSUME NetNumbered, NEW r, Insert(r)
    PROVE  NetNumbered'
<1>1. /\ r \in inserting /\ inserting' = inserting \ {r}
      /\ netAnswered' = netAnswered \cup {r}
      /\ UNCHANGED <<netSeq, netBefore, made>>
  BY DEF Insert
<1>2. r.n \in Nat /\ r.n <= netSeq
  BY <1>1 DEF NetNumbered
<1>3. CASE netRows' = netRows /\ netFailed' = netFailed \cup {r}
  BY <1>1, <1>3 DEF NetNumbered
<1>4. CASE netRows' = netRows /\ netFailed' = netFailed
           /\ \E s \in netRows : s.kind = r.kind /\ s.n = r.n
  <2>1. r.n <= netBefore /\ \E s \in netRows : s.kind = r.kind /\ s.n = r.n /\ s.made < r.made
    BY <1>1, <1>4 DEF NetNumbered
  <2> QED
    BY <1>1, <1>2, <1>4, <2>1 DEF NetNumbered
<1>5. CASE netRows' = netRows \cup {r} /\ netFailed' = netFailed
  <2>1. \A q \in inserting' : q.n # r.n
    BY <1>1 DEF NetNumbered
  <2> QED
    BY <1>1, <1>2, <1>5, <2>1 DEF NetNumbered
<1> QED
  BY <1>3, <1>4, <1>5 DEF Insert

LEMMA NetRestartNumbered ==
    ASSUME NetNumbered, NetRestart
    PROVE  NetNumbered'
<1>1. /\ netBefore' \in Nat /\ netBefore' >= netBefore /\ netBefore' >= netSeq
  BY MaxOfTwo DEF NetNumbered, NetRestart
<1>2. /\ netSeq' = 0 /\ inserting' = {}
      /\ UNCHANGED <<netRows, netAnswered, netFailed, made>>
  BY DEF NetRestart
<1>3. \A r \in netRows' : r.n \in Nat /\ r.n <= netBefore'
  BY <1>1, <1>2 DEF NetNumbered
<1>4. \A r \in netAnswered' \ (netRows' \cup netFailed') : r.n \in Nat /\ r.n <= netBefore'
  BY <1>1, <1>2 DEF NetNumbered
<1> QED
  BY <1>1, <1>2, <1>3, <1>4 DEF NetNumbered

LEMMA NextNetNumbered ==
    ASSUME NetNumbered, [EventsNext]_eventVars
    PROVE  NetNumbered'
<1>1. CASE NetMoves
  <2>1. ASSUME NEW kind \in Kinds, Number(kind) PROVE NetNumbered'
    BY <2>1, NumberNumbered
  <2>2. ASSUME NEW r \in inserting, Insert(r) PROVE NetNumbered'
    BY <2>2, InsertNumbered
  <2>3. ASSUME NEW h \in Hosts, NEW n \in NetNumbers, AssignSubnet(h, n) PROVE NetNumbered'
    BY <2>3 DEF AssignSubnet, NetNumbered
  <2> QED
    BY <1>1, <2>1, <2>2, <2>3, NetRestartNumbered
    DEF NetMoves, CreateVPC, CreateSubnet, CreateRoute, CreateGroup, AddRule, Kinds
<1>2. CASE UNCHANGED netVars
  BY <1>2 DEF netVars, NetNumbered
<1> QED
  BY <1>1, <1>2 DEF EventsNext, HandlerMoves, Storing, Finishes, Notifies, Connects, eventVars

\* SNS and the networking service keep what they answered 201 (handleSubscribe
\* and the handlers that create a row, whose INSERT's error is dropped), except
\* what the database failed on and what came under a number of an earlier run
\* that an older object has: that one stays, and the new one is lost.
THEOREM AnswersAreKept == EventsSpec => []LostRowsExplained
<1>1. EventsInit => SubsNumbered /\ NetNumbered
  BY DEF EventsInit, TriggersInit, NetInit, SubsNumbered, NetNumbered
<1>2. SubsNumbered /\ NetNumbered /\ [EventsNext]_eventVars => (SubsNumbered /\ NetNumbered)'
  BY NextSubsNumbered, NextNetNumbered
<1>3. SubsNumbered /\ NetNumbered => LostRowsExplained
  BY DEF SubsNumbered, NetNumbered, LostRowsExplained
<1> QED
  BY <1>1, <1>2, <1>3, PTL DEF EventsSpec

-----------------------------------------------------------------------------
(* Files and rows, and reads that find nothing.                            *)

Shapes ==
    /\ calls \in [Slots -> Call \cup {Free}]
    /\ blocks \in [Stores -> [Keys -> Bytes]]
    /\ meta \in [Stores -> [Keys -> Bytes]]
    /\ peers \in [Stores -> SUBSET Stores]
    /\ puts \in 0 .. MaxPuts

\* Handlers that write an object at one store at once know that they are not
\* alone.  One that is alone has written its bytes when it comes to the row,
\* and a handler that has not begun has changed nothing.
BlockInv ==
    /\ \A c \in Active : calls[c].op = "delete" => calls[c].val = Missing
    /\ \A s \in Stores, k \in Keys :
           /\ \A c, d \in Locally(s, k) : c # d => ~calls[c].alone
           /\ \A c \in Locally(s, k) :
                  calls[c].alone /\ calls[c].pc = "index" => blocks[s][k] = calls[c].val
           /\ (\A c \in Locally(s, k) : calls[c].pc = "start") /\ <<s, k>> \notin torn
                  => meta[s][k] = blocks[s][k]

\* A call on behalf of another is for the same object, its caller waits for
\* nobody else, and what spoils a read spoils it for both.  A read has nobody
\* left to ask only when it was spoilt.
ReadInv ==
    /\ \A c \in Active : calls[c].joined => AllJoined
    /\ \A c \in Active : calls[c].by # Client =>
           LET b == calls[c].by IN
           /\ b \in Active /\ calls[b].pc = "wait"
           /\ calls[b].op = calls[c].op /\ calls[b].key = calls[c].key
           /\ calls[b].joined = calls[c].joined
    /\ \A c, d \in Active : calls[c].by # Client /\ calls[c].by = calls[d].by => c = d
    /\ \A c \in Active :
           /\ calls[c].op = "get" /\ calls[c].key \notin Bucketed
           /\ calls[c].pc = "error" \/ (calls[c].pc = "send" /\ calls[c].todo = {})
           => ~calls[c].joined

StoreInv == Shapes /\ BlockInv /\ ReadInv

LEMMA CallFields ==
    \A x \in Call :
        /\ x # Free
        /\ x.op \in {"put", "get", "delete"} /\ x.at \in Stores /\ x.key \in Keys /\ x.val \in Bytes
        /\ x.by \in Slots \cup {Client} /\ x.todo \in SUBSET Stores
        /\ x.pc \in {"start", "write", "index", "send", "wait", "ok", "error"}
        /\ x.alone \in BOOLEAN /\ x.clean \in BOOLEAN /\ x.joined \in BOOLEAN
<1>1. \A x \in Call : x.op # "none"
  BY DEF Call
<1>2. Free.op = "none"
  BY DEF Free
<1>3. \A x \in Call : x # Free
  BY <1>1, <1>2
<1> QED
  BY <1>3 DEF Call

LEMMA ActiveCalls ==
    ASSUME Shapes
    PROVE  Active = {c \in Slots : calls[c] \in Call}
BY CallFields DEF Shapes, Active

LEMMA ClientIsNoSlot == Client \notin Slots
BY ObjectStoreConstants DEF Client, Slots

\* What is local, in terms of the calls.
LEMMA LocalCalls ==
    ASSUME Shapes
    PROVE  \A s, k : \A c : c \in Locally(s, k) <=>
               /\ c \in Slots /\ calls[c] \in Call
               /\ calls[c].op # "get" /\ calls[c].at = s /\ calls[c].key = k
               /\ calls[c].pc \in {"start", "write", "index"}
BY ActiveCalls DEF Locally, Writing

\* The same calls do the same work at the same place.
SameWork(x, y) ==
    /\ x.op = y.op /\ x.at = y.at /\ x.key = y.key /\ x.val = y.val
    /\ x.by = y.by /\ x.todo = y.todo /\ x.pc = y.pc /\ x.joined = y.joined

\* The handlers of e are those of calls and a new one, d, which serves call.
Entered(e, call, d) ==
    /\ calls[d] = Free
    /\ e \in [Slots -> Call \cup {Free}]
    /\ e[d] \in Call /\ SameWork(e[d], call)
    /\ call.op # "get" /\ e[d].alone => Locally(call.at, call.key) = {}
    /\ call.op # "get" /\ call.by = Client /\ e[d].clean => Writing(call.key) = {}
    /\ \A c \in Slots \ {d} :
           /\ calls[c] = Free => e[c] = Free
           /\ calls[c] \in Call =>
                  /\ e[c] \in Call /\ SameWork(e[c], calls[c])
                  /\ e[c].alone => calls[c].alone
                  /\ call.op # "get" /\ e[c].alone => c \notin Locally(call.at, call.key)
                  /\ e[c].clean => calls[c].clean
                  /\ call.op # "get" /\ call.by = Client /\ e[c].clean
                         => c \notin Writing(call.key)

LEMMA EnterEffect ==
    ASSUME Shapes, HasSlot, NEW call \in Call
    PROVE  \E d \in Slots : Entered(Enter(call), call, d)
<1> DEFINE d == CHOOSE c \in Slots : calls[c] = Free
           here == IF call.op # "get" THEN Locally(call.at, call.key) ELSE {}
           others == IF call.op # "get" /\ call.by = Client THEN Writing(call.key) ELSE {}
           e == Enter(call)
<1>1. d \in Slots /\ calls[d] = Free
  BY DEF HasSlot
<1>2. e = [c \in Slots |->
              IF c = d THEN [call EXCEPT !.alone = here = {}, !.clean = others = {}]
              ELSE IF calls[c] = Free THEN Free
              ELSE [calls[c] EXCEPT !.alone = @ /\ c \notin here, !.clean = @ /\ c \notin others]]
  BY DEF Enter
<1> HIDE DEF d, here, others, e
<1>3. \A x \in Call, a, b \in BOOLEAN :
          LET y == [x EXCEPT !.alone = a, !.clean = b] IN
          y \in Call /\ SameWork(y, x) /\ y.alone = a /\ y.clean = b
  <2> SUFFICES ASSUME NEW x \in Call, NEW a \in BOOLEAN, NEW b \in BOOLEAN
               PROVE  LET y == [x EXCEPT !.alone = a, !.clean = b] IN
                      y \in Call /\ SameWork(y, x) /\ y.alone = a /\ y.clean = b
    OBVIOUS
  <2> DEFINE y == [x EXCEPT !.alone = a, !.clean = b]
  <2>1. y \in Call
    BY DEF Call
  <2>2. SameWork(y, x)
    BY DEF Call, SameWork
  <2>3. y.alone = a /\ y.clean = b
    BY DEF Call
  <2> QED
    BY <2>1, <2>2, <2>3
<1>4. /\ e[d] = [call EXCEPT !.alone = here = {}, !.clean = others = {}]
      /\ e[d] \in Call /\ SameWork(e[d], call)
      /\ e[d].alone = (here = {}) /\ e[d].clean = (others = {})
  <2>1. (here = {}) \in BOOLEAN /\ (others = {}) \in BOOLEAN
    OBVIOUS
  <2> QED
    BY <1>1, <1>2, <1>3, <2>1
<1>5. ASSUME NEW c \in Slots \ {d}, calls[c] \in Call
      PROVE  /\ e[c] \in Call /\ SameWork(e[c], calls[c])
             /\ e[c].alone => calls[c].alone /\ c \notin here
             /\ e[c].clean => calls[c].clean /\ c \notin others
  <2> DEFINE a == calls[c].alone /\ c \notin here
             b == calls[c].clean /\ c \notin others
             x == calls[c]
  <2>0. /\ a => calls[c].alone /\ c \notin here
        /\ b => calls[c].clean /\ c \notin others
    OBVIOUS
  <2>1. a \in BOOLEAN /\ b \in BOOLEAN
    OBVIOUS
  <2>2. e[c] = [x EXCEPT !.alone = a, !.clean = b]
    BY <1>2, <1>5, CallFields
  <2>3. x \in Call
    BY <1>5
  <2> HIDE DEF a, b, x
  <2>4. LET y == [x EXCEPT !.alone = a, !.clean = b] IN
        y \in Call /\ SameWork(y, x) /\ y.alone = a /\ y.clean = b
    BY <1>3, <2>1, <2>3
  <2>5. e[c].alone = a /\ e[c].clean = b /\ e[c] \in Call /\ SameWork(e[c], calls[c])
    BY <2>2, <2>4 DEF x
  <2> QED
    BY <2>0, <2>5
<1>6. \A c \in Slots \ {d} : calls[c] = Free => e[c] = Free
  BY <1>2
<1>7. e \in [Slots -> Call \cup {Free}]
  <2>1. \A c \in Slots : e[c] \in Call \cup {Free}
    BY <1>4, <1>5, <1>6 DEF Shapes
  <2> QED
    BY <1>2, <2>1
<1> QED
  BY <1>1, <1>4, <1>5, <1>6, <1>7 DEF here, others, e, Entered

LEMMA BecomeEffect ==
    ASSUME Shapes, NEW c \in Slots, calls[c] \in Call,
           NEW pc \in {"start", "write", "index", "send", "wait", "ok", "error"}, Become(c, pc)
    PROVE  /\ calls' \in [Slots -> Call \cup {Free}]
           /\ calls' = [calls EXCEPT ![c] = [calls[c] EXCEPT !.pc = pc]]
           /\ calls'[c] \in Call /\ calls'[c].pc = pc
           /\ calls'[c].op = calls[c].op /\ calls'[c].at = calls[c].at
           /\ calls'[c].key = calls[c].key /\ calls'[c].val = calls[c].val
           /\ calls'[c].by = calls[c].by /\ calls'[c].todo = calls[c].todo
           /\ calls'[c].alone = calls[c].alone /\ calls'[c].joined = calls[c].joined
           /\ calls'[c].clean = calls[c].clean
           /\ \A d \in Slots \ {c} : calls'[d] = calls[d]
<1> DEFINE x == [calls[c] EXCEPT !.pc = pc]
<1>1. /\ x \in Call /\ x.pc = pc
      /\ x.op = calls[c].op /\ x.at = calls[c].at /\ x.key = calls[c].key /\ x.val = calls[c].val
      /\ x.by = calls[c].by /\ x.todo = calls[c].todo
      /\ x.alone = calls[c].alone /\ x.joined = calls[c].joined /\ x.clean = calls[c].clean
  BY DEF Call
<1>2. calls' = [calls EXCEPT ![c] = x]
  BY DEF Become
<1> HIDE DEF x
<1>3. calls'[c] = x /\ calls' \in [Slots -> Call \cup {Free}]
      /\ \A d \in Slots \ {c} : calls'[d] = calls[d]
  BY <1>1, <1>2 DEF Shapes
<1> QED
  BY <1>1, <1>2, <1>3 DEF x

\* A step that moves no file and no row, but may drop handlers that have not
\* begun, leave what they wrote marked as torn, move on some that are not alone,
\* and begin new ones.
LEMMA BlockStep ==
    ASSUME StoreInv, Shapes', UNCHANGED <<blocks, meta>>, torn \subseteq torn',
           \A c \in Slots : calls'[c] \in Call /\ calls'[c].op = "delete" => calls'[c].val = Missing,
           \A s \in Stores, k \in Keys : \A c \in Locally(s, k)' :
               \/ /\ c \in Locally(s, k)
                  /\ calls'[c].val = calls[c].val
                  /\ calls'[c].alone => calls[c].alone /\ calls'[c].pc = calls[c].pc
               \/ /\ calls'[c].pc = "start"
                  /\ calls'[c].alone => Locally(s, k) = {}
                  /\ \A d \in Locally(s, k)' \ {c} : ~calls'[d].alone,
           \A s \in Stores, k \in Keys : \A c \in Locally(s, k) :
               \/ c \in Locally(s, k)' /\ calls'[c].pc # "start"
               \/ c \in Locally(s, k)' /\ calls'[c].pc = calls[c].pc
               \/ calls[c].pc = "start"
               \/ <<s, k>> \in torn'
    PROVE  BlockInv'
<1>1. \A c \in Active' : calls'[c].op = "delete" => calls'[c].val = Missing
  BY DEF Shapes, Active
<1>2. ASSUME NEW s \in Stores, NEW k \in Keys
      PROVE  /\ \A c, d \in Locally(s, k)' : c # d => ~calls'[c].alone
             /\ \A c \in Locally(s, k)' :
                    calls'[c].alone /\ calls'[c].pc = "index" => blocks'[s][k] = calls'[c].val
             /\ (\A c \in Locally(s, k)' : calls'[c].pc = "start") /\ <<s, k>> \notin torn'
                    => meta'[s][k] = blocks'[s][k]
  <2> DEFINE L == Locally(s, k)
  <2>0. /\ \A c \in L' :
              \/ /\ c \in L
                 /\ calls'[c].val = calls[c].val
                 /\ calls'[c].alone => calls[c].alone /\ calls'[c].pc = calls[c].pc
              \/ /\ calls'[c].pc = "start"
                 /\ calls'[c].alone => L = {}
                 /\ \A d \in L' \ {c} : ~calls'[d].alone
        /\ \A c, d \in L : c # d => ~calls[c].alone
        /\ \A c \in L : calls[c].alone /\ calls[c].pc = "index" => blocks[s][k] = calls[c].val
    BY DEF StoreInv, BlockInv
  <2> HIDE DEF L
  <2>1. ASSUME NEW c \in L', NEW d \in L', c # d PROVE ~calls'[c].alone
    BY <2>0, <2>1
  <2>2. ASSUME NEW c \in L', calls'[c].alone, calls'[c].pc = "index"
        PROVE  blocks'[s][k] = calls'[c].val
    BY <2>0, <2>2
  <2>3. ASSUME \A c \in Locally(s, k)' : calls'[c].pc = "start", <<s, k>> \notin torn'
        PROVE  meta'[s][k] = blocks'[s][k]
    <3>1. \A c \in Locally(s, k) : calls[c].pc = "start"
      BY <2>3
    <3> QED
      BY <2>3, <3>1 DEF StoreInv, BlockInv
  <2> QED
    BY <2>1, <2>2, <2>3 DEF L
<1> QED
  BY <1>1, <1>2 DEF BlockInv

\* A handler that writes its object works on one file, and whoever is at the
\* same file is not alone.
LEMMA LocalStep ==
    ASSUME StoreInv, Shapes', NEW s \in Stores, NEW k \in Keys, NEW c \in Locally(s, k),
           NEW pc \in {"write", "index"}, NEW v, Become(c, pc),
           blocks' = [blocks EXCEPT ![s][k] = v], pc = "index" => v = calls[c].val,
           UNCHANGED <<meta, torn>>
    PROVE  BlockInv'
<1>1. /\ c \in Slots /\ calls[c] \in Call
      /\ calls[c].op # "get" /\ calls[c].at = s /\ calls[c].key = k
      /\ calls[c].pc \in {"start", "write", "index"}
  BY LocalCalls DEF StoreInv
<1>2. /\ calls'[c] \in Call /\ calls'[c].pc = pc
      /\ calls'[c].op = calls[c].op /\ calls'[c].at = calls[c].at
      /\ calls'[c].key = calls[c].key /\ calls'[c].val = calls[c].val
      /\ calls'[c].alone = calls[c].alone
      /\ \A d \in Slots \ {c} : calls'[d] = calls[d]
  BY <1>1, BecomeEffect DEF StoreInv
<1>3. \A t, l : \A d : d \in Locally(t, l)' <=>
          /\ d \in Slots /\ calls'[d] \in Call
          /\ calls'[d].op # "get" /\ calls'[d].at = t /\ calls'[d].key = l
          /\ calls'[d].pc \in {"start", "write", "index"}
  BY CallFields DEF Locally, Writing, Active, Shapes
<1>4. \A t, l : Locally(t, l)' = Locally(t, l)
  <2> SUFFICES ASSUME NEW t, NEW l, NEW d PROVE d \in Locally(t, l)' <=> d \in Locally(t, l)
    OBVIOUS
  <2>1. CASE d = c
    BY <1>1, <1>2, <1>3, <2>1, LocalCalls DEF StoreInv
  <2>2. CASE d # c
    BY <1>2, <1>3, <2>2, LocalCalls DEF StoreInv
  <2> QED
    BY <2>1, <2>2
<1>5. /\ blocks'[s][k] = v
      /\ \A t \in Stores, l \in Keys : t # s \/ l # k => blocks'[t][l] = blocks[t][l]
  BY DEF StoreInv, Shapes
<1>6. \A d \in Active' : calls'[d].op = "delete" => calls'[d].val = Missing
  BY <1>1, <1>2, CallFields DEF StoreInv, BlockInv, Shapes, Active
<1>7. ASSUME NEW t \in Stores, NEW l \in Keys
      PROVE  /\ \A d, e \in Locally(t, l) : d # e => ~calls'[d].alone
             /\ \A d \in Locally(t, l) :
                    calls'[d].alone /\ calls'[d].pc = "index" => blocks'[t][l] = calls'[d].val
             /\ (\A d \in Locally(t, l) : calls'[d].pc = "start") /\ <<t, l>> \notin torn
                    => meta[t][l] = blocks'[t][l]
  <2>1. \A d \in Locally(t, l) : d \in Slots
    BY LocalCalls DEF StoreInv
  <2>2. \A d, e \in Locally(t, l) : d # e => ~calls'[d].alone
    BY <1>2, <2>1 DEF StoreInv, BlockInv
  <2>3. CASE t = s /\ l = k
    <3>1. ASSUME NEW d \in Locally(t, l), calls'[d].alone, calls'[d].pc = "index"
          PROVE  blocks'[t][l] = calls'[d].val
      <4>1. d = c
        BY <2>2, <2>3, <3>1
      <4> QED
        BY <1>2, <1>5, <2>3, <3>1, <4>1
    <3>2. ~(calls'[c].pc = "start")
      BY <1>2
    <3> QED
      BY <2>2, <2>3, <3>1, <3>2
  <2>4. CASE t # s \/ l # k
    <3>1. c \notin Locally(t, l)
      BY <1>1, <2>4, LocalCalls DEF StoreInv
    <3> QED
      BY <1>2, <1>5, <2>1, <2>2, <2>4, <3>1 DEF StoreInv, BlockInv
  <2> QED
    BY <2>3, <2>4
<1> QED
  BY <1>4, <1>6, <1>7 DEF BlockInv

\* A read that has been told nothing by anybody.
Fruitless(x) ==
    /\ x.op = "get" /\ x.key \notin Bucketed
    /\ x.pc = "error" \/ (x.pc = "send" /\ x.todo = {})

\* A step by which no handler begins, those that wait go on waiting, and a read
\* that comes to nothing is spoilt; it may spoil all.
LEMMA ReadStep ==
    ASSUME StoreInv, Shapes',
           \A c \in Slots : calls'[c] \in Call =>
               /\ calls[c] \in Call
               /\ calls'[c].op = calls[c].op /\ calls'[c].key = calls[c].key
               /\ calls'[c].by = calls[c].by
               /\ Fruitless(calls'[c]) => Fruitless(calls[c]) \/ ~calls'[c].joined,
           \A c \in Slots : calls[c] \in Call /\ calls[c].pc = "wait" =>
               calls'[c] \in Call /\ calls'[c].pc = "wait",
           \/ /\ \A c \in Slots : calls'[c] \in Call => calls'[c].joined = calls[c].joined
              /\ AllJoined => AllJoined'
           \/ \A c \in Slots : calls'[c] \in Call => ~calls'[c].joined
    PROVE  ReadInv'
<1>1. Active = {c \in Slots : calls[c] \in Call} /\ Active' = {c \in Slots : calls'[c] \in Call}
  BY CallFields DEF StoreInv, Shapes, Active
<1>2. \A c \in Active' : c \in Active
  BY <1>1
<1>3. \A c \in Active' : calls'[c].joined => AllJoined'
  BY <1>1, <1>2 DEF StoreInv, ReadInv
<1>4. ASSUME NEW c \in Active', calls'[c].by # Client
      PROVE  LET b == calls'[c].by IN
             /\ b \in Active' /\ calls'[b].pc = "wait"
             /\ calls'[b].op = calls'[c].op /\ calls'[b].key = calls'[c].key
             /\ calls'[b].joined = calls'[c].joined
  <2> DEFINE b == calls[c].by
  <2>1. c \in Slots /\ calls'[c] \in Call /\ calls[c] \in Call /\ calls'[c].by = b
    BY <1>1, <1>2
  <2>2. /\ b \in Active /\ calls[b].pc = "wait"
        /\ calls[b].op = calls[c].op /\ calls[b].key = calls[c].key
        /\ calls[b].joined = calls[c].joined
    BY <1>2, <1>4, <2>1 DEF StoreInv, ReadInv
  <2> HIDE DEF b
  <2>3. b \in Active' /\ calls'[b].pc = "wait"
    BY <1>1, <2>2
  <2>4. calls'[b].op = calls'[c].op /\ calls'[b].key = calls'[c].key
    BY <1>1, <2>1, <2>2, <2>3
  <2>5. calls'[b].joined = calls'[c].joined
    <3>1. calls'[b] \in Call /\ b \in Slots
      BY <1>1, <2>3
    <3>2. calls'[b].joined \in BOOLEAN /\ calls'[c].joined \in BOOLEAN
      BY <2>1, <3>1, CallFields
    <3> QED
      BY <2>1, <2>2, <3>1, <3>2
  <2> QED
    BY <2>1, <2>3, <2>4, <2>5
<1>5. \A c, d \in Active' : calls'[c].by # Client /\ calls'[c].by = calls'[d].by => c = d
  BY <1>1, <1>2 DEF StoreInv, ReadInv
<1>6. \A c \in Active' : Fruitless(calls'[c]) => ~calls'[c].joined
  BY <1>1, <1>2 DEF StoreInv, ReadInv, Fruitless
<1> QED
  BY <1>3, <1>4, <1>5, <1>6 DEF ReadInv, Fruitless

LEMMA UnmovedInv ==
    ASSUME StoreInv, UNCHANGED <<blocks, meta, calls, torn, puts>>,
           peers' \in [Stores -> SUBSET Stores], AllJoined => AllJoined'
    PROVE  StoreInv'
<1>1. Shapes'
  BY DEF StoreInv, Shapes
<1>2. BlockInv'
  BY DEF StoreInv, BlockInv, Locally, Writing, Active
<1>3. ReadInv'
  BY DEF StoreInv, ReadInv, Active
<1> QED
  BY <1>1, <1>2, <1>3 DEF StoreInv

\* Nothing is written and no handler begins; none leaves between its file and
\* its row, or while it waits.
LEMMA QuietStep ==
    ASSUME StoreInv, Shapes', UNCHANGED <<blocks, meta, torn>>,
           \A c \in Slots : calls'[c] \in Call =>
               /\ calls[c] \in Call
               /\ calls'[c].op = calls[c].op /\ calls'[c].at = calls[c].at
               /\ calls'[c].key = calls[c].key /\ calls'[c].by = calls[c].by
               /\ calls[c].op # "get" => calls'[c].val = calls[c].val
               /\ calls'[c].alone => calls[c].alone
               /\ calls'[c].pc \in {"start", "write", "index"} => calls'[c].pc = calls[c].pc
               /\ Fruitless(calls'[c]) => Fruitless(calls[c]) \/ ~calls'[c].joined,
           \A c \in Slots : calls[c] \in Call /\ calls[c].pc \in {"write", "index", "wait"} =>
               calls'[c] \in Call /\ calls'[c].pc = calls[c].pc,
           \/ /\ \A c \in Slots : calls'[c] \in Call => calls'[c].joined = calls[c].joined
              /\ AllJoined => AllJoined'
           \/ \A c \in Slots : calls'[c] \in Call => ~calls'[c].joined
    PROVE  StoreInv'
<1>1. \A s, k : \A c : c \in Locally(s, k)' <=>
          /\ c \in Slots /\ calls'[c] \in Call
          /\ calls'[c].op # "get" /\ calls'[c].at = s /\ calls'[c].key = k
          /\ calls'[c].pc \in {"start", "write", "index"}
  BY CallFields DEF Locally, Writing, Active, Shapes
<1>2. \A s \in Stores, k \in Keys : \A c \in Locally(s, k)' :
          /\ c \in Locally(s, k)
          /\ calls'[c].pc = calls[c].pc /\ calls'[c].val = calls[c].val
          /\ calls'[c].alone => calls[c].alone
  BY <1>1, LocalCalls DEF StoreInv
<1>3. \A s \in Stores, k \in Keys : \A c \in Locally(s, k) :
          \/ c \in Locally(s, k)' /\ calls'[c].pc = calls[c].pc
          \/ calls[c].pc = "start"
  BY <1>1, LocalCalls DEF StoreInv
<1>4. \A c \in Slots : calls'[c] \in Call /\ calls'[c].op = "delete" => calls'[c].val = Missing
  BY ActiveCalls DEF StoreInv, BlockInv
<1>5. BlockInv'
  BY <1>2, <1>3, <1>4, BlockStep
<1>6. ReadInv'
  BY ReadStep
<1> QED
  BY <1>5, <1>6 DEF StoreInv

\* The same for a step of one handler that leaves the others alone.
LEMMA OwnStep ==
    ASSUME StoreInv, Shapes', UNCHANGED <<blocks, meta, torn, peers>>,
           NEW c \in Slots, calls[c] \in Call, calls[c].pc \notin {"write", "index", "wait"},
           \A d \in Slots \ {c} : calls'[d] = calls[d],
           \/ calls'[c] = Free
           \/ /\ calls'[c] \in Call
              /\ calls'[c].op = calls[c].op /\ calls'[c].at = calls[c].at
              /\ calls'[c].key = calls[c].key /\ calls'[c].by = calls[c].by
              /\ calls[c].op # "get" => calls'[c].val = calls[c].val
              /\ calls'[c].alone => calls[c].alone
              /\ calls'[c].joined = calls[c].joined
              /\ calls'[c].pc \in {"start", "write", "index"} => calls'[c].pc = calls[c].pc
              /\ Fruitless(calls'[c]) => Fruitless(calls[c]) \/ ~calls'[c].joined
    PROVE  StoreInv'
<1>1. \A d \in Slots : calls'[d] \in Call =>
          /\ calls[d] \in Call
          /\ calls'[d].op = calls[d].op /\ calls'[d].at = calls[d].at
          /\ calls'[d].key = calls[d].key /\ calls'[d].by = calls[d].by
          /\ calls[d].op # "get" => calls'[d].val = calls[d].val
          /\ calls'[d].alone => calls[d].alone
          /\ calls'[d].pc \in {"start", "write", "index"} => calls'[d].pc = calls[d].pc
          /\ Fruitless(calls'[d]) => Fruitless(calls[d]) \/ ~calls'[d].joined
          /\ calls'[d].joined = calls[d].joined
  BY CallFields
<1>2. \A d \in Slots : calls[d] \in Call /\ calls[d].pc \in {"write", "index", "wait"} =>
          calls'[d] \in Call /\ calls'[d].pc = calls[d].pc
  OBVIOUS
<1>3. AllJoined => AllJoined'
  BY DEF AllJoined
<1> QED
  BY <1>1, <1>2, <1>3, QuietStep

LEMMA RunCall ==
    ASSUME StoreInv, NEW c \in Slots, calls[c] # Free
    PROVE  calls[c] \in Call
BY DEF StoreInv, Shapes

LEMMA OpenBlockInv ==
    ASSUME StoreInv, NEW c \in Slots, OpenBlock(c)
    PROVE  StoreInv'
<1>1. /\ calls[c] \in Call /\ calls[c].op = "put" /\ calls[c].pc = "start"
      /\ UNCHANGED <<meta, buckets, peers, puts, torn, apart, callFaults>>
  BY RunCall DEF OpenBlock, Run, Active
<1>2. calls[c].at \in Stores /\ calls[c].key \in Keys
  BY <1>1, CallFields
<1>3. CASE Become(c, "error") /\ UNCHANGED blocks
  <2>1. Shapes'
    BY <1>1, <1>3, BecomeEffect DEF StoreInv, Shapes
  <2> QED
    BY <1>1, <1>3, <2>1, BecomeEffect, OwnStep DEF StoreInv, Fruitless
<1>4. CASE /\ blocks' = [blocks EXCEPT ![calls[c].at][calls[c].key] = Torn]
           /\ Become(c, "write")
  <2>1. Torn \in Bytes
    BY ObjectStoreConstants DEF Torn, Bytes, Missing
  <2>2. Shapes'
    BY <1>1, <1>2, <1>4, <2>1, BecomeEffect DEF StoreInv, Shapes
  <2>3. c \in Locally(calls[c].at, calls[c].key)
    BY <1>1, LocalCalls DEF StoreInv
  <2>4. BlockInv'
    BY <1>1, <1>2, <1>4, <2>2, <2>3, LocalStep
  <2>5. ReadInv'
    <3>1. AllJoined => AllJoined'
      BY <1>1 DEF AllJoined
    <3> QED
      BY <1>1, <1>4, <2>2, <3>1, BecomeEffect, ReadStep, CallFields DEF StoreInv, Fruitless
  <2> QED
    BY <2>2, <2>4, <2>5 DEF StoreInv
<1> QED
  BY <1>3, <1>4 DEF OpenBlock

LEMMA WriteBlockInv ==
    ASSUME StoreInv, NEW c \in Slots, WriteBlock(c)
    PROVE  StoreInv'
<1>1. /\ calls[c] \in Call /\ calls[c].op = "put" /\ calls[c].pc = "write"
      /\ blocks' = [blocks EXCEPT ![calls[c].at][calls[c].key] = calls[c].val]
      /\ Become(c, "index")
      /\ UNCHANGED <<meta, buckets, peers, puts, torn, apart, callFaults>>
  BY RunCall DEF WriteBlock, Run, Active
<1>2. calls[c].at \in Stores /\ calls[c].key \in Keys /\ calls[c].val \in Bytes
  BY <1>1, CallFields
<1>3. Shapes'
  BY <1>1, <1>2, BecomeEffect DEF StoreInv, Shapes
<1>4. c \in Locally(calls[c].at, calls[c].key)
  BY <1>1, LocalCalls DEF StoreInv
<1>5. BlockInv'
  BY <1>1, <1>2, <1>3, <1>4, LocalStep
<1>6. ReadInv'
  <2>1. AllJoined => AllJoined'
    BY <1>1 DEF AllJoined
  <2> QED
    BY <1>1, <1>3, <2>1, BecomeEffect, ReadStep, CallFields DEF StoreInv, Fruitless
<1> QED
  BY <1>3, <1>5, <1>6 DEF StoreInv

LEMMA RemoveBlockInv ==
    ASSUME StoreInv, NEW c \in Slots, RemoveBlock(c)
    PROVE  StoreInv'
<1>1. /\ calls[c] \in Call /\ calls[c].op = "delete" /\ calls[c].pc = "start"
      /\ UNCHANGED <<meta, buckets, peers, puts, torn, apart, callFaults>>
  BY RunCall DEF RemoveBlock, Run, Active
<1>2. calls[c].at \in Stores /\ calls[c].key \in Keys
  BY <1>1, CallFields
<1>3. CASE Become(c, "error") /\ UNCHANGED blocks
  <2>1. Shapes'
    BY <1>1, <1>3, BecomeEffect DEF StoreInv, Shapes
  <2> QED
    BY <1>1, <1>3, <2>1, BecomeEffect, OwnStep DEF StoreInv, Fruitless
<1>4. CASE /\ blocks' = [blocks EXCEPT ![calls[c].at][calls[c].key] = Missing]
           /\ Become(c, "index")
  <2>1. Missing \in Bytes
    BY ObjectStoreConstants DEF Torn, Bytes, Missing
  <2>2. Shapes'
    BY <1>1, <1>2, <1>4, <2>1, BecomeEffect DEF StoreInv, Shapes
  <2>3. c \in Locally(calls[c].at, calls[c].key)
    BY <1>1, LocalCalls DEF StoreInv
  <2>4. calls[c].val = Missing
    BY <1>1, ActiveCalls DEF StoreInv, BlockInv
  <2>5. BlockInv'
    BY <1>1, <1>2, <1>4, <2>2, <2>3, <2>4, LocalStep
  <2>6. ReadInv'
    <3>1. AllJoined => AllJoined'
      BY <1>1 DEF AllJoined
    <3> QED
      BY <1>1, <1>4, <2>2, <3>1, BecomeEffect, ReadStep, CallFields DEF StoreInv, Fruitless
  <2> QED
    BY <2>2, <2>5, <2>6 DEF StoreInv
<1> QED
  BY <1>3, <1>4 DEF RemoveBlock

LEMMA IndexEffect ==
    ASSUME StoreInv, NEW c \in Slots, Index(c)
    PROVE  LET call == calls[c] IN
           /\ call \in Call /\ call.op # "get" /\ call.pc = "index"
           /\ \/ /\ meta' = [meta EXCEPT ![call.at][call.key] = call.val]
                 /\ torn' = IF call.alone THEN torn \ {<<call.at, call.key>>}
                            ELSE torn \cup {<<call.at, call.key>>}
                 /\ UNCHANGED callFaults
              \/ /\ call.op = "delete"
                 /\ callFaults < MaxFaults /\ callFaults' = callFaults + 1
                 /\ torn' = torn \cup {<<call.at, call.key>>}
                 /\ UNCHANGED meta
           /\ UNCHANGED <<blocks, buckets, keyed, peers, puts, apart>>
           /\ calls' \in [Slots -> Call \cup {Free}]
           /\ \A d \in Slots \ {c} : calls'[d] = calls[d]
           /\ calls'[c] \in Call /\ calls'[c].pc = "send"
           /\ calls'[c].op = call.op /\ calls'[c].at = call.at /\ calls'[c].key = call.key
           /\ calls'[c].val = call.val /\ calls'[c].by = call.by /\ calls'[c].joined = call.joined
           /\ calls'[c].clean /\ call.key \notin Bucketed
                  => call.clean /\ calls'[c].todo = Stores \ {call.at}
<1> DEFINE call == calls[c]
<1>1. PICK T \in WritePeers(call.at) :
          calls' = [calls EXCEPT
                       ![c] = [call EXCEPT !.pc = "send", !.todo = Told(call, T),
                                           !.clean = @ /\ T = Stores \ {call.at}]]
  BY DEF Index
<1>2. /\ call \in Call /\ call.op # "get" /\ call.pc = "index"
      /\ \/ /\ meta' = [meta EXCEPT ![call.at][call.key] = call.val]
            /\ torn' = IF call.alone THEN torn \ {<<call.at, call.key>>}
                       ELSE torn \cup {<<call.at, call.key>>}
            /\ UNCHANGED callFaults
         \/ /\ call.op = "delete"
            /\ callFaults < MaxFaults /\ callFaults' = callFaults + 1
            /\ torn' = torn \cup {<<call.at, call.key>>}
            /\ UNCHANGED meta
      /\ UNCHANGED <<blocks, buckets, keyed, peers, puts, apart>>
  BY RunCall DEF Index, Run, Active, Row
<1> DEFINE b == call.clean /\ T = Stores \ {call.at}
           U == Told(call, T)
           x == [call EXCEPT !.pc = "send", !.todo = U, !.clean = b]
<1>3. call.at \in Stores /\ call.clean \in BOOLEAN
  BY <1>2, CallFields
<1>4. b \in BOOLEAN /\ U \in SUBSET Stores
  <2>1. T \in SUBSET peers[call.at]
    BY <1>1 DEF WritePeers
  <2> QED
    BY <1>3, <2>1 DEF Told, StoreInv, Shapes
<1>5. b /\ call.key \notin Bucketed => call.clean /\ U = Stores \ {call.at}
  BY DEF Told
<1>6. calls' = [calls EXCEPT ![c] = x]
  BY <1>1
<1> HIDE DEF b, U, call
<1>7. /\ x \in Call /\ x.pc = "send"
      /\ x.op = call.op /\ x.at = call.at /\ x.key = call.key /\ x.val = call.val
      /\ x.by = call.by /\ x.joined = call.joined /\ x.todo = U /\ x.clean = b
  BY <1>2, <1>4 DEF Call
<1> HIDE DEF x
<1>8. /\ calls'[c] = x /\ \A d \in Slots \ {c} : calls'[d] = calls[d]
      /\ calls' \in [Slots -> Call \cup {Free}]
  BY <1>6, <1>7 DEF StoreInv, Shapes
<1> QED
  BY <1>2, <1>5, <1>7, <1>8 DEF call

LEMMA IndexInv ==
    ASSUME StoreInv, NEW c \in Slots, Index(c)
    PROVE  StoreInv'
<1> DEFINE call == calls[c]
           s == call.at
           k == call.key
<1>1. /\ call \in Call /\ call.op # "get" /\ call.pc = "index"
      /\ \/ /\ meta' = [meta EXCEPT ![s][k] = call.val]
            /\ torn' = IF call.alone THEN torn \ {<<s, k>>} ELSE torn \cup {<<s, k>>}
         \/ /\ torn' = torn \cup {<<s, k>>}
            /\ UNCHANGED meta
      /\ UNCHANGED <<blocks, buckets, peers, puts, apart>>
  BY IndexEffect
<1>2. s \in Stores /\ k \in Keys /\ call.val \in Bytes
  BY <1>1, CallFields
<1>3. /\ calls'[c] \in Call /\ calls'[c].pc = "send"
      /\ calls'[c].op = call.op /\ calls'[c].key = call.key /\ calls'[c].val = call.val
      /\ calls'[c].by = call.by /\ calls'[c].joined = call.joined
      /\ \A d \in Slots \ {c} : calls'[d] = calls[d]
      /\ calls' \in [Slots -> Call \cup {Free}]
  BY IndexEffect
<1>4. Shapes'
  <2>1. CASE meta' = [meta EXCEPT ![s][k] = call.val]
    BY <1>1, <1>2, <1>3, <2>1 DEF StoreInv, Shapes
  <2>2. CASE UNCHANGED meta
    BY <1>1, <1>3, <2>2 DEF StoreInv, Shapes
  <2> QED
    BY <1>1, <2>1, <2>2
<1>5. c \in Locally(s, k)
  BY <1>1, LocalCalls DEF StoreInv
<1> HIDE DEF call, s, k
<1>6. \A t, l : \A d : d \in Locally(t, l)' <=>
          /\ d \in Slots /\ calls'[d] \in Call
          /\ calls'[d].op # "get" /\ calls'[d].at = t /\ calls'[d].key = l
          /\ calls'[d].pc \in {"start", "write", "index"}
  BY <1>4, CallFields DEF Locally, Writing, Active, Shapes
<1>7. \A t, l : Locally(t, l)' = Locally(t, l) \ {c}
  <2> SUFFICES ASSUME NEW t, NEW l, NEW d
               PROVE  d \in Locally(t, l)' <=> d \in Locally(t, l) /\ d # c
    OBVIOUS
  <2>1. CASE d = c
    BY <1>3, <1>6, <2>1
  <2>2. CASE d # c
    BY <1>3, <1>6, <2>2, LocalCalls DEF StoreInv
  <2> QED
    BY <2>1, <2>2
<1>8. BlockInv'
  <2>1. \A d \in Active' : calls'[d].op = "delete" => calls'[d].val = Missing
    BY <1>1, <1>3, CallFields DEF StoreInv, BlockInv, Shapes, Active, call
  <2>2. ASSUME NEW t \in Stores, NEW l \in Keys
        PROVE  /\ \A d, e \in Locally(t, l) \ {c} : d # e => ~calls'[d].alone
               /\ \A d \in Locally(t, l) \ {c} :
                      calls'[d].alone /\ calls'[d].pc = "index" => blocks[t][l] = calls'[d].val
               /\ (\A d \in Locally(t, l) \ {c} : calls'[d].pc = "start") /\ <<t, l>> \notin torn'
                      => meta'[t][l] = blocks[t][l]
    <3>1. \A d \in Locally(t, l) \ {c} : calls'[d] = calls[d]
      BY <1>3, LocalCalls DEF StoreInv
    <3>2. /\ \A d, e \in Locally(t, l) : d # e => ~calls[d].alone
          /\ \A d \in Locally(t, l) :
                 calls[d].alone /\ calls[d].pc = "index" => blocks[t][l] = calls[d].val
          /\ (\A d \in Locally(t, l) : calls[d].pc = "start") /\ <<t, l>> \notin torn
                 => meta[t][l] = blocks[t][l]
      BY DEF StoreInv, BlockInv
    <3>3. CASE t = s /\ l = k
      <4>1. <<t, l>> \notin torn' => call.alone
        BY <1>1, <3>3
      <4>2. call.alone => blocks[t][l] = call.val
        BY <1>1, <1>5, <3>2, <3>3 DEF call
      <4>3. <<t, l>> \notin torn' => meta'[t][l] = call.val
        BY <1>1, <1>2, <3>3 DEF StoreInv, Shapes
      <4> QED
        BY <3>1, <3>2, <4>1, <4>2, <4>3
    <3>4. CASE t # s \/ l # k
      <4>1. c \notin Locally(t, l)
        BY <3>4, LocalCalls DEF StoreInv, s, k, call
      <4>2. <<t, l>> \in torn' <=> <<t, l>> \in torn
        BY <1>1, <3>4
      <4>3. meta'[t][l] = meta[t][l]
        BY <1>1, <1>2, <3>4 DEF StoreInv, Shapes
      <4> QED
        BY <3>1, <3>2, <4>1, <4>2, <4>3
    <3> QED
      BY <3>3, <3>4
  <2> QED
    BY <1>1, <1>7, <2>1, <2>2 DEF BlockInv
<1>9. ReadInv'
  <2>1. AllJoined => AllJoined'
    BY <1>1 DEF AllJoined
  <2>2. ~Fruitless(calls'[c]) /\ calls[c].pc # "wait" /\ calls[c] \in Call
    BY <1>1, <1>3 DEF Fruitless, call
  <2> QED
    BY <1>3, <1>4, <2>1, <2>2, ReadStep, CallFields DEF call
<1> QED
  BY <1>4, <1>8, <1>9 DEF StoreInv

LEMMA SpoiledEffect ==
    ASSUME NEW f \in [Slots -> Call \cup {Free}], NEW k
    PROVE  LET g == Spoiled(f, k) IN
           /\ g \in [Slots -> Call \cup {Free}]
           /\ \A c \in Slots :
                  /\ f[c] = Free => g[c] = Free
                  /\ f[c] \in Call =>
                        /\ g[c] \in Call /\ ~g[c].joined
                        /\ g[c].op = f[c].op /\ g[c].at = f[c].at /\ g[c].key = f[c].key
                        /\ g[c].val = f[c].val /\ g[c].by = f[c].by /\ g[c].todo = f[c].todo
                        /\ g[c].pc = f[c].pc /\ g[c].alone = f[c].alone
                        /\ g[c].clean => f[c].clean /\ f[c].key # k
<1> DEFINE g == Spoiled(f, k)
<1>1. \A x \in Call, b \in BOOLEAN :
          LET y == [x EXCEPT !.clean = b, !.joined = FALSE] IN
          /\ y \in Call /\ ~y.joined /\ y.clean = b
          /\ y.op = x.op /\ y.at = x.at /\ y.key = x.key /\ y.val = x.val /\ y.by = x.by
          /\ y.todo = x.todo /\ y.pc = x.pc /\ y.alone = x.alone
  BY DEF Call
<1>2. ASSUME NEW c \in Slots, f[c] \in Call
      PROVE  /\ g[c] \in Call /\ ~g[c].joined
             /\ g[c].op = f[c].op /\ g[c].at = f[c].at /\ g[c].key = f[c].key
             /\ g[c].val = f[c].val /\ g[c].by = f[c].by /\ g[c].todo = f[c].todo
             /\ g[c].pc = f[c].pc /\ g[c].alone = f[c].alone
             /\ g[c].clean => f[c].clean /\ f[c].key # k
  <2> DEFINE b == f[c].clean /\ f[c].key # k
             x == f[c]
  <2>1. b \in BOOLEAN
    OBVIOUS
  <2>2. g[c] = [x EXCEPT !.clean = b, !.joined = FALSE]
    BY <1>2, CallFields DEF Spoiled
  <2>3. x \in Call
    BY <1>2
  <2> HIDE DEF b, x, g
  <2>4. LET y == [x EXCEPT !.clean = b, !.joined = FALSE] IN
        /\ y \in Call /\ ~y.joined /\ y.clean = b
        /\ y.op = x.op /\ y.at = x.at /\ y.key = x.key /\ y.val = x.val /\ y.by = x.by
        /\ y.todo = x.todo /\ y.pc = x.pc /\ y.alone = x.alone
    BY <1>1, <2>1, <2>3
  <2> QED
    BY <2>2, <2>4 DEF x, b
<1>3. \A c \in Slots : f[c] = Free => g[c] = Free
  BY DEF Spoiled
<1>4. g \in [Slots -> Call \cup {Free}]
  <2>1. \A c \in Slots : g[c] \in Call \cup {Free}
    BY <1>2, <1>3
  <2>2. g = [c \in Slots |-> IF f[c] = Free THEN Free
                   ELSE [f[c] EXCEPT !.clean = @ /\ f[c].key # k, !.joined = FALSE]]
    BY DEF Spoiled
  <2> HIDE DEF g
  <2> QED
    BY <2>1, <2>2
<1> QED
  BY <1>2, <1>3, <1>4

\* A step of a handler that fails somewhere: nobody knows any more whether its
\* object is everywhere, or whether a read has asked all.
Spoils(c) ==
    /\ calls[c] \in Call
    /\ calls' \in [Slots -> Call \cup {Free}]
    /\ \A d \in Slots : calls[d] \in Call => calls'[d] \in Call
    /\ \A d \in Slots : calls'[d] \in Call =>
           /\ calls[d] \in Call
           /\ calls'[d].op = calls[d].op /\ calls'[d].at = calls[d].at
           /\ calls'[d].key = calls[d].key /\ calls'[d].by = calls[d].by
           /\ calls'[d].val = calls[d].val /\ ~calls'[d].joined
           /\ calls'[d].alone => calls[d].alone
           /\ calls'[d].clean => calls[d].clean /\ calls[d].key # calls[c].key
           /\ d # c => calls'[d].pc = calls[d].pc /\ calls'[d].todo = calls[d].todo

LEMMA SpoiledStep ==
    ASSUME StoreInv, NEW c \in Slots, calls[c] \in Call, NEW x \in Call,
           x.op = calls[c].op, x.at = calls[c].at, x.key = calls[c].key, x.val = calls[c].val,
           x.by = calls[c].by, x.clean = calls[c].clean, x.alone => calls[c].alone,
           calls' = Spoiled([calls EXCEPT ![c] = x], calls[c].key)
    PROVE  /\ Spoils(c)
           /\ calls'[c] \in Call /\ calls'[c].pc = x.pc /\ calls'[c].alone = x.alone
<1> DEFINE f == [calls EXCEPT ![c] = x]
<1>1. calls' = Spoiled(f, calls[c].key)
  OBVIOUS
<1>2. /\ f \in [Slots -> Call \cup {Free}] /\ f[c] = x
      /\ \A d \in Slots \ {c} : f[d] = calls[d]
  BY DEF StoreInv, Shapes
<1> HIDE DEF f
<1>3. \A d \in Slots : f[d] \in Call <=> calls[d] \in Call
  BY <1>2
<1>4. \A d \in Slots : f[d] \in Call =>
          /\ f[d].op = calls[d].op /\ f[d].at = calls[d].at /\ f[d].key = calls[d].key
          /\ f[d].val = calls[d].val /\ f[d].by = calls[d].by
          /\ f[d].alone => calls[d].alone
          /\ f[d].clean = calls[d].clean
          /\ d # c => f[d].pc = calls[d].pc /\ f[d].todo = calls[d].todo
  <2> SUFFICES ASSUME NEW d \in Slots
               PROVE  /\ f[d].op = calls[d].op /\ f[d].at = calls[d].at /\ f[d].key = calls[d].key
                      /\ f[d].val = calls[d].val /\ f[d].by = calls[d].by
                      /\ f[d].alone => calls[d].alone
                      /\ f[d].clean = calls[d].clean
                      /\ d # c => f[d].pc = calls[d].pc /\ f[d].todo = calls[d].todo
    OBVIOUS
  <2>1. CASE d = c
    BY <1>2, <2>1
  <2>2. CASE d # c
    BY <1>2, <2>2
  <2> QED
    BY <2>1, <2>2
<1>5. \A d \in Slots : calls'[d] \in Call => f[d] \in Call
  BY <1>1, <1>2, SpoiledEffect, CallFields
<1>6. calls' \in [Slots -> Call \cup {Free}]
  <2>1. \A k : Spoiled(f, k) \in [Slots -> Call \cup {Free}]
    BY <1>2, SpoiledEffect
  <2> QED
    BY <1>1, <2>1
<1>7. \A d \in Slots : calls[d] \in Call => calls'[d] \in Call
  <2>1. \A d \in Slots : f[d] \in Call => calls'[d] \in Call
    BY <1>1, <1>2, SpoiledEffect
  <2> QED
    BY <1>3, <2>1
<1>8. \A d \in Slots : calls'[d] \in Call =>
          /\ calls[d] \in Call
          /\ calls'[d].op = calls[d].op /\ calls'[d].at = calls[d].at
          /\ calls'[d].key = calls[d].key /\ calls'[d].by = calls[d].by
          /\ calls'[d].val = calls[d].val /\ ~calls'[d].joined
          /\ calls'[d].alone => calls[d].alone
          /\ calls'[d].clean => calls[d].clean /\ calls[d].key # calls[c].key
          /\ d # c => calls'[d].pc = calls[d].pc /\ calls'[d].todo = calls[d].todo
  BY <1>1, <1>2, <1>3, <1>4, <1>5, SpoiledEffect
<1>9. calls'[c].pc = x.pc /\ calls'[c].alone = x.alone
  BY <1>1, <1>2, SpoiledEffect
<1> QED
  BY <1>6, <1>7, <1>8, <1>9 DEF Spoils

\* Such a step keeps the invariant when the handler stays where it is, fails
\* before it has begun, goes on with a file that is not written while it counts
\* as not alone, or leaves its file behind without the row.
LEMMA FailInv ==
    ASSUME StoreInv, NEW c \in Slots, Spoils(c), UNCHANGED <<blocks, meta, peers, puts>>,
           torn \subseteq torn',
           \/ calls'[c].pc = calls[c].pc
           \/ calls[c].pc = "start" /\ calls'[c].pc \in {"send", "error"}
           \/ calls[c].pc = "write" /\ calls'[c].pc = "index" /\ ~calls'[c].alone
           \/ /\ calls[c].pc = "index" /\ calls'[c].pc = "error"
              /\ <<calls[c].at, calls[c].key>> \in torn'
    PROVE  StoreInv'
<1>1. Shapes'
  BY DEF Spoils, StoreInv, Shapes
<1>2. \A s, k : \A d : d \in Locally(s, k)' <=>
          /\ d \in Slots /\ calls'[d] \in Call
          /\ calls'[d].op # "get" /\ calls'[d].at = s /\ calls'[d].key = k
          /\ calls'[d].pc \in {"start", "write", "index"}
  BY <1>1, CallFields DEF Locally, Writing, Active, Shapes
<1>3. ASSUME NEW s \in Stores, NEW k \in Keys, NEW d \in Locally(s, k)'
      PROVE  /\ d \in Locally(s, k)
             /\ calls'[d].val = calls[d].val
             /\ calls'[d].alone => calls[d].alone /\ calls'[d].pc = calls[d].pc
  <2>1. /\ d \in Slots /\ calls'[d] \in Call
        /\ calls'[d].op # "get" /\ calls'[d].at = s /\ calls'[d].key = k
        /\ calls'[d].pc \in {"start", "write", "index"}
    BY <1>2, <1>3
  <2>2. d # c => calls'[d].pc = calls[d].pc
    BY <2>1 DEF Spoils
  <2>3. calls[d].pc \in {"start", "write", "index"}
    BY <2>1, <2>2
  <2>4. d \in Locally(s, k)
    BY <2>1, <2>3, LocalCalls DEF StoreInv, Spoils
  <2>5. calls'[d].alone => calls'[d].pc = calls[d].pc
    BY <2>1, <2>2
  <2> QED
    BY <2>1, <2>4, <2>5 DEF Spoils
<1>4. ASSUME NEW s \in Stores, NEW k \in Keys, NEW d \in Locally(s, k)
      PROVE  \/ d \in Locally(s, k)' /\ calls'[d].pc # "start"
             \/ d \in Locally(s, k)' /\ calls'[d].pc = calls[d].pc
             \/ calls[d].pc = "start"
             \/ <<s, k>> \in torn'
  <2>1. /\ d \in Slots /\ calls[d] \in Call
        /\ calls[d].op # "get" /\ calls[d].at = s /\ calls[d].key = k
        /\ calls[d].pc \in {"start", "write", "index"}
    BY <1>4, LocalCalls DEF StoreInv
  <2>2. /\ calls'[d] \in Call /\ calls'[d].op # "get" /\ calls'[d].at = s /\ calls'[d].key = k
        /\ d # c => calls'[d].pc = calls[d].pc
    BY <2>1 DEF Spoils
  <2>3. CASE calls'[d].pc = calls[d].pc
    BY <1>2, <2>1, <2>2, <2>3
  <2>4. CASE d = c /\ calls'[d].pc = "index"
    BY <1>2, <2>1, <2>2, <2>4
  <2>5. CASE d = c /\ <<calls[c].at, calls[c].key>> \in torn'
    BY <2>1, <2>5
  <2> QED
    BY <2>2, <2>3, <2>4, <2>5
<1>5. \A d \in Slots : calls'[d] \in Call /\ calls'[d].op = "delete" => calls'[d].val = Missing
  BY ActiveCalls DEF Spoils, StoreInv, BlockInv
<1>6. BlockInv'
  BY <1>1, <1>3, <1>4, <1>5, BlockStep
<1>7. \A d \in Slots : calls[d] \in Call /\ calls[d].pc = "wait" =>
          calls'[d] \in Call /\ calls'[d].pc = "wait"
  BY DEF Spoils
<1>8. ReadInv'
  BY <1>1, <1>7, ReadStep DEF Spoils
<1> QED
  BY <1>1, <1>6, <1>8 DEF StoreInv

LEMMA CallLostEffect ==
    ASSUME StoreInv, NEW c \in Slots, CallLost(c)
    PROVE  /\ Spoils(c) /\ calls'[c].pc = calls[c].pc
           /\ UNCHANGED <<blocks, meta, buckets, keyed, peers, puts, torn>>
           /\ apart' = IF calls[c].op = "get" THEN apart ELSE apart \cup {calls[c].key}
<1>1. /\ calls[c] \in Call
      /\ UNCHANGED <<blocks, meta, buckets, keyed, peers, puts, torn>>
      /\ apart' = IF calls[c].op = "get" THEN apart ELSE apart \cup {calls[c].key}
  BY RunCall DEF CallLost, Active, Spoil
<1>2. PICK t \in calls[c].todo :
          calls' = Spoiled([calls EXCEPT ![c].todo = @ \ {t}], calls[c].key)
  BY DEF CallLost, Spoil
<1> DEFINE x == [calls[c] EXCEPT !.todo = calls[c].todo \ {t}]
<1>3. /\ x \in Call
      /\ x.op = calls[c].op /\ x.at = calls[c].at /\ x.key = calls[c].key
      /\ x.val = calls[c].val /\ x.by = calls[c].by /\ x.pc = calls[c].pc
      /\ x.alone = calls[c].alone /\ x.clean = calls[c].clean
  <2>1. calls[c].todo \ {t} \in SUBSET Stores
    BY <1>1, CallFields
  <2> QED
    BY <1>1, <2>1 DEF Call
<1>4. calls' = Spoiled([calls EXCEPT ![c] = x], calls[c].key)
  BY <1>2
<1> HIDE DEF x
<1> QED
  BY <1>1, <1>3, <1>4, SpoiledStep

LEMMA CallLostInv ==
    ASSUME StoreInv, NEW c \in Slots, CallLost(c)
    PROVE  StoreInv'
BY CallLostEffect, FailInv

LEMMA OpenFailsEffect ==
    ASSUME StoreInv, NEW c \in Slots, OpenFails(c)
    PROVE  /\ Spoils(c) /\ calls[c].pc = "start" /\ calls'[c].pc = "error"
           /\ UNCHANGED <<blocks, meta, buckets, keyed, peers, puts, torn>>
           /\ apart' = IF calls[c].op = "get" THEN apart ELSE apart \cup {calls[c].key}
<1>1. /\ calls[c] \in Call /\ calls[c].pc = "start"
      /\ UNCHANGED <<blocks, meta, buckets, keyed, peers, puts, torn>>
      /\ apart' = IF calls[c].op = "get" THEN apart ELSE apart \cup {calls[c].key}
      /\ calls' = Spoiled([calls EXCEPT ![c].pc = "error"], calls[c].key)
  BY RunCall DEF OpenFails, Run, Active, Spoil
<1> DEFINE x == [calls[c] EXCEPT !.pc = "error"]
<1>2. /\ x \in Call /\ x.pc = "error"
      /\ x.op = calls[c].op /\ x.at = calls[c].at /\ x.key = calls[c].key
      /\ x.val = calls[c].val /\ x.by = calls[c].by
      /\ x.alone = calls[c].alone /\ x.clean = calls[c].clean
  BY <1>1 DEF Call
<1>3. calls' = Spoiled([calls EXCEPT ![c] = x], calls[c].key)
  BY <1>1
<1> HIDE DEF x
<1> QED
  BY <1>1, <1>2, <1>3, SpoiledStep

LEMMA OpenFailsInv ==
    ASSUME StoreInv, NEW c \in Slots, OpenFails(c)
    PROVE  StoreInv'
BY OpenFailsEffect, FailInv

LEMMA WriteFailsEffect ==
    ASSUME StoreInv, NEW c \in Slots, WriteFails(c)
    PROVE  /\ Spoils(c) /\ calls[c].pc = "write" /\ calls'[c].pc = "index" /\ ~calls'[c].alone
           /\ UNCHANGED <<blocks, meta, buckets, keyed, peers, puts, torn>>
           /\ apart' = IF calls[c].op = "get" THEN apart ELSE apart \cup {calls[c].key}
<1>1. /\ calls[c] \in Call /\ calls[c].pc = "write"
      /\ UNCHANGED <<blocks, meta, buckets, keyed, peers, puts, torn>>
      /\ apart' = IF calls[c].op = "get" THEN apart ELSE apart \cup {calls[c].key}
      /\ calls' = Spoiled([calls EXCEPT ![c].pc = "index", ![c].alone = FALSE], calls[c].key)
  BY RunCall DEF WriteFails, Run, Active, Spoil
<1> DEFINE x == [calls[c] EXCEPT !.pc = "index", !.alone = FALSE]
<1>2. /\ x \in Call /\ x.pc = "index" /\ ~x.alone
      /\ x.op = calls[c].op /\ x.at = calls[c].at /\ x.key = calls[c].key
      /\ x.val = calls[c].val /\ x.by = calls[c].by /\ x.clean = calls[c].clean
  BY <1>1 DEF Call
<1>3. [calls EXCEPT ![c].pc = "index", ![c].alone = FALSE] = [calls EXCEPT ![c] = x]
  BY DEF StoreInv, Shapes
<1>4. calls' = Spoiled([calls EXCEPT ![c] = x], calls[c].key)
  BY <1>1, <1>3
<1> HIDE DEF x
<1> QED
  BY <1>1, <1>2, <1>4, SpoiledStep

LEMMA WriteFailsInv ==
    ASSUME StoreInv, NEW c \in Slots, WriteFails(c)
    PROVE  StoreInv'
BY WriteFailsEffect, FailInv

LEMMA UpsertFailsEffect ==
    ASSUME StoreInv, NEW c \in Slots, UpsertFails(c)
    PROVE  /\ Spoils(c) /\ calls[c].pc = "index" /\ calls'[c].pc = "error"
           /\ torn' = torn \cup {<<calls[c].at, calls[c].key>>}
           /\ UNCHANGED <<blocks, meta, buckets, keyed, peers, puts>>
           /\ apart' = IF calls[c].op = "get" THEN apart ELSE apart \cup {calls[c].key}
<1>1. /\ calls[c] \in Call /\ calls[c].pc = "index"
      /\ torn' = torn \cup {<<calls[c].at, calls[c].key>>}
      /\ UNCHANGED <<blocks, meta, buckets, keyed, peers, puts>>
      /\ apart' = IF calls[c].op = "get" THEN apart ELSE apart \cup {calls[c].key}
      /\ calls' = Spoiled([calls EXCEPT ![c].pc = "error"], calls[c].key)
  BY RunCall DEF UpsertFails, Run, Active, Spoil
<1> DEFINE x == [calls[c] EXCEPT !.pc = "error"]
<1>2. /\ x \in Call /\ x.pc = "error"
      /\ x.op = calls[c].op /\ x.at = calls[c].at /\ x.key = calls[c].key
      /\ x.val = calls[c].val /\ x.by = calls[c].by
      /\ x.alone = calls[c].alone /\ x.clean = calls[c].clean
  BY <1>1 DEF Call
<1>3. calls' = Spoiled([calls EXCEPT ![c] = x], calls[c].key)
  BY <1>1
<1> HIDE DEF x
<1> QED
  BY <1>1, <1>2, <1>3, SpoiledStep

LEMMA UpsertFailsInv ==
    ASSUME StoreInv, NEW c \in Slots, UpsertFails(c)
    PROVE  StoreInv'
BY UpsertFailsEffect, FailInv

\* A read that finds its file, or asks the peers.
Reads(c) ==
    LET call == calls[c] IN
    /\ calls'[c] \in Call
    /\ calls'[c].op = call.op /\ calls'[c].at = call.at
    /\ calls'[c].key = call.key /\ calls'[c].by = call.by
    /\ calls'[c].alone = call.alone /\ calls'[c].joined = call.joined
    /\ calls'[c].pc = "ok" \/ (calls'[c].pc = "send" /\ calls'[c].todo = Asked(call))
    /\ \A d \in Slots \ {c} : calls'[d] = calls[d]

LEMMA ReadBlockEffect ==
    ASSUME StoreInv, NEW c \in Slots, ReadBlock(c)
    PROVE  /\ calls[c] \in Call /\ calls[c].op = "get" /\ calls[c].pc = "start"
           /\ UNCHANGED <<blocks, meta, buckets, keyed, peers, puts, torn, apart>>
           /\ \/ Reads(c) /\ UNCHANGED callFaults
              \/ /\ Spoils(c) /\ calls'[c].pc = "send"
                 /\ callFaults < MaxFaults /\ callFaults' = callFaults + 1
           /\ calls'[c] \in Call /\ calls'[c].op = "get"
           /\ calls' \in [Slots -> Call \cup {Free}]
<1> DEFINE call == calls[c]
           val == blocks[call.at][call.key]
           y == [call EXCEPT !.val = val, !.pc = "ok"]
           z == [call EXCEPT !.pc = "send", !.todo = Asked(call)]
<1>1. /\ call \in Call /\ call.op = "get" /\ call.pc = "start"
      /\ UNCHANGED <<blocks, meta, buckets, keyed, peers, puts, torn, apart>>
      /\ \/ /\ calls' = [calls EXCEPT ![c] = y] \/ calls' = [calls EXCEPT ![c] = z]
            /\ UNCHANGED callFaults
         \/ /\ calls' = Spoiled([calls EXCEPT ![c] = z], call.key)
            /\ callFaults < MaxFaults /\ callFaults' = callFaults + 1
  BY RunCall DEF ReadBlock, Run, Active
<1>2. call.at \in Stores /\ call.key \in Keys
  BY <1>1, CallFields
<1>3. val \in Bytes /\ Asked(call) \in SUBSET Stores
  BY <1>2 DEF StoreInv, Shapes, Asked
<1>4. \A w \in Call, v \in Bytes, U \in SUBSET Stores :
          /\ [w EXCEPT !.val = v, !.pc = "ok"] \in Call
          /\ [w EXCEPT !.pc = "send", !.todo = U] \in Call
  BY DEF Call
<1>5. \A w \in Call : \A v, U :
          LET m == [w EXCEPT !.val = v, !.pc = "ok"]
              n == [w EXCEPT !.pc = "send", !.todo = U]
          IN  /\ m.pc = "ok" /\ m.op = w.op /\ m.at = w.at /\ m.key = w.key /\ m.by = w.by
              /\ m.alone = w.alone /\ m.joined = w.joined
              /\ n.pc = "send" /\ n.op = w.op /\ n.at = w.at /\ n.key = w.key /\ n.by = w.by
              /\ n.alone = w.alone /\ n.joined = w.joined /\ n.todo = U
              /\ n.val = w.val /\ n.clean = w.clean
  BY DEF Call
<1>6. y \in Call /\ z \in Call
  BY <1>1, <1>3, <1>4
<1>7. /\ y.pc = "ok" /\ y.op = call.op /\ y.at = call.at /\ y.key = call.key
      /\ y.by = call.by /\ y.alone = call.alone /\ y.joined = call.joined
      /\ z.pc = "send" /\ z.op = call.op /\ z.at = call.at /\ z.key = call.key
      /\ z.by = call.by /\ z.alone = call.alone /\ z.joined = call.joined
      /\ z.todo = Asked(call) /\ z.val = call.val /\ z.clean = call.clean
  BY <1>1, <1>5
<1> HIDE DEF y, z, val
<1>8. Reads(c) => calls'[c] \in Call /\ calls'[c].op = "get"
  BY <1>1 DEF Reads
<1>9. CASE /\ calls' = [calls EXCEPT ![c] = y] \/ calls' = [calls EXCEPT ![c] = z]
           /\ UNCHANGED callFaults
  <2>1. /\ calls'[c] = y \/ calls'[c] = z
        /\ \A d \in Slots \ {c} : calls'[d] = calls[d]
        /\ calls' \in [Slots -> Call \cup {Free}]
    BY <1>6, <1>9 DEF StoreInv, Shapes
  <2>2. Reads(c)
    BY <1>6, <1>7, <2>1 DEF Reads
  <2> QED
    BY <1>1, <1>8, <1>9, <2>1, <2>2
<1>10. CASE /\ calls' = Spoiled([calls EXCEPT ![c] = z], call.key)
            /\ callFaults < MaxFaults /\ callFaults' = callFaults + 1
  <2>1. Spoils(c) /\ calls'[c] \in Call /\ calls'[c].pc = "send"
    BY <1>1, <1>6, <1>7, <1>10, SpoiledStep
  <2>2. calls'[c].op = "get" /\ calls' \in [Slots -> Call \cup {Free}]
    BY <1>1, <2>1 DEF Spoils
  <2> QED
    BY <1>1, <1>10, <2>1, <2>2
<1> QED
  BY <1>1, <1>9, <1>10

LEMMA ReadBlockInv ==
    ASSUME StoreInv, NEW c \in Slots, ReadBlock(c)
    PROVE  StoreInv'
<1> DEFINE call == calls[c]
<1>1. /\ call \in Call /\ call.op = "get" /\ call.pc = "start"
      /\ UNCHANGED <<blocks, meta, buckets, peers, puts, torn, apart>>
      /\ calls' \in [Slots -> Call \cup {Free}]
      /\ call.at \in Stores
  BY ReadBlockEffect, CallFields
<1>2. CASE Spoils(c) /\ calls'[c].pc = "send"
  BY <1>1, <1>2, FailInv
<1>3. CASE Reads(c)
  <2>1. /\ calls'[c] \in Call
        /\ calls'[c].op = call.op /\ calls'[c].at = call.at
        /\ calls'[c].key = call.key /\ calls'[c].by = call.by
        /\ calls'[c].alone = call.alone /\ calls'[c].joined = call.joined
        /\ calls'[c].pc = "ok" \/ (calls'[c].pc = "send" /\ calls'[c].todo = Asked(call))
        /\ \A d \in Slots \ {c} : calls'[d] = calls[d]
    BY <1>3 DEF Reads
  <2>2. Shapes'
    BY <1>1 DEF StoreInv, Shapes
  <2>3. Fruitless(calls'[c]) => ~calls'[c].joined
    <3> SUFFICES ASSUME Fruitless(calls'[c]), call.joined PROVE FALSE
      BY <2>1
    <3>1. call.key \notin Bucketed /\ Asked(call) = {}
      BY <2>1 DEF Fruitless
    <3>2. peers[call.at] = {}
      BY <3>1 DEF Asked
    <3>3. AllJoined
      BY <1>1, ActiveCalls DEF StoreInv, ReadInv
    <3> QED
      BY <1>1, <3>2, <3>3 DEF AllJoined
  <2> QED
    BY <1>1, <2>1, <2>2, <2>3, OwnStep
<1> QED
  BY <1>2, <1>3, ReadBlockEffect

LEMMA FinishInv ==
    ASSUME StoreInv, NEW c \in Slots, Finish(c)
    PROVE  StoreInv'
<1>1. /\ calls[c] \in Call /\ calls[c].pc = "send" /\ calls[c].todo = {}
      /\ Become(c, IF calls[c].op = "get" THEN "error" ELSE "ok")
      /\ UNCHANGED <<blocks, meta, buckets, peers, puts, torn>>
  BY RunCall DEF Finish, Active
<1>2. PICK pc \in {"error", "ok"} : Become(c, pc)
  BY <1>1
<1>3. Shapes'
  BY <1>1, <1>2, BecomeEffect DEF StoreInv, Shapes
<1>4. Fruitless(calls'[c]) => Fruitless(calls[c])
  BY <1>1, <1>2, BecomeEffect DEF StoreInv, Fruitless
<1> QED
  BY <1>1, <1>2, <1>3, <1>4, BecomeEffect, OwnStep DEF StoreInv

LEMMA ReturnInv ==
    ASSUME StoreInv, NEW c \in Slots, Return(c)
    PROVE  StoreInv'
<1>1. /\ calls[c] \in Call /\ calls[c].pc \in {"ok", "error"}
      /\ calls' = [calls EXCEPT ![c] = Free]
      /\ UNCHANGED <<blocks, meta, buckets, peers, puts, torn>>
  BY RunCall DEF Return, Active
<1>2. calls'[c] = Free /\ \A d \in Slots \ {c} : calls'[d] = calls[d]
  BY <1>1 DEF StoreInv, Shapes
<1>3. Shapes'
  BY <1>1 DEF StoreInv, Shapes
<1> QED
  BY <1>1, <1>2, <1>3, OwnStep

LEMMA DiscoverInv ==
    ASSUME StoreInv, NEW s \in Stores, Discover(s)
    PROVE  StoreInv'
<1>1. PICK found \in SUBSET (Stores \ {s}) :
          /\ peers' = [peers EXCEPT ![s] = found]
          /\ calls' = IF found # {} THEN calls
                      ELSE [c \in Slots |-> IF calls[c] = Free THEN Free
                                            ELSE [calls[c] EXCEPT !.joined = FALSE]]
          /\ UNCHANGED <<blocks, meta, buckets, puts, torn, apart, callFaults>>
  BY DEF Discover
<1>2. peers' \in [Stores -> SUBSET Stores]
  BY <1>1 DEF StoreInv, Shapes
<1>3. CASE found # {}
  <2>1. AllJoined => AllJoined'
    BY <1>1, <1>3 DEF AllJoined, StoreInv, Shapes
  <2> QED
    BY <1>1, <1>2, <1>3, <2>1, UnmovedInv
<1>4. CASE found = {}
  <2>1. \A x \in Call : LET y == [x EXCEPT !.joined = FALSE] IN
            /\ y \in Call /\ ~y.joined
            /\ y.op = x.op /\ y.at = x.at /\ y.key = x.key /\ y.val = x.val /\ y.by = x.by
            /\ y.todo = x.todo /\ y.pc = x.pc /\ y.alone = x.alone
    BY DEF Call
  <2>2. calls' = [c \in Slots |-> IF calls[c] = Free THEN Free
                                  ELSE [calls[c] EXCEPT !.joined = FALSE]]
    BY <1>1, <1>4
  <2>3. ASSUME NEW c \in Slots
        PROVE  /\ calls[c] = Free => calls'[c] = Free
               /\ calls[c] \in Call => calls'[c] = [calls[c] EXCEPT !.joined = FALSE]
    BY <2>2, CallFields
  <2>4. \A c \in Slots : calls[c] \in Call =>
            /\ calls'[c] \in Call /\ ~calls'[c].joined
            /\ calls'[c].op = calls[c].op /\ calls'[c].at = calls[c].at
            /\ calls'[c].key = calls[c].key /\ calls'[c].val = calls[c].val
            /\ calls'[c].by = calls[c].by /\ calls'[c].todo = calls[c].todo
            /\ calls'[c].pc = calls[c].pc /\ calls'[c].alone = calls[c].alone
    BY <2>1, <2>3
  <2>5. calls' \in [Slots -> Call \cup {Free}]
    <3>1. \A c \in Slots : calls'[c] \in Call \cup {Free}
      BY <2>3, <2>4 DEF StoreInv, Shapes
    <3> QED
      BY <2>2, <3>1
  <2>6. Shapes'
    BY <1>1, <1>2, <2>5 DEF StoreInv, Shapes
  <2>7. \A c \in Slots : calls'[c] \in Call => calls[c] \in Call
    BY <2>3, CallFields DEF StoreInv, Shapes
  <2> QED
    BY <1>1, <2>4, <2>6, <2>7, QuietStep DEF Fruitless
<1> QED
  BY <1>3, <1>4

\* A handler d begins, and a handler that calls it waits for it.
Begins(d) ==
    /\ calls[d] = Free /\ calls'[d] \in Call /\ calls'[d].pc = "start"
    /\ calls'[d].op = "delete" => calls'[d].val = Missing
    /\ calls'[d].op # "get" /\ calls'[d].alone => Locally(calls'[d].at, calls'[d].key) = {}
    /\ calls'[d].op # "get" /\ calls'[d].by = Client /\ calls'[d].clean
           => Writing(calls'[d].key) = {}
    /\ \A c \in Slots \ {d} :
           /\ calls[c] = Free => calls'[c] = Free
           /\ calls[c] \in Call =>
                  /\ calls'[c] \in Call
                  /\ calls'[c].op = calls[c].op /\ calls'[c].at = calls[c].at
                  /\ calls'[c].key = calls[c].key /\ calls'[c].val = calls[c].val
                  /\ calls'[c].by = calls[c].by /\ calls'[c].joined = calls[c].joined
                  /\ calls'[c].alone => calls[c].alone
                  /\ calls'[d].op # "get" /\ calls'[c].alone
                         => c \notin Locally(calls'[d].at, calls'[d].key)
                  /\ calls'[c].clean => calls[c].clean
                  /\ calls'[d].op # "get" /\ calls'[d].by = Client /\ calls'[c].clean
                         => c \notin Writing(calls'[d].key)
                  /\ \/ calls'[c].pc = calls[c].pc /\ calls'[c].todo = calls[c].todo
                     \/ /\ c = calls'[d].by /\ calls[c].pc = "send" /\ calls'[c].pc = "wait"
                        /\ calls'[c].todo = calls[c].todo \ {calls'[d].at}
    /\ calls'[d].joined => AllJoined
    /\ \/ calls'[d].by = Client
       \/ LET b == calls'[d].by IN
          /\ calls[b] \in Call /\ calls[b].pc = "send" /\ calls'[b].pc = "wait"
          /\ calls[b].op = calls'[d].op /\ calls[b].key = calls'[d].key
          /\ calls[b].val = calls'[d].val /\ calls[b].joined = calls'[d].joined

LEMMA BeginsInv ==
    ASSUME StoreInv, Shapes', UNCHANGED <<blocks, meta, torn, peers>>,
           NEW d \in Slots, Begins(d)
    PROVE  StoreInv'
<1>1. ASSUME NEW c \in Slots, calls'[c] \in Call
      PROVE  c = d \/ calls[c] \in Call
  BY <1>1, CallFields DEF Begins, StoreInv, Shapes
<1>2. \A s, k : \A c : c \in Locally(s, k)' <=>
          /\ c \in Slots /\ calls'[c] \in Call
          /\ calls'[c].op # "get" /\ calls'[c].at = s /\ calls'[c].key = k
          /\ calls'[c].pc \in {"start", "write", "index"}
  BY CallFields DEF Locally, Writing, Active, Shapes
<1>3. d \in Slots /\ calls[d] \notin Call
  BY CallFields DEF Begins
<1>4. ASSUME NEW c \in Slots \ {d}, calls[c] \in Call
      PROVE  /\ calls'[c] \in Call
             /\ calls'[c].op = calls[c].op /\ calls'[c].at = calls[c].at
             /\ calls'[c].key = calls[c].key /\ calls'[c].val = calls[c].val
             /\ calls'[c].by = calls[c].by /\ calls'[c].joined = calls[c].joined
             /\ calls'[c].alone => calls[c].alone
             /\ \/ calls'[c].pc = calls[c].pc /\ calls'[c].todo = calls[c].todo
                \/ calls[c].pc = "send" /\ calls'[c].pc = "wait"
  BY <1>4 DEF Begins
<1>5. \A c \in Slots : calls'[c] \in Call /\ calls'[c].op = "delete" => calls'[c].val = Missing
  <2> SUFFICES ASSUME NEW c \in Slots, calls'[c] \in Call, calls'[c].op = "delete"
               PROVE  calls'[c].val = Missing
    OBVIOUS
  <2>1. CASE c = d
    BY <2>1 DEF Begins
  <2>2. CASE c # d
    BY <1>1, <1>4, <2>2, ActiveCalls DEF StoreInv, BlockInv
  <2> QED
    BY <2>1, <2>2
<1>6. \A s \in Stores, k \in Keys : \A c \in Locally(s, k)' \ {d} :
          /\ c \in Locally(s, k)
          /\ calls'[c].pc = calls[c].pc /\ calls'[c].val = calls[c].val
          /\ calls'[c].alone => calls[c].alone
  BY <1>1, <1>2, <1>4, LocalCalls DEF StoreInv
<1>7. ASSUME NEW s \in Stores, NEW k \in Keys, d \in Locally(s, k)'
      PROVE  /\ calls'[d].pc = "start"
             /\ calls'[d].alone => Locally(s, k) = {}
             /\ \A c \in Locally(s, k)' \ {d} : ~calls'[c].alone
  <2>1. calls'[d].op # "get" /\ calls'[d].at = s /\ calls'[d].key = k
    BY <1>2, <1>7
  <2>2. calls'[d].pc = "start" /\ (calls'[d].alone => Locally(s, k) = {})
    BY <2>1 DEF Begins
  <2>3. \A c \in Locally(s, k)' \ {d} : ~calls'[c].alone
    <3> SUFFICES ASSUME NEW c \in Locally(s, k)' \ {d} PROVE ~calls'[c].alone
      OBVIOUS
    <3>1. c \in Locally(s, k)
      BY <1>6
    <3>2. c \in Slots \ {d} /\ calls[c] \in Call
      BY <3>1, LocalCalls DEF StoreInv
    <3> QED
      BY <2>1, <3>1, <3>2 DEF Begins
  <2> QED
    BY <2>2, <2>3
<1>8. \A s \in Stores, k \in Keys : \A c \in Locally(s, k) :
          c \in Locally(s, k)' /\ calls'[c].pc = calls[c].pc
  BY <1>2, <1>3, <1>4, LocalCalls DEF StoreInv
<1>9. BlockInv'
  BY <1>5, <1>6, <1>7, <1>8, BlockStep
<1>10. Active = {c \in Slots : calls[c] \in Call} /\ Active' = {c \in Slots : calls'[c] \in Call}
  BY CallFields DEF StoreInv, Shapes, Active
<1>11. \A c \in Active' : c = d \/ (c \in Active /\ c \in Slots \ {d} /\ calls[c] \in Call)
  BY <1>1, <1>10
<1>12. \A c \in Active' : calls'[c].joined => AllJoined'
  <2>1. AllJoined' = AllJoined
    BY DEF AllJoined
  <2>2. calls'[d].joined => AllJoined
    BY DEF Begins
  <2> QED
    BY <1>4, <1>11, <2>1, <2>2 DEF StoreInv, ReadInv
<1>13. ASSUME NEW c \in Active', calls'[c].by # Client
       PROVE  LET b == calls'[c].by IN
              /\ b \in Active' /\ calls'[b].pc = "wait"
              /\ calls'[b].op = calls'[c].op /\ calls'[b].key = calls'[c].key
              /\ calls'[b].joined = calls'[c].joined
  <2>1. CASE c = d
    <3> DEFINE b == calls'[d].by
    <3>1. /\ calls[b] \in Call /\ calls[b].pc = "send" /\ calls'[b].pc = "wait"
          /\ calls[b].op = calls'[d].op /\ calls[b].key = calls'[d].key
          /\ calls[b].joined = calls'[d].joined
      BY <1>13, <2>1 DEF Begins
    <3>2. b \in Slots
      BY <1>10, <1>13, <2>1, CallFields
    <3> HIDE DEF b
    <3>3. b # d
      BY <1>3, <3>1
    <3>4. /\ calls'[b] \in Call /\ calls'[b].op = calls[b].op /\ calls'[b].key = calls[b].key
          /\ calls'[b].joined = calls[b].joined
      BY <1>4, <3>1, <3>2, <3>3
    <3> QED
      BY <1>10, <2>1, <3>1, <3>2, <3>4 DEF b
  <2>2. CASE c # d
    <3> DEFINE b == calls[c].by
    <3>1. /\ calls'[c].by = b /\ calls'[c].op = calls[c].op /\ calls'[c].key = calls[c].key
          /\ calls'[c].joined = calls[c].joined
          /\ c \in Active
      BY <1>4, <1>11, <2>2
    <3>2. /\ b \in Active /\ calls[b].pc = "wait"
          /\ calls[b].op = calls[c].op /\ calls[b].key = calls[c].key
          /\ calls[b].joined = calls[c].joined
      BY <1>13, <3>1 DEF StoreInv, ReadInv
    <3> HIDE DEF b
    <3>3. b \in Slots \ {d} /\ calls[b] \in Call
      BY <1>3, <1>10, <3>2
    <3>4. /\ calls'[b] \in Call /\ calls'[b].op = calls[b].op /\ calls'[b].key = calls[b].key
          /\ calls'[b].joined = calls[b].joined /\ calls'[b].pc = "wait"
      BY <1>4, <3>2, <3>3
    <3> QED
      BY <1>10, <3>1, <3>2, <3>3, <3>4
  <2> QED
    BY <2>1, <2>2
<1>14. ASSUME NEW c \in Active', NEW e \in Active', c # e, calls'[c].by # Client
       PROVE  calls'[c].by # calls'[e].by
  <2>1. ASSUME NEW x \in Active, x # d, calls[x] \in Call, calls'[d].by # Client
        PROVE  calls'[x].by # calls'[d].by
    <3>1. calls'[x].by = calls[x].by /\ x \in Slots
      BY <1>4, <1>10, <2>1
    <3>2. calls[calls'[d].by].pc = "send"
      BY <2>1 DEF Begins
    <3>3. calls[x].by # Client => calls[calls[x].by].pc = "wait"
      BY DEF StoreInv, ReadInv
    <3> QED
      BY <2>1, <3>1, <3>2, <3>3
  <2>2. CASE c = d
    BY <1>11, <1>14, <2>1, <2>2
  <2>3. CASE e = d
    BY <1>11, <1>14, <2>1, <2>3
  <2>4. CASE c # d /\ e # d
    BY <1>4, <1>11, <1>14, <2>4 DEF StoreInv, ReadInv
  <2> QED
    BY <2>2, <2>3, <2>4
<1>15. ASSUME NEW c \in Active', Fruitless(calls'[c])
       PROVE  ~calls'[c].joined
  <2>1. c # d
    BY <1>15 DEF Begins, Fruitless
  <2>2. c \in Active /\ Fruitless(calls[c]) /\ calls'[c].joined = calls[c].joined
    BY <1>4, <1>11, <1>15, <2>1 DEF Fruitless
  <2> QED
    BY <2>2 DEF StoreInv, ReadInv, Fruitless
<1>16. ReadInv'
  BY <1>12, <1>13, <1>14, <1>15 DEF ReadInv, Fruitless
<1> QED
  BY <1>9, <1>16 DEF StoreInv

NumbersPut(d) == calls'[d].op = "put" => calls'[d].val \in 1 .. MaxPuts

LEMMA RequestBegins ==
    ASSUME StoreInv, NEW s \in Stores, NEW k \in Keys, NEW op \in {"put", "get", "delete"},
           Request(s, k, op)
    PROVE  /\ Shapes' /\ UNCHANGED <<blocks, meta, torn, peers, apart>>
           /\ \E d \in Slots : Begins(d) /\ NumbersPut(d)
<1> DEFINE val == IF op = "put" THEN puts' ELSE Missing
           joined == AllJoined
           call == [op |-> op, at |-> s, key |-> k, val |-> val, by |-> Client, todo |-> {},
                    pc |-> "start", alone |-> TRUE, clean |-> TRUE, joined |-> joined]
<1>1. /\ HasSlot
      /\ op = "put" => puts < MaxPuts
      /\ puts' = IF op = "put" THEN puts + 1 ELSE puts
      /\ calls' = Enter(call)
      /\ UNCHANGED <<blocks, meta, buckets, peers, torn, apart, callFaults>>
  BY DEF Request
<1>2. /\ puts' \in 0 .. MaxPuts /\ val \in Bytes
      /\ op = "put" => val \in 1 .. MaxPuts
  BY <1>1, ObjectStoreConstants DEF StoreInv, Shapes, Bytes, Torn, Missing
<1>3. joined \in BOOLEAN
  BY DEF AllJoined
<1>4. op = "delete" => val = Missing
  OBVIOUS
<1>5. joined => AllJoined
  OBVIOUS
<1> HIDE DEF val, joined
<1>6. call \in Call
  BY <1>2, <1>3 DEF Call
<1>7. /\ call.op = op /\ call.at = s /\ call.key = k /\ call.val = val /\ call.by = Client
      /\ call.pc = "start" /\ call.joined = joined
  OBVIOUS
<1> HIDE DEF call
<1>8. PICK d \in Slots : Entered(calls', call, d)
  BY <1>1, <1>6, EnterEffect DEF StoreInv
<1>9. Shapes'
  BY <1>1, <1>2, <1>8 DEF StoreInv, Shapes, Entered
<1>10. Begins(d)
  BY <1>4, <1>5, <1>7, <1>8 DEF Begins, SameWork, Entered
<1>11. NumbersPut(d)
  BY <1>2, <1>7, <1>8 DEF NumbersPut, SameWork, Entered
<1> QED
  BY <1>1, <1>9, <1>10, <1>11

LEMMA CallPeerBegins ==
    ASSUME StoreInv, NEW c \in Slots, CallPeer(c)
    PROVE  /\ Shapes' /\ UNCHANGED <<blocks, meta, torn, peers, apart>>
           /\ \E d \in Slots : Begins(d) /\ calls'[d].by = c
<1> DEFINE call == calls[c]
<1>1. /\ HasSlot /\ call \in Call /\ call.pc = "send"
      /\ UNCHANGED <<blocks, meta, buckets, peers, puts, torn, apart, callFaults>>
  BY RunCall DEF CallPeer, Active
<1>2. PICK t \in call.todo :
          LET e == Enter([call EXCEPT !.at = t, !.by = c, !.todo = {}, !.pc = "start"])
          IN  calls' = [e EXCEPT ![c] = [e[c] EXCEPT !.pc = "wait", !.todo = call.todo \ {t}]]
  BY DEF CallPeer
<1> DEFINE sent == [call EXCEPT !.at = t, !.by = c, !.todo = {}, !.pc = "start"]
           e == Enter(sent)
           left == call.todo \ {t}
<1>3. t \in Stores /\ left \in SUBSET Stores
  BY <1>1, CallFields
<1> HIDE DEF call
<1>4. /\ sent \in Call /\ sent.op = call.op /\ sent.at = t /\ sent.key = call.key
      /\ sent.val = call.val /\ sent.by = c /\ sent.pc = "start" /\ sent.joined = call.joined
  BY <1>1, <1>3 DEF Call
<1> HIDE DEF sent
<1>5. PICK d \in Slots : Entered(e, sent, d)
  BY <1>1, <1>4, EnterEffect DEF StoreInv
<1> DEFINE x == [e[c] EXCEPT !.pc = "wait", !.todo = left]
<1>6. calls' = [e EXCEPT ![c] = x]
  BY <1>2 DEF sent
<1> HIDE DEF e, left
<1>7. c # d /\ e[c] \in Call /\ SameWork(e[c], call)
  BY <1>1, <1>5, CallFields DEF call, Entered
<1>8. /\ x \in Call /\ x.pc = "wait"
      /\ x.op = e[c].op /\ x.at = e[c].at /\ x.key = e[c].key /\ x.val = e[c].val
      /\ x.by = e[c].by /\ x.joined = e[c].joined
      /\ x.alone = e[c].alone /\ x.clean = e[c].clean /\ x.todo = left
  BY <1>3, <1>7 DEF Call
<1> HIDE DEF x
<1>9. /\ calls' \in [Slots -> Call \cup {Free}] /\ calls'[c] = x
      /\ \A b \in Slots \ {c} : calls'[b] = e[b]
  BY <1>5, <1>6, <1>8 DEF Entered
<1>10. Shapes'
  BY <1>1, <1>9 DEF StoreInv, Shapes
<1>11. /\ calls'[d] \in Call /\ SameWork(calls'[d], sent) /\ calls'[d].alone = e[d].alone
  BY <1>5, <1>7, <1>9 DEF Entered
<1>12. calls'[d].op = "delete" => calls'[d].val = Missing
  BY <1>1, <1>4, <1>11, ActiveCalls DEF StoreInv, BlockInv, SameWork, call
<1>13. calls'[d].joined => AllJoined
  BY <1>1, <1>4, <1>11, ActiveCalls DEF StoreInv, ReadInv, SameWork, call
<1>14. ASSUME NEW b \in Slots \ {d}, calls[b] \in Call
       PROVE  /\ calls'[b] \in Call
              /\ calls'[b].op = calls[b].op /\ calls'[b].at = calls[b].at
              /\ calls'[b].key = calls[b].key /\ calls'[b].val = calls[b].val
              /\ calls'[b].by = calls[b].by /\ calls'[b].joined = calls[b].joined
              /\ calls'[b].alone = e[b].alone /\ calls'[b].clean = e[b].clean
              /\ \/ calls'[b].pc = calls[b].pc /\ calls'[b].todo = calls[b].todo
                 \/ /\ b = c /\ calls[b].pc = "send" /\ calls'[b].pc = "wait"
                    /\ calls'[b].todo = left
  <2>1. e[b] \in Call /\ SameWork(e[b], calls[b])
    BY <1>5, <1>14 DEF Entered
  <2>2. CASE b = c
    BY <1>1, <1>8, <1>9, <2>1, <2>2 DEF SameWork, call
  <2>3. CASE b # c
    BY <1>9, <2>1, <2>3 DEF SameWork
  <2> QED
    BY <2>2, <2>3
<1>15. Begins(d)
  <2>1. /\ calls[d] = Free /\ calls'[d] \in Call /\ calls'[d].pc = "start"
        /\ calls'[d].op = call.op /\ calls'[d].key = call.key /\ calls'[d].by = c
        /\ calls'[d].val = call.val /\ calls'[d].at = t /\ calls'[d].joined = call.joined
        /\ calls'[d].op = sent.op /\ calls'[d].at = sent.at /\ calls'[d].key = sent.key
    BY <1>4, <1>5, <1>11 DEF SameWork, Entered
  <2>2. calls'[d].op # "get" /\ calls'[d].alone => Locally(calls'[d].at, calls'[d].key) = {}
    BY <1>5, <1>11, <2>1 DEF Entered
  <2>3. \A b \in Slots \ {d} : calls[b] = Free => calls'[b] = Free
    BY <1>1, <1>5, <1>9, CallFields DEF call, Entered
  <2>4. \A b \in Slots \ {d} : calls[b] \in Call =>
            /\ calls'[b].alone => calls[b].alone
            /\ calls'[b].clean => calls[b].clean
            /\ calls'[d].op # "get" /\ calls'[b].alone
                   => b \notin Locally(calls'[d].at, calls'[d].key)
    BY <1>5, <1>14, <2>1 DEF Entered
  <2>5. calls[c] \in Call /\ calls[c].pc = "send" /\ calls'[c].pc = "wait"
    BY <1>1, <1>8, <1>9 DEF call
  <2>6. calls'[d].by # Client
    BY <2>1, ClientIsNoSlot
  <2>7. left = calls[c].todo \ {calls'[d].at}
    BY <2>1 DEF left, call
  <2> QED
    BY <1>12, <1>13, <1>14, <2>1, <2>2, <2>3, <2>4, <2>5, <2>6, <2>7 DEF Begins, call
<1>16. calls'[d].by = c
  BY <1>4, <1>11 DEF SameWork
<1> QED
  BY <1>1, <1>10, <1>15, <1>16

LEMMA PeerAnswersEffect ==
    ASSUME StoreInv, NEW d \in Slots, PeerAnswers(d)
    PROVE  LET c == calls[d].by IN
           /\ d \in Active /\ calls[d] \in Call /\ calls[d].pc \in {"ok", "error"} /\ c # Client
           /\ UNCHANGED <<blocks, meta, buckets, keyed, peers, puts, torn, apart, callFaults>>
           /\ c \in Active /\ calls[c].pc = "wait"
           /\ calls[c].op = calls[d].op /\ calls[c].key = calls[d].key
           /\ calls[c].joined = calls[d].joined
           /\ c \in Slots /\ calls[c] \in Call /\ c # d
           /\ calls' \in [Slots -> Call \cup {Free}] /\ calls'[d] = Free
           /\ \A b \in Slots \ {c, d} : calls'[b] = calls[b]
           /\ calls'[c] \in Call /\ calls'[c].pc \in {"ok", "send"}
           /\ calls'[c].op = calls[c].op /\ calls'[c].at = calls[c].at
           /\ calls'[c].key = calls[c].key /\ calls'[c].by = calls[c].by
           /\ calls'[c].todo = calls[c].todo /\ calls'[c].alone = calls[c].alone
           /\ calls'[c].clean = calls[c].clean /\ calls'[c].joined = calls[c].joined
           /\ calls[c].op # "get" => calls'[c].val = calls[c].val /\ calls'[c].pc = "send"
           /\ calls[c].op = "get" /\ calls'[c].pc = "send" => calls[d].pc = "error"
<1> DEFINE c == calls[d].by
           found == calls[c].op = "get" /\ calls[d].pc = "ok"
           pc == IF found THEN "ok" ELSE "send"
           val == IF found THEN calls[d].val ELSE calls[c].val
           x == [calls[c] EXCEPT !.pc = pc, !.val = val]
<1>1. /\ d \in Active /\ calls[d] \in Call /\ calls[d].pc \in {"ok", "error"} /\ c # Client
      /\ calls' = [calls EXCEPT
                      ![d] = Free,
                      ![c] = [calls[c] EXCEPT !.pc = IF found THEN "ok" ELSE "send",
                                              !.val = IF found THEN calls[d].val ELSE @]]
      /\ UNCHANGED <<blocks, meta, buckets, keyed, peers, puts, torn, apart, callFaults>>
  BY RunCall DEF PeerAnswers, Active
<1>2. /\ c \in Active /\ calls[c].pc = "wait"
      /\ calls[c].op = calls[d].op /\ calls[c].key = calls[d].key
      /\ calls[c].joined = calls[d].joined
  BY <1>1 DEF StoreInv, ReadInv
<1>3. c \in Slots /\ calls[c] \in Call /\ c # d
  BY <1>1, <1>2, ActiveCalls DEF StoreInv
<1>4. /\ x \in Call /\ x.pc \in {"ok", "send"}
      /\ x.op = calls[c].op /\ x.at = calls[c].at /\ x.key = calls[c].key
      /\ x.by = calls[c].by /\ x.todo = calls[c].todo
      /\ x.alone = calls[c].alone /\ x.clean = calls[c].clean /\ x.joined = calls[c].joined
      /\ calls[c].op # "get" => x.val = calls[c].val /\ x.pc = "send"
      /\ calls[c].op = "get" /\ x.pc = "send" => calls[d].pc = "error"
  <2>1. pc \in {"ok", "send"} /\ val \in Bytes
    BY <1>1, <1>3, CallFields
  <2> QED
    BY <1>1, <1>3, <2>1 DEF Call
<1>5. calls' = [[calls EXCEPT ![d] = Free] EXCEPT ![c] = x]
  BY <1>1, <1>3 DEF StoreInv, Shapes
<1> HIDE DEF x, pc, val, found
<1>6. /\ calls' \in [Slots -> Call \cup {Free}] /\ calls'[c] = x /\ calls'[d] = Free
      /\ \A b \in Slots \ {c, d} : calls'[b] = calls[b]
  BY <1>3, <1>4, <1>5 DEF StoreInv, Shapes
<1> QED
  BY <1>1, <1>2, <1>3, <1>4, <1>6

LEMMA PeerAnswersInv ==
    ASSUME StoreInv, NEW d \in Slots, PeerAnswers(d)
    PROVE  StoreInv'
<1> DEFINE c == calls[d].by
           x == calls'[c]
<1>1. /\ d \in Active /\ calls[d] \in Call /\ calls[d].pc \in {"ok", "error"} /\ c # Client
      /\ UNCHANGED <<blocks, meta, buckets, peers, puts, torn, apart, callFaults>>
  BY PeerAnswersEffect
<1>2. /\ c \in Active /\ calls[c].pc = "wait"
      /\ calls[c].op = calls[d].op /\ calls[c].key = calls[d].key
      /\ calls[c].joined = calls[d].joined
      /\ c \in Slots /\ calls[c] \in Call /\ c # d
  BY PeerAnswersEffect
<1>3. /\ x \in Call /\ x.pc \in {"ok", "send"}
      /\ x.op = calls[c].op /\ x.at = calls[c].at /\ x.key = calls[c].key
      /\ x.by = calls[c].by /\ x.alone = calls[c].alone /\ x.joined = calls[c].joined
      /\ calls[c].op # "get" => x.val = calls[c].val
      /\ calls[c].op = "get" /\ x.pc = "send" => calls[d].pc = "error"
  BY PeerAnswersEffect
<1>4. /\ calls' \in [Slots -> Call \cup {Free}] /\ calls'[c] = x /\ calls'[d] = Free
      /\ \A b \in Slots \ {c, d} : calls'[b] = calls[b]
  BY PeerAnswersEffect
<1> HIDE DEF x
<1>5. Shapes'
  BY <1>1, <1>4 DEF StoreInv, Shapes
<1>6. Active = {b \in Slots : calls[b] \in Call} /\ Active' = {b \in Slots : calls'[b] \in Call}
  BY <1>5, CallFields DEF StoreInv, Shapes, Active
<1>7. ASSUME NEW b \in Active'
      PROVE  /\ b # d /\ b \in Active
             /\ calls'[b].op = calls[b].op /\ calls'[b].at = calls[b].at
             /\ calls'[b].key = calls[b].key /\ calls'[b].by = calls[b].by
             /\ calls'[b].joined = calls[b].joined /\ calls'[b].alone = calls[b].alone
             /\ calls[b].op # "get" => calls'[b].val = calls[b].val
             /\ calls'[b].pc \in {"start", "write", "index"} => calls'[b].pc = calls[b].pc
             /\ calls'[b].pc = "wait" => b # c
  <2>1. b \in Slots /\ calls'[b] \in Call /\ b # d
    BY <1>4, <1>6, CallFields
  <2>2. CASE b = c
    BY <1>2, <1>3, <1>4, <2>1, <2>2
  <2>3. CASE b # c
    BY <1>4, <1>6, <2>1, <2>3
  <2> QED
    BY <2>1, <2>2, <2>3
<1>8. BlockInv'
  <2>1. \A s, k : \A b : b \in Locally(s, k)' <=>
            /\ b \in Slots /\ calls'[b] \in Call
            /\ calls'[b].op # "get" /\ calls'[b].at = s /\ calls'[b].key = k
            /\ calls'[b].pc \in {"start", "write", "index"}
    BY <1>5, CallFields DEF Locally, Writing, Active, Shapes
  <2>2. \A s \in Stores, k \in Keys : \A b \in Locally(s, k)' :
            /\ b \in Locally(s, k)
            /\ calls'[b].pc = calls[b].pc /\ calls'[b].val = calls[b].val
            /\ calls'[b].alone => calls[b].alone
    BY <1>6, <1>7, <2>1, LocalCalls DEF StoreInv
  <2>3. \A s \in Stores, k \in Keys : \A b \in Locally(s, k) :
            b \in Locally(s, k)' /\ calls'[b].pc = calls[b].pc
    BY <1>1, <1>2, <1>4, <2>1, LocalCalls DEF StoreInv
  <2>4. \A b \in Slots : calls'[b] \in Call /\ calls'[b].op = "delete" => calls'[b].val = Missing
    BY <1>6, <1>7 DEF StoreInv, BlockInv
  <2>5. blocks' = blocks /\ meta' = meta /\ torn' = torn
    BY <1>1
  <2> QED
    BY <1>5, <2>2, <2>3, <2>4, <2>5, BlockStep
<1>9. ReadInv'
  <2>1. \A b \in Active' : calls'[b].joined => AllJoined'
    <3>1. AllJoined' = AllJoined
      BY <1>1 DEF AllJoined
    <3> QED
      BY <1>7, <3>1 DEF StoreInv, ReadInv
  <2>2. ASSUME NEW b \in Active', calls'[b].by # Client
        PROVE  LET a == calls'[b].by IN
               /\ a \in Active' /\ calls'[a].pc = "wait"
               /\ calls'[a].op = calls'[b].op /\ calls'[a].key = calls'[b].key
               /\ calls'[a].joined = calls'[b].joined
    <3> DEFINE a == calls[b].by
    <3>1. calls'[b].by = a /\ b \in Active /\ b # d
      BY <1>7
    <3>2. /\ a \in Active /\ calls[a].pc = "wait"
          /\ calls[a].op = calls[b].op /\ calls[a].key = calls[b].key
          /\ calls[a].joined = calls[b].joined
      BY <2>2, <3>1 DEF StoreInv, ReadInv
    <3>3. a # d
      BY <1>1, <3>2
    <3>4. a # c
      BY <1>1, <2>2, <3>1 DEF StoreInv, ReadInv
    <3> HIDE DEF a, c
    <3>5. calls'[a] = calls[a] /\ a \in Active'
      BY <1>4, <1>6, <3>2, <3>3, <3>4
    <3> QED
      BY <1>7, <3>1, <3>2, <3>5
  <2>3. \A a, b \in Active' : calls'[a].by # Client /\ calls'[a].by = calls'[b].by => a = b
    BY <1>7 DEF StoreInv, ReadInv
  <2>4. ASSUME NEW b \in Active', Fruitless(calls'[b]) PROVE ~calls'[b].joined
    <3>1. CASE b = c
      <4>1. calls[d].pc = "error" /\ calls[d].op = "get" /\ calls[d].key \notin Bucketed
        BY <1>2, <1>3, <1>4, <2>4, <3>1 DEF Fruitless
      <4>2. ~calls[d].joined
        BY <1>1, <4>1 DEF StoreInv, ReadInv
      <4> QED
        BY <1>2, <1>3, <1>4, <3>1, <4>2
    <3>2. CASE b # c
      BY <1>4, <1>6, <1>7, <2>4, <3>2 DEF StoreInv, ReadInv, Fruitless
    <3> QED
      BY <3>1, <3>2
  <2> QED
    BY <2>1, <2>2, <2>3, <2>4 DEF ReadInv, Fruitless
<1> QED
  BY <1>5, <1>8, <1>9 DEF StoreInv

LEMMA GoneEffect ==
    ASSUME Shapes, NEW D
    PROVE  LET g == Gone(D) IN
           /\ g \in [Slots -> Call \cup {Free}]
           /\ \A c \in Slots :
                  /\ c \in D \/ calls[c] = Free => g[c] = Free
                  /\ c \notin D /\ calls[c] \in Call =>
                        /\ g[c] \in Call
                        /\ g[c].op = calls[c].op /\ g[c].at = calls[c].at
                        /\ g[c].key = calls[c].key /\ g[c].val = calls[c].val
                        /\ g[c].alone = calls[c].alone /\ g[c].clean = calls[c].clean
                        /\ g[c].todo = calls[c].todo
                        /\ g[c].by = IF calls[c].by \in D THEN Client ELSE calls[c].by
                        /\ g[c].pc = IF calls[c].pc = "wait" /\ \E d \in D : calls[d].by = c
                                     THEN "send" ELSE calls[c].pc
<1> DEFINE g == Gone(D)
           by(c) == IF calls[c].by \in D THEN Client ELSE calls[c].by
           pc(c) == IF calls[c].pc = "wait" /\ \E d \in D : calls[d].by = c
                    THEN "send" ELSE calls[c].pc
<1>1. g = [c \in Slots |-> IF c \in D \/ calls[c] = Free THEN Free
                           ELSE [calls[c] EXCEPT !.by = by(c), !.pc = pc(c)]]
  BY DEF Gone, Shapes
<1> HIDE DEF g
<1> DEFINE Rec(x, b, p) == [x EXCEPT !.by = b, !.pc = p]
           Same(y, x, b, p) ==
              /\ y \in Call /\ y.op = x.op /\ y.at = x.at /\ y.key = x.key /\ y.val = x.val
              /\ y.alone = x.alone /\ y.clean = x.clean /\ y.todo = x.todo /\ y.by = b /\ y.pc = p
<1>2. ASSUME NEW x \in Call, NEW b \in Slots \cup {Client},
             NEW p \in {"start", "write", "index", "send", "wait", "ok", "error"}
      PROVE  Same(Rec(x, b, p), x, b, p)
  <2> DEFINE y == Rec(x, b, p)
  <2>1. y \in Call
    BY <1>2 DEF Call
  <2>2. /\ y.op = x.op /\ y.at = x.at /\ y.key = x.key /\ y.val = x.val
        /\ y.alone = x.alone /\ y.clean = x.clean /\ y.todo = x.todo
    BY <1>2 DEF Call
  <2>3. y.by = b /\ y.pc = p
    BY <1>2 DEF Call
  <2>4. y = Rec(x, b, p)
    OBVIOUS
  <2> HIDE DEF y, Rec
  <2> QED
    BY <2>1, <2>2, <2>3, <2>4
<1>3. ASSUME NEW c \in Slots, c \notin D, calls[c] \in Call
      PROVE  /\ g[c] \in Call
             /\ g[c].op = calls[c].op /\ g[c].at = calls[c].at
             /\ g[c].key = calls[c].key /\ g[c].val = calls[c].val
             /\ g[c].alone = calls[c].alone /\ g[c].clean = calls[c].clean
             /\ g[c].todo = calls[c].todo
             /\ g[c].by = by(c) /\ g[c].pc = pc(c)
  <2> DEFINE x == calls[c]
             b == by(c)
             p == pc(c)
             y == g[c]
  <2>1. /\ b \in Slots \cup {Client}
        /\ p \in {"start", "write", "index", "send", "wait", "ok", "error"}
    BY <1>3, CallFields
  <2>2. y = Rec(x, b, p)
    BY <1>1, <1>3, CallFields
  <2>3. x \in Call
    BY <1>3
  <2>4. Same(Rec(x, b, p), x, b, p)
    <3> HIDE DEF x, b, p, y, Rec, Same
    <3> QED
      BY <1>2, <2>1, <2>3
  <2>5. Same(y, x, b, p)
    <3> HIDE DEF x, b, p, y, Rec, Same
    <3> QED
      BY <2>2, <2>4
  <2> HIDE DEF by, pc, g
  <2> QED
    BY <2>5
<1>4. \A c \in Slots : c \in D \/ calls[c] = Free => g[c] = Free
  BY <1>1
<1>5. g \in [Slots -> Call \cup {Free}]
  <2>1. \A c \in Slots : g[c] \in Call \cup {Free}
    BY <1>3, <1>4 DEF Shapes
  <2> QED
    BY <1>1, <2>1
<1> QED
  BY <1>3, <1>4, <1>5 DEF g

\* Handlers disappear, and what they leave half written is marked as torn.
LEMMA GoneInv ==
    ASSUME StoreInv, Shapes', UNCHANGED <<blocks, meta>>, torn \subseteq torn',
           NEW D \in SUBSET Slots,
           \A c \in Slots : calls'[c] \in Call =>
               /\ c \notin D /\ calls[c] \in Call
               /\ calls'[c].op = calls[c].op /\ calls'[c].at = calls[c].at
               /\ calls'[c].key = calls[c].key /\ calls'[c].val = calls[c].val
               /\ calls'[c].alone = calls[c].alone /\ ~calls'[c].joined
               /\ calls'[c].by = IF calls[c].by \in D THEN Client ELSE calls[c].by
               /\ calls'[c].pc = IF calls[c].pc = "wait" /\ \E d \in D : calls[d].by = c
                                 THEN "send" ELSE calls[c].pc,
           \A c \in Slots \ D : calls[c] \in Call => calls'[c] \in Call,
           \A c \in D : calls[c] \in Call /\
               (calls[c].pc \in {"write", "index"} => <<calls[c].at, calls[c].key>> \in torn')
    PROVE  StoreInv'
<1>1. Active = {b \in Slots : calls[b] \in Call} /\ Active' = {b \in Slots : calls'[b] \in Call}
  BY CallFields DEF StoreInv, Shapes, Active
<1>2. BlockInv'
  <2>1. \A s, k : \A b : b \in Locally(s, k)' <=>
            /\ b \in Slots /\ calls'[b] \in Call
            /\ calls'[b].op # "get" /\ calls'[b].at = s /\ calls'[b].key = k
            /\ calls'[b].pc \in {"start", "write", "index"}
    BY CallFields DEF Locally, Writing, Active, Shapes
  <2>2. \A s \in Stores, k \in Keys : \A b \in Locally(s, k)' :
            /\ b \in Locally(s, k)
            /\ calls'[b].pc = calls[b].pc /\ calls'[b].val = calls[b].val
            /\ calls'[b].alone => calls[b].alone
    BY <2>1, LocalCalls DEF StoreInv
  <2>3. \A s \in Stores, k \in Keys : \A b \in Locally(s, k) :
            \/ b \in Locally(s, k)' /\ calls'[b].pc = calls[b].pc
            \/ calls[b].pc = "start"
            \/ <<s, k>> \in torn'
    <3> SUFFICES ASSUME NEW s \in Stores, NEW k \in Keys, NEW b \in Locally(s, k)
                 PROVE  \/ b \in Locally(s, k)' /\ calls'[b].pc = calls[b].pc
                        \/ calls[b].pc = "start"
                        \/ <<s, k>> \in torn'
      OBVIOUS
    <3>1. /\ b \in Slots /\ calls[b] \in Call /\ calls[b].op # "get"
          /\ calls[b].at = s /\ calls[b].key = k /\ calls[b].pc \in {"start", "write", "index"}
      BY LocalCalls DEF StoreInv
    <3>2. CASE b \in D
      BY <3>1, <3>2
    <3>3. CASE b \notin D
      BY <2>1, <3>1, <3>3
    <3> QED
      BY <3>2, <3>3
  <2>4. \A b \in Slots : calls'[b] \in Call /\ calls'[b].op = "delete" => calls'[b].val = Missing
    BY <1>1 DEF StoreInv, BlockInv
  <2> QED
    BY <2>2, <2>3, <2>4, BlockStep
<1>3. ReadInv'
  <2>1. \A b \in Active' : ~calls'[b].joined
    BY <1>1
  <2>2. ASSUME NEW b \in Active', calls'[b].by # Client
        PROVE  LET a == calls'[b].by IN
               /\ a \in Active' /\ calls'[a].pc = "wait"
               /\ calls'[a].op = calls'[b].op /\ calls'[a].key = calls'[b].key
               /\ calls'[a].joined = calls'[b].joined
    <3> DEFINE a == calls[b].by
    <3>1. calls'[b].by = a /\ a \notin D /\ b \in Active /\ b \notin D /\ b \in Slots
      BY <1>1, <2>2
    <3>2. /\ a \in Active /\ calls[a].pc = "wait"
          /\ calls[a].op = calls[b].op /\ calls[a].key = calls[b].key
      BY <2>2, <3>1 DEF StoreInv, ReadInv
    <3>3. a # Client
      BY <2>2, <3>1
    <3>4. \A d \in D : calls[d].by # a
      <4> SUFFICES ASSUME NEW d \in D, calls[d].by = a PROVE FALSE
        OBVIOUS
      <4>1. d \in Active
        BY <1>1
      <4>2. d = b
        BY <3>1, <3>3, <4>1 DEF StoreInv, ReadInv
      <4> QED
        BY <3>1, <4>2
    <3> HIDE DEF a
    <3>5. /\ a \in Active' /\ calls'[a].pc = "wait"
          /\ calls'[a].op = calls[a].op /\ calls'[a].key = calls[a].key
      BY <1>1, <3>1, <3>2, <3>4
    <3>6. calls'[b].op = calls[b].op /\ calls'[b].key = calls[b].key
      BY <1>1
    <3>7. calls'[a].joined = calls'[b].joined
      <4>1. calls'[a].joined \in BOOLEAN /\ calls'[b].joined \in BOOLEAN
        BY <1>1, <3>5, CallFields
      <4> QED
        BY <2>1, <3>5, <4>1
    <3> QED
      BY <3>1, <3>2, <3>5, <3>6, <3>7
  <2>3. \A a, b \in Active' : calls'[a].by # Client /\ calls'[a].by = calls'[b].by => a = b
    BY <1>1 DEF StoreInv, ReadInv
  <2> QED
    BY <2>1, <2>2, <2>3 DEF ReadInv
<1> QED
  BY <1>2, <1>3 DEF StoreInv

LEMMA HangUpEffect ==
    ASSUME StoreInv, NEW c \in Slots, HangUp(c)
    PROVE  /\ calls[c] \in Call /\ calls[c].pc = "wait"
           /\ UNCHANGED <<blocks, meta, buckets, peers, puts, torn>>
           /\ apart' = IF calls[c].op = "get" THEN apart ELSE apart \cup {calls[c].key}
           /\ Shapes'
           /\ \A d \in Slots : calls'[d] \in Call =>
                  /\ d # c /\ calls[d] \in Call
                  /\ calls'[d].op = calls[d].op /\ calls'[d].at = calls[d].at
                  /\ calls'[d].key = calls[d].key /\ calls'[d].val = calls[d].val
                  /\ calls'[d].alone = calls[d].alone /\ ~calls'[d].joined
                  /\ calls'[d].by = IF calls[d].by = c THEN Client ELSE calls[d].by
                  /\ calls'[d].pc = IF calls[d].pc = "wait" /\ calls[c].by = d
                                    THEN "send" ELSE calls[d].pc
                  /\ calls'[d].todo = calls[d].todo
                  /\ calls'[d].clean => calls[d].clean /\ calls[d].key # calls[c].key
           /\ \A d \in Slots \ {c} : calls[d] \in Call => calls'[d] \in Call
<1> DEFINE D == {c}
           g == Gone(D)
<1>1. /\ calls[c] \in Call /\ calls[c].pc = "wait"
      /\ calls' = Spoiled(g, calls[c].key)
      /\ UNCHANGED <<blocks, meta, buckets, peers, puts, torn>>
      /\ apart' = IF calls[c].op = "get" THEN apart ELSE apart \cup {calls[c].key}
  BY RunCall DEF HangUp, Active, Spoil
<1>2. D = {c}
  OBVIOUS
<1> HIDE DEF D
<1>3. /\ g \in [Slots -> Call \cup {Free}]
      /\ \A d \in Slots :
             /\ d \in D \/ calls[d] = Free => g[d] = Free
             /\ d \notin D /\ calls[d] \in Call =>
                   /\ g[d] \in Call
                   /\ g[d].op = calls[d].op /\ g[d].at = calls[d].at
                   /\ g[d].key = calls[d].key /\ g[d].val = calls[d].val
                   /\ g[d].alone = calls[d].alone /\ g[d].clean = calls[d].clean
                   /\ g[d].todo = calls[d].todo
                   /\ g[d].by = IF calls[d].by \in D THEN Client ELSE calls[d].by
                   /\ g[d].pc = IF calls[d].pc = "wait" /\ \E b \in D : calls[b].by = d
                                THEN "send" ELSE calls[d].pc
  BY GoneEffect DEF StoreInv
<1> HIDE DEF g
<1>4. Shapes'
  BY <1>1, <1>3, SpoiledEffect DEF StoreInv, Shapes
<1>5. ASSUME NEW d \in Slots, calls'[d] \in Call
      PROVE  g[d] \in Call /\ d \notin D /\ calls[d] \in Call
  <2>1. g[d] # Free
    BY <1>1, <1>3, <1>5, SpoiledEffect, CallFields
  <2> QED
    BY <1>3, <2>1 DEF StoreInv, Shapes
<1>6. ASSUME NEW d \in Slots, calls'[d] \in Call
      PROVE  /\ d \notin D /\ calls[d] \in Call
             /\ calls'[d].op = calls[d].op /\ calls'[d].at = calls[d].at
             /\ calls'[d].key = calls[d].key /\ calls'[d].val = calls[d].val
             /\ calls'[d].alone = calls[d].alone /\ ~calls'[d].joined
             /\ calls'[d].by = IF calls[d].by \in D THEN Client ELSE calls[d].by
             /\ calls'[d].pc = IF calls[d].pc = "wait" /\ \E b \in D : calls[b].by = d
                               THEN "send" ELSE calls[d].pc
             /\ calls'[d].todo = calls[d].todo
             /\ calls'[d].clean => calls[d].clean /\ calls[d].key # calls[c].key
  <2>1. g[d] \in Call /\ d \notin D /\ calls[d] \in Call
    BY <1>5, <1>6
  <2>2. /\ ~calls'[d].joined
        /\ calls'[d].op = g[d].op /\ calls'[d].at = g[d].at /\ calls'[d].key = g[d].key
        /\ calls'[d].val = g[d].val /\ calls'[d].by = g[d].by
        /\ calls'[d].pc = g[d].pc /\ calls'[d].alone = g[d].alone
        /\ calls'[d].todo = g[d].todo
        /\ calls'[d].clean => g[d].clean /\ g[d].key # calls[c].key
    BY <1>1, <1>3, <2>1, SpoiledEffect
  <2> QED
    BY <1>3, <2>1, <2>2
<1>7. \A d \in Slots \ D : calls[d] \in Call => calls'[d] \in Call
  BY <1>1, <1>3, SpoiledEffect
<1> QED
  BY <1>1, <1>2, <1>4, <1>6, <1>7

LEMMA HangUpInv ==
    ASSUME StoreInv, NEW c \in Slots, HangUp(c)
    PROVE  StoreInv'
<1> DEFINE D == {c}
<1>1. /\ Shapes' /\ UNCHANGED <<blocks, meta>> /\ torn \subseteq torn'
      /\ D \in SUBSET Slots /\ calls[c] \in Call /\ calls[c].pc = "wait"
      /\ \A d \in Slots \ D : calls[d] \in Call => calls'[d] \in Call
  BY HangUpEffect
<1>2. ASSUME NEW d \in Slots, calls'[d] \in Call
      PROVE  /\ d \notin D /\ calls[d] \in Call
             /\ calls'[d].op = calls[d].op /\ calls'[d].at = calls[d].at
             /\ calls'[d].key = calls[d].key /\ calls'[d].val = calls[d].val
             /\ calls'[d].alone = calls[d].alone /\ ~calls'[d].joined
             /\ calls'[d].by = IF calls[d].by \in D THEN Client ELSE calls[d].by
             /\ calls'[d].pc = IF calls[d].pc = "wait" /\ \E b \in D : calls[b].by = d
                               THEN "send" ELSE calls[d].pc
  BY <1>2, HangUpEffect
<1>3. \A d \in D : d = c
  OBVIOUS
<1> HIDE DEF D
<1> QED
  BY <1>1, <1>2, <1>3, GoneInv

LEMMA StoreRestartEffect ==
    ASSUME StoreInv, NEW s \in Stores, StoreRestart(s)
    PROVE  LET D == {c \in Active : calls[c].at = s} IN
           /\ D \in SUBSET Slots
           /\ \A c \in D : calls[c] \in Call
           /\ \A c \in D : calls[c].pc \in {"write", "index"} => <<calls[c].at, calls[c].key>> \in torn'
           /\ Shapes' /\ UNCHANGED <<blocks, meta, buckets>> /\ torn \subseteq torn'
           /\ apart' = apart \cup {calls[c].key : c \in D}
           /\ \A d \in Slots : calls'[d] \in Call =>
                  /\ d \notin D /\ calls[d] \in Call
                  /\ calls'[d].op = calls[d].op /\ calls'[d].at = calls[d].at
                  /\ calls'[d].key = calls[d].key /\ calls'[d].val = calls[d].val
                  /\ calls'[d].alone = calls[d].alone /\ ~calls'[d].joined /\ ~calls'[d].clean
                  /\ calls'[d].by = IF calls[d].by \in D THEN Client ELSE calls[d].by
                  /\ calls'[d].pc = IF calls[d].pc = "wait" /\ \E b \in D : calls[b].by = d
                                    THEN "send" ELSE calls[d].pc
                  /\ calls'[d].todo = calls[d].todo
           /\ \A d \in Slots \ D : calls[d] \in Call => calls'[d] \in Call
<1> DEFINE D == {c \in Active : calls[c].at = s}
           g == Gone(D)
<1>1. /\ calls' = [c \in Slots |-> IF g[c] = Free THEN Free
                                   ELSE [g[c] EXCEPT !.clean = FALSE, !.joined = FALSE]]
      /\ torn' = torn \cup {<<s, calls[c].key>> : c \in {c \in D : calls[c].pc \in {"write", "index"}}}
      /\ apart' = apart \cup {calls[c].key : c \in D}
      /\ peers' = [peers EXCEPT ![s] = {}]
      /\ UNCHANGED <<blocks, meta, buckets, puts>>
  BY DEF StoreRestart
<1>2. /\ D \in SUBSET Slots
      /\ \A c \in D : calls[c] \in Call /\ calls[c].at = s
      /\ \A c \in D : calls[c].pc \in {"write", "index"} => <<calls[c].at, calls[c].key>> \in torn'
  BY <1>1, ActiveCalls DEF StoreInv
<1> HIDE DEF D
<1>3. /\ g \in [Slots -> Call \cup {Free}]
      /\ \A d \in Slots :
             /\ d \in D \/ calls[d] = Free => g[d] = Free
             /\ d \notin D /\ calls[d] \in Call =>
                   /\ g[d] \in Call
                   /\ g[d].op = calls[d].op /\ g[d].at = calls[d].at
                   /\ g[d].key = calls[d].key /\ g[d].val = calls[d].val
                   /\ g[d].alone = calls[d].alone /\ g[d].todo = calls[d].todo
                   /\ g[d].by = IF calls[d].by \in D THEN Client ELSE calls[d].by
                   /\ g[d].pc = IF calls[d].pc = "wait" /\ \E b \in D : calls[b].by = d
                                THEN "send" ELSE calls[d].pc
  BY GoneEffect DEF StoreInv
<1> HIDE DEF g
<1>4. \A x \in Call : LET y == [x EXCEPT !.clean = FALSE, !.joined = FALSE] IN
          /\ y \in Call /\ ~y.joined /\ ~y.clean
          /\ y.op = x.op /\ y.at = x.at /\ y.key = x.key /\ y.val = x.val /\ y.by = x.by
          /\ y.pc = x.pc /\ y.alone = x.alone /\ y.todo = x.todo
  BY DEF Call
<1>5. ASSUME NEW d \in Slots
      PROVE  /\ g[d] = Free => calls'[d] = Free
             /\ g[d] \in Call =>
                   /\ calls'[d] \in Call /\ ~calls'[d].joined /\ ~calls'[d].clean
                   /\ calls'[d].op = g[d].op /\ calls'[d].at = g[d].at
                   /\ calls'[d].key = g[d].key /\ calls'[d].val = g[d].val
                   /\ calls'[d].by = g[d].by /\ calls'[d].pc = g[d].pc
                   /\ calls'[d].alone = g[d].alone /\ calls'[d].todo = g[d].todo
  <2>1. /\ g[d] = Free => calls'[d] = Free
        /\ g[d] \in Call => calls'[d] = [g[d] EXCEPT !.clean = FALSE, !.joined = FALSE]
    BY <1>1, CallFields
  <2> QED
    BY <1>4, <2>1
<1>6. Shapes'
  <2>1. calls' \in [Slots -> Call \cup {Free}]
    <3>1. \A d \in Slots : calls'[d] \in Call \cup {Free}
      BY <1>3, <1>5
    <3> QED
      BY <1>1, <3>1
  <2>2. peers' \in [Stores -> SUBSET Stores]
    BY <1>1 DEF StoreInv, Shapes
  <2> QED
    BY <1>1, <2>1, <2>2 DEF StoreInv, Shapes
<1>7. ASSUME NEW d \in Slots, calls'[d] \in Call
      PROVE  /\ d \notin D /\ calls[d] \in Call
             /\ calls'[d].op = calls[d].op /\ calls'[d].at = calls[d].at
             /\ calls'[d].key = calls[d].key /\ calls'[d].val = calls[d].val
             /\ calls'[d].alone = calls[d].alone /\ ~calls'[d].joined /\ ~calls'[d].clean
             /\ calls'[d].by = IF calls[d].by \in D THEN Client ELSE calls[d].by
             /\ calls'[d].pc = IF calls[d].pc = "wait" /\ \E b \in D : calls[b].by = d
                               THEN "send" ELSE calls[d].pc
             /\ calls'[d].todo = calls[d].todo
  <2>1. g[d] \in Call
    BY <1>3, <1>5, <1>7, CallFields
  <2>2. d \notin D /\ calls[d] \in Call
    BY <1>3, <2>1, CallFields DEF StoreInv, Shapes
  <2> QED
    BY <1>3, <1>5, <2>1, <2>2
<1>8. \A d \in Slots \ D : calls[d] \in Call => calls'[d] \in Call
  BY <1>3, <1>5
<1> QED
  BY <1>1, <1>2, <1>6, <1>7, <1>8 DEF D

LEMMA StoreRestartInv ==
    ASSUME StoreInv, NEW s \in Stores, StoreRestart(s)
    PROVE  StoreInv'
<1> DEFINE D == {c \in Active : calls[c].at = s}
<1>1. /\ Shapes' /\ UNCHANGED <<blocks, meta>> /\ torn \subseteq torn'
      /\ D \in SUBSET Slots
      /\ \A c \in D : calls[c] \in Call /\
             (calls[c].pc \in {"write", "index"} => <<calls[c].at, calls[c].key>> \in torn')
      /\ \A d \in Slots \ D : calls[d] \in Call => calls'[d] \in Call
  BY StoreRestartEffect
<1>2. ASSUME NEW d \in Slots, calls'[d] \in Call
      PROVE  /\ d \notin D /\ calls[d] \in Call
             /\ calls'[d].op = calls[d].op /\ calls'[d].at = calls[d].at
             /\ calls'[d].key = calls[d].key /\ calls'[d].val = calls[d].val
             /\ calls'[d].alone = calls[d].alone /\ ~calls'[d].joined
             /\ calls'[d].by = IF calls[d].by \in D THEN Client ELSE calls[d].by
             /\ calls'[d].pc = IF calls[d].pc = "wait" /\ \E b \in D : calls[b].by = d
                               THEN "send" ELSE calls[d].pc
  BY <1>2, StoreRestartEffect
<1> HIDE DEF D
<1> QED
  BY <1>1, <1>2, GoneInv

LEMMA InitStoreInv == StoreInit => StoreInv
<1> SUFFICES ASSUME StoreInit PROVE StoreInv
  OBVIOUS
<1>1. Missing \in Bytes /\ 0 \in 0 .. MaxPuts
  BY ObjectStoreConstants DEF Bytes, Torn, Missing
<1>2. Shapes
  BY <1>1 DEF StoreInit, Shapes
<1>3. Active = {}
  BY DEF StoreInit, Active
<1>4. \A s, k : Locally(s, k) = {}
  BY <1>3 DEF Locally, Writing
<1>5. \A s \in Stores, k \in Keys : meta[s][k] = blocks[s][k]
  BY DEF StoreInit
<1> QED
  BY <1>2, <1>3, <1>4, <1>5 DEF StoreInv, BlockInv, ReadInv

\* No other step moves the stores.
LEMMA NextStoreInv ==
    ASSUME StoreInv, [EventsNext]_eventVars
    PROVE  StoreInv'
<1>1. CASE HandlerMoves
  <2>1. ASSUME NEW c \in Slots, Works(c) PROVE StoreInv'
    BY <2>1, OpenBlockInv, WriteBlockInv, RemoveBlockInv, IndexInv, ReadBlockInv, CallPeerBegins, BeginsInv,
       PeerAnswersInv DEF Works
  <2>2. ASSUME NEW c \in Slots, Return(c) PROVE StoreInv'
    BY <2>2, ReturnInv
  <2>3. ASSUME NEW c \in Slots, Finishes(c) PROVE StoreInv'
    BY <2>3, FinishInv DEF Finishes
  <2> QED
    BY <1>1, <2>1, <2>2, <2>3 DEF HandlerMoves, Storing
<1>2. ASSUME NEW s \in Stores, CreateBucket(s) \/ Discover(s) \/ StoreRestart(s) PROVE StoreInv'
  <2>1. CASE CreateBucket(s)
    <3>1. UNCHANGED <<blocks, meta, calls, torn, puts, peers>>
      BY <2>1 DEF CreateBucket
    <3> QED
      BY <3>1, UnmovedInv DEF StoreInv, Shapes, AllJoined
  <2> QED
    BY <1>2, <2>1, DiscoverInv, StoreRestartInv
<1>3. ASSUME NEW s \in Stores, NEW k \in Keys, NEW op \in {"put", "get", "delete"}, Request(s, k, op)
      PROVE  StoreInv'
  BY <1>3, RequestBegins, BeginsInv
<1>4. ASSUME NEW c \in Slots, Fails(c) PROVE StoreInv'
  BY <1>4, CallLostInv, HangUpInv, OpenFailsInv, WriteFailsInv, UpsertFailsInv DEF Fails
<1>5. CASE UNCHANGED storeVars
  <2>1. UNCHANGED <<blocks, meta, calls, torn, puts, peers>>
    BY <1>5 DEF storeVars
  <2> QED
    BY <2>1, UnmovedInv DEF StoreInv, Shapes, AllJoined
<1> QED
  BY <1>1, <1>2, <1>3, <1>4, <1>5 DEF EventsNext, Storing, Notifies, Connects, eventVars

LEMMA StoresInvariant == EventsSpec => []StoreInv
<1>1. EventsInit => StoreInv
  BY InitStoreInv DEF EventsInit
<1>2. StoreInv /\ [EventsNext]_eventVars => StoreInv'
  BY NextStoreInv
<1> QED
  BY <1>1, <1>2, PTL DEF EventsSpec

\* Whatever handlers race, crash or are dropped, a store's row of an object
\* describes its file when nobody is between the two, unless the marks say so.
THEOREM RowsDescribeFiles == EventsSpec => []MetaMatchesBlock
<1>1. StoreInv => MetaMatchesBlock
  BY DEF StoreInv, BlockInv, MetaMatchesBlock
<1> QED
  BY <1>1, StoresInvariant, PTL

\* A GET is answered 404 only when a call was lost, refused or failed while it
\* lasted, or some store knew no peer: stores that name one another ask each
\* other on.
MissNeedsLoneStore ==
    \A c \in Active :
        calls[c].op = "get" /\ calls[c].pc = "error" /\ calls[c].key \notin Bucketed
            => ~calls[c].joined

\* How far the endless read reaches that the run miss_doc finds between two
\* stores: it is so among any number of them, for every object that no store has,
\* and a 404 comes only of a store out of reach or without a peer.
THEOREM MissesNeedAFault == EventsSpec => []MissNeedsLoneStore
<1>1. StoreInv => MissNeedsLoneStore
  BY DEF StoreInv, ReadInv, MissNeedsLoneStore
<1> QED
  BY <1>1, StoresInvariant, PTL
-----------------------------------------------------------------------------
(* Copies: what the handlers that write an object have still to do.        *)

\* The writes of clients that met no other write and lost no call.
Clean(k) == {c \in Writing(k) : calls[c].by = Client /\ calls[c].clean}

\* The stores that a write has been at, or has called.
Reached(c, s) ==
    \/ calls[c].pc = "index" /\ s = calls[c].at
    \/ calls[c].pc \in {"send", "wait"} /\ s \notin calls[c].todo

\* Those who wait for one another do not wait in a circle: some caller of any
\* set of handlers is outside it.
CallersEnd == \A S \in SUBSET Active : S # {} => \E c \in S : calls[c].by \notin S

\* Whoever writes an object during a clean write does so on its behalf.
OneWrite(k) ==
    \A c \in Clean(k), d \in Writing(k) :
        /\ calls[d].op = calls[c].op /\ calls[d].val = calls[c].val
        /\ calls[d].by = Client => d = c

\* A store that a clean write has reached has its bytes, or a handler there is
\* about to write them.
Follows(k) ==
    \A c \in Clean(k), s \in Stores :
        Reached(c, s) => \/ blocks[s][k] = calls[c].val
                         \/ \E d \in Locally(s, k) : calls[d].pc \in {"start", "write"}

\* Until a handler has begun, the files are the same.
Settled(k) ==
    k \notin apart /\ (\A d \in Writing(k) : calls[d].pc = "start")
        => \A s, t \in Stores : blocks[s][k] = blocks[t][k]

CopiesOf(k) == OneWrite(k) /\ Follows(k) /\ Settled(k)
CopyInv == CallersEnd /\ \A k \in Keys \ Bucketed : CopiesOf(k)

\* What writes an object, in terms of the calls.
LEMMA WritingCalls ==
    ASSUME Shapes, Shapes'
    PROVE  /\ \A k, c : c \in Writing(k) <=>
                  /\ c \in Slots /\ calls[c] \in Call /\ calls[c].op # "get"
                  /\ calls[c].key = k /\ calls[c].pc \notin {"ok", "error"}
           /\ \A k, c : c \in Writing(k)' <=>
                  /\ c \in Slots /\ calls'[c] \in Call /\ calls'[c].op # "get"
                  /\ calls'[c].key = k /\ calls'[c].pc \notin {"ok", "error"}
BY CallFields DEF Shapes, Writing, Active

\* The handlers x and y are at the same point of the same write, which may have
\* become less clean.
SamePoint(y, x) ==
    /\ y.op = x.op /\ y.at = x.at /\ y.val = x.val /\ y.by = x.by
    /\ y.todo = x.todo /\ y.pc = x.pc
    /\ y.clean => x.clean

\* A step elsewhere.
LEMMA SameKey ==
    ASSUME NEW k, CopiesOf(k), Writing(k)' = Writing(k),
           \A c \in Writing(k) : SamePoint(calls'[c], calls[c]),
           \A s \in Stores : blocks'[s][k] = blocks[s][k],
           k \in apart => k \in apart'
    PROVE  CopiesOf(k)'
<1>1. \A c \in Clean(k)' : c \in Clean(k)
  BY DEF Clean, SamePoint
<1>2. \A s : \A d \in Locally(s, k) : d \in Locally(s, k)' /\ calls'[d].pc = calls[d].pc
  BY DEF Locally, SamePoint
<1>3. OneWrite(k)'
  BY <1>1 DEF CopiesOf, OneWrite, SamePoint, Clean
<1>4. Follows(k)'
  <2> SUFFICES ASSUME NEW c \in Clean(k)', NEW s \in Stores, Reached(c, s)'
               PROVE  \/ blocks'[s][k] = calls'[c].val
                      \/ \E d \in Locally(s, k)' : calls'[d].pc \in {"start", "write"}
    BY DEF Follows
  <2>1. c \in Clean(k) /\ Reached(c, s) /\ calls'[c].val = calls[c].val
    BY <1>1 DEF Clean, Reached, SamePoint
  <2>2. \/ blocks[s][k] = calls[c].val
        \/ \E d \in Locally(s, k) : calls[d].pc \in {"start", "write"}
    BY <2>1 DEF CopiesOf, Follows
  <2> QED
    BY <1>2, <2>1, <2>2
<1>5. Settled(k)'
  BY DEF CopiesOf, Settled, SamePoint
<1> QED
  BY <1>3, <1>4, <1>5 DEF CopiesOf

\* A step that loses track of an object.
LEMMA SpoiledKey ==
    ASSUME NEW k, \A c \in Writing(k)' : ~calls'[c].clean, k \in apart'
    PROVE  CopiesOf(k)'
<1>1. Clean(k)' = {}
  BY DEF Clean
<1> QED
  BY <1>1 DEF CopiesOf, OneWrite, Follows, Settled

\* A handler goes on with its write: what it leaves behind is its bytes.
LEMMA WriterStep ==
    ASSUME NEW k, CopiesOf(k), Writing(k)' = Writing(k), NEW c \in Writing(k),
           \A d \in Writing(k) :
               /\ calls'[d].op = calls[d].op /\ calls'[d].at = calls[d].at
               /\ calls'[d].val = calls[d].val /\ calls'[d].by = calls[d].by
               /\ calls'[d].clean => calls[d].clean,
           \A d \in Writing(k) \ {c} : calls'[d].todo = calls[d].todo /\ calls'[d].pc = calls[d].pc,
           calls'[c].pc # "start",
           \A s \in Stores :
               \/ blocks'[s][k] = calls[c].val
               \/ s = calls[c].at /\ calls'[c].pc = "write"
               \/ /\ blocks'[s][k] = blocks[s][k]
                  /\ s # calls[c].at \/ calls[c].pc \notin {"start", "write"},
           \A s \in Stores :
               calls'[c].clean /\ Reached(c, s)' => Reached(c, s) \/ blocks'[s][k] = calls[c].val
    PROVE  CopiesOf(k)'
<1>1. \A e \in Clean(k)' : e \in Clean(k) /\ e \in Writing(k)
  BY DEF Clean
<1>2. OneWrite(k)'
  BY <1>1 DEF CopiesOf, OneWrite
<1>3. Follows(k)'
  <2> SUFFICES ASSUME NEW e \in Clean(k)', NEW s \in Stores, Reached(e, s)'
               PROVE  \/ blocks'[s][k] = calls'[e].val
                      \/ \E d \in Locally(s, k)' : calls'[d].pc \in {"start", "write"}
    BY DEF Follows
  <2>1. e \in Clean(k) /\ e \in Writing(k) /\ calls'[e].val = calls[c].val /\ calls[e].val = calls[c].val
    BY <1>1 DEF CopiesOf, OneWrite
  <2>2. CASE blocks'[s][k] = calls[c].val
    BY <2>1, <2>2
  <2>3. CASE s = calls[c].at /\ calls'[c].pc = "write"
    BY <2>3 DEF Locally
  <2>4. CASE /\ blocks'[s][k] = blocks[s][k] /\ blocks'[s][k] # calls[c].val
             /\ s # calls[c].at \/ calls[c].pc \notin {"start", "write"}
    <3>1. Reached(e, s)
      <4>1. CASE e = c
        BY <2>4, <4>1 DEF Clean
      <4>2. CASE e # c
        BY <2>1, <4>2 DEF Reached
      <4> QED
        BY <4>1, <4>2
    <3>2. PICK d \in Locally(s, k) : calls[d].pc \in {"start", "write"}
      BY <2>1, <2>4, <3>1 DEF CopiesOf, Follows
    <3>3. d # c /\ d \in Writing(k)
      BY <2>4, <3>2 DEF Locally
    <3>4. d \in Locally(s, k)' /\ calls'[d].pc = calls[d].pc
      BY <3>2, <3>3 DEF Locally
    <3> QED
      BY <3>2, <3>4
  <2> QED
    BY <2>2, <2>3, <2>4
<1>4. Settled(k)'
  BY DEF Settled
<1> QED
  BY <1>2, <1>3, <1>4 DEF CopiesOf

\* A handler is done with its write.
LEMMA LeaveStep ==
    ASSUME NEW k, CopiesOf(k), NEW c \in Writing(k), Writing(k)' = Writing(k) \ {c},
           \A d \in Writing(k) \ {c} : SamePoint(calls'[d], calls[d]),
           \A s \in Stores : blocks'[s][k] = blocks[s][k],
           calls[c].pc \in {"start", "write"} => blocks[calls[c].at][k] = calls[c].val,
           Settled(k)'
    PROVE  CopiesOf(k)'
<1>1. \A e \in Clean(k)' : e \in Clean(k) /\ e \in Writing(k) \ {c}
  BY DEF Clean, SamePoint
<1>2. OneWrite(k)'
  BY <1>1 DEF CopiesOf, OneWrite, SamePoint
<1>3. Follows(k)'
  <2> SUFFICES ASSUME NEW e \in Clean(k)', NEW s \in Stores, Reached(e, s)',
                      blocks'[s][k] # calls'[e].val
               PROVE  \E d \in Locally(s, k)' : calls'[d].pc \in {"start", "write"}
    BY DEF Follows
  <2>1. e \in Clean(k) /\ Reached(e, s) /\ calls'[e].val = calls[e].val /\ calls[e].val = calls[c].val
    BY <1>1 DEF CopiesOf, OneWrite, Reached, SamePoint
  <2>2. PICK d \in Locally(s, k) : calls[d].pc \in {"start", "write"}
    BY <2>1 DEF CopiesOf, Follows
  <2>3. d # c /\ d \in Writing(k)
    BY <2>1, <2>2 DEF Locally
  <2>4. d \in Locally(s, k)' /\ calls'[d].pc = calls[d].pc
    BY <2>2, <2>3 DEF Locally, SamePoint
  <2> QED
    BY <2>2, <2>4
<1> QED
  BY <1>2, <1>3 DEF CopiesOf

LEMMA NoneBegins ==
    ASSUME CallersEnd, Active' \subseteq Active,
           \A c \in Active' : calls'[c].by \in {calls[c].by, Client}
    PROVE  CallersEnd'
<1> SUFFICES ASSUME NEW S \in SUBSET Active', S # {} PROVE \E c \in S : calls'[c].by \notin S
  BY DEF CallersEnd
<1>1. PICK c \in S : calls[c].by \notin S
  BY DEF CallersEnd
<1>2. Client \notin S
  BY ClientIsNoSlot DEF Active
<1> QED
  BY <1>1, <1>2
\* A new handler writes nothing yet, and changes nobody's bytes.
LEMMA BeginsCopies ==
    ASSUME StoreInv, Shapes', CopyInv, UNCHANGED <<blocks, apart>>, NEW d \in Slots, Begins(d)
    PROVE  CopyInv'
<1> DEFINE x == calls'[d]
<1>1. /\ calls[d] = Free /\ x \in Call /\ x.pc = "start" /\ d \notin Active
  BY DEF Begins, Active
<1>2. ASSUME NEW c \in Slots \ {d}, calls[c] \in Call
      PROVE  /\ calls'[c] \in Call
             /\ calls'[c].op = calls[c].op /\ calls'[c].at = calls[c].at
             /\ calls'[c].key = calls[c].key /\ calls'[c].val = calls[c].val
             /\ calls'[c].by = calls[c].by
             /\ calls'[c].clean => calls[c].clean
             /\ x.op # "get" /\ x.by = Client /\ calls'[c].clean => c \notin Writing(x.key)
             /\ \/ calls'[c].pc = calls[c].pc /\ calls'[c].todo = calls[c].todo
                \/ /\ c = x.by /\ calls[c].pc = "send" /\ calls'[c].pc = "wait"
                   /\ calls'[c].todo = calls[c].todo \ {x.at}
  BY <1>2 DEF Begins
<1>3. \A c \in Slots : calls'[c] \in Call => c = d \/ calls[c] \in Call
  BY CallFields DEF Begins, StoreInv, Shapes
<1>4. x.by \in Active \cup {Client}
  BY CallFields, ActiveCalls DEF Begins, StoreInv
<1>5. \A k : Writing(k)' \ {d} = Writing(k) /\ d \notin Writing(k)
  BY <1>1, <1>2, <1>3, WritingCalls, CallFields DEF StoreInv
<1>6. \A k : d \in Writing(k)' <=> x.op # "get" /\ x.key = k
  BY <1>1, WritingCalls DEF StoreInv
<1>7. CallersEnd'
  <2> SUFFICES ASSUME NEW S \in SUBSET Active', S # {} PROVE \E c \in S : calls'[c].by \notin S
    BY DEF CallersEnd
  <2>1. \A c \in S \ {d} : c \in Active /\ calls'[c].by = calls[c].by
    BY <1>2, <1>3, ActiveCalls, CallFields DEF Active, StoreInv, Shapes
  <2>2. CASE S \ {d} = {}
    <3>1. S = {d} /\ x.by # d
      BY <1>1, <1>4, <2>2, ClientIsNoSlot
    <3> QED
      BY <3>1
  <2>3. CASE S \ {d} # {}
    <3>1. PICK c \in S \ {d} : calls[c].by \notin S \ {d}
      BY <2>1, <2>3 DEF CopyInv, CallersEnd
    <3>2. calls[c].by # d
      BY <1>1, <2>1, ClientIsNoSlot DEF StoreInv, ReadInv
    <3> QED
      BY <2>1, <3>1, <3>2
  <2> QED
    BY <2>2, <2>3
<1> HIDE DEF x
<1>8. ASSUME NEW k \in Keys \ Bucketed PROVE CopiesOf(k)'
  <2>0. CopiesOf(k) /\ Writing(k) \subseteq Slots \ {d} /\ \A c \in Writing(k) : calls[c] \in Call
    BY <1>5, WritingCalls DEF CopyInv, StoreInv
  <2>1. CASE x.op = "get" \/ x.key # k
    <3>1. Writing(k)' = Writing(k)
      BY <1>5, <1>6, <2>1
    <3>2. \A c \in Writing(k) : SamePoint(calls'[c], calls[c])
      <4> SUFFICES ASSUME NEW c \in Writing(k) PROVE c # x.by
        BY <1>2, <2>0 DEF SamePoint
      <4>1. calls[c].op # "get" /\ calls[c].key = k
        BY WritingCalls DEF StoreInv
      <4> QED
        BY <1>4, <2>0, <2>1, <4>1, ClientIsNoSlot DEF Begins, x
    <3> QED
      BY <2>0, <3>1, <3>2, SameKey
  <2>2. CASE x.op # "get" /\ x.key = k /\ x.by = Client
    <3>1. Writing(k)' = Writing(k) \cup {d}
      BY <1>5, <1>6, <2>2
    <3>2. x.clean => Writing(k) = {}
      BY <2>2 DEF Begins, x
    <3>3. \A c \in Clean(k)' : c = d /\ Writing(k)' = {d}
      BY <1>2, <2>0, <2>2, <3>1, <3>2 DEF Clean, x
    <3>4. OneWrite(k)'
      BY <3>3 DEF OneWrite
    <3>5. Follows(k)'
      BY <1>1, <3>3 DEF Follows, Reached, x
    <3>6. Settled(k)'
      <4>1. \A c \in Writing(k) : calls'[c].pc = "start" => calls[c].pc = "start"
        BY <1>2, <2>0
      <4> QED
        BY <2>0, <3>1, <4>1 DEF CopiesOf, Settled
    <3> QED
      BY <3>4, <3>5, <3>6 DEF CopiesOf
  <2>3. CASE x.op # "get" /\ x.key = k /\ x.by # Client
    <3> DEFINE b == x.by
    <3>1. Writing(k)' = Writing(k) \cup {d}
      BY <1>5, <1>6, <2>3
    <3>2. /\ b \in Slots \ {d} /\ calls[b] \in Call /\ calls[b].pc = "send" /\ calls'[b].pc = "wait"
          /\ calls[b].op = x.op /\ calls[b].key = k /\ calls[b].val = x.val
      BY <1>1, <1>4, <2>3, ActiveCalls DEF Begins, x, Active, StoreInv
    <3>3. b \in Writing(k)
      BY <2>3, <3>2, WritingCalls DEF StoreInv
    <3>4. \A c \in Clean(k)' : c \in Clean(k) /\ c # d /\ c \in Writing(k)
      BY <1>2, <2>0, <2>3, <3>1 DEF Clean, x
    <3>5. OneWrite(k)'
      <4> SUFFICES ASSUME NEW c \in Clean(k)', NEW e \in Writing(k)'
                   PROVE  /\ calls'[e].op = calls'[c].op /\ calls'[e].val = calls'[c].val
                          /\ calls'[e].by = Client => e = c
        BY DEF OneWrite
      <4>1. \A a \in Writing(k) : /\ calls[a].op = calls[c].op /\ calls[a].val = calls[c].val
                                  /\ calls[a].by = Client => a = c
        BY <2>0, <3>4 DEF CopiesOf, OneWrite
      <4>2. calls'[c].op = calls[c].op /\ calls'[c].val = calls[c].val
        BY <1>2, <2>0, <3>4
      <4>3. CASE e = d
        BY <2>3, <3>2, <3>3, <4>1, <4>2, <4>3 DEF x
      <4>4. CASE e # d
        BY <1>2, <2>0, <3>1, <4>1, <4>2, <4>4
      <4> QED
        BY <4>3, <4>4
    <3>6. Follows(k)'
      <4> SUFFICES ASSUME NEW c \in Clean(k)', NEW s \in Stores, Reached(c, s)'
                   PROVE  \/ blocks'[s][k] = calls'[c].val
                          \/ \E e \in Locally(s, k)' : calls'[e].pc \in {"start", "write"}
        BY DEF Follows
      <4>1. c \in Clean(k) /\ c \in Writing(k) /\ calls'[c].val = calls[c].val
        BY <1>2, <2>0, <3>4
      <4>2. CASE s = x.at
        <5>1. d \in Locally(s, k)'
          BY <1>1, <3>1, <4>2 DEF Locally, x
        <5> QED
          BY <1>1, <5>1 DEF x
      <4>3. CASE s # x.at
        <5>1. Reached(c, s)
          BY <1>2, <2>0, <4>1, <4>3 DEF Reached
        <5>2. \/ blocks[s][k] = calls[c].val
              \/ \E e \in Locally(s, k) : calls[e].pc \in {"start", "write"}
          BY <2>0, <4>1, <5>1 DEF CopiesOf, Follows
        <5>3. \A e \in Locally(s, k) : calls[e].pc \in {"start", "write"} =>
                  e \in Locally(s, k)' /\ calls'[e].pc = calls[e].pc
          BY <1>2, <2>0, <3>1 DEF Locally
        <5> QED
          BY <4>1, <5>2, <5>3
      <4> QED
        BY <4>2, <4>3
    <3>7. Settled(k)'
      BY <3>1, <3>2, <3>3 DEF Settled
    <3> QED
      BY <3>5, <3>6, <3>7 DEF CopiesOf
  <2> QED
    BY <2>1, <2>2, <2>3
<1> QED
  BY <1>7, <1>8 DEF CopyInv
\* A step of one handler: what becomes of its own object is left to show.
LEMMA OwnCopies ==
    ASSUME StoreInv, Shapes', CopyInv, NEW c \in Slots, calls[c] \in Call,
           \A d \in Slots \ {c} : calls'[d] = calls[d],
           \/ calls'[c] = Free
           \/ /\ calls'[c] \in Call /\ calls'[c].op = calls[c].op
              /\ calls'[c].key = calls[c].key /\ calls'[c].by = calls[c].by,
           \A k \in Keys \ Bucketed :
               \/ /\ k # calls[c].key \/ calls[c].op = "get"
                  /\ \A s \in Stores : blocks'[s][k] = blocks[s][k]
                  /\ k \in apart => k \in apart'
               \/ k = calls[c].key /\ calls[c].op # "get" /\ CopiesOf(k)'
    PROVE  CopyInv'
<1>1. CallersEnd'
  <2>1. Active' \subseteq Active /\ \A d \in Active' : calls'[d].by = calls[d].by
    BY CallFields DEF Active
  <2> QED
    BY <2>1, NoneBegins DEF CopyInv
<1>2. ASSUME NEW k \in Keys \ Bucketed PROVE CopiesOf(k)'
  <2>1. CASE /\ k # calls[c].key \/ calls[c].op = "get"
             /\ \A s \in Stores : blocks'[s][k] = blocks[s][k]
             /\ k \in apart => k \in apart'
    <3>1. c \notin Writing(k) /\ c \notin Writing(k)'
      BY <2>1, WritingCalls, CallFields DEF StoreInv
    <3>2. \A d : d \in Writing(k)' <=> d \in Writing(k)
      BY <3>1, WritingCalls DEF StoreInv
    <3>3. \A d \in Writing(k) : calls'[d] = calls[d]
      BY <3>1, WritingCalls DEF StoreInv
    <3>4. Writing(k)' = Writing(k)
      BY <3>2
    <3> QED
      BY <2>1, <3>3, <3>4, SameKey DEF CopyInv, SamePoint
  <2> QED
    BY <1>2, <2>1
<1> QED
  BY <1>1, <1>2 DEF CopyInv

\* A handler writes its file.
LEMMA FileCopies ==
    ASSUME StoreInv, StoreInv', CopyInv, NEW c \in Slots, calls[c] \in Call, calls[c].op # "get",
           calls[c].pc \in {"start", "write"}, NEW next \in {"write", "index"}, Become(c, next),
           NEW v, blocks' = [blocks EXCEPT ![calls[c].at][calls[c].key] = v],
           next = "index" => v = calls[c].val, apart' = apart
    PROVE  CopyInv'
<1> DEFINE k == calls[c].key
           s == calls[c].at
<1>1. s \in Stores /\ k \in Keys
  BY CallFields
<1>2. /\ \A t \in Stores, l \in Keys : t # s \/ l # k => blocks'[t][l] = blocks[t][l]
      /\ blocks'[s][k] = v
  BY <1>1 DEF StoreInv, Shapes
<1>3. /\ calls'[c] \in Call /\ calls'[c].pc = next
      /\ calls'[c].op = calls[c].op /\ calls'[c].at = s /\ calls'[c].key = k
      /\ calls'[c].val = calls[c].val /\ calls'[c].by = calls[c].by
      /\ calls'[c].clean = calls[c].clean
      /\ \A d \in Slots \ {c} : calls'[d] = calls[d]
  BY BecomeEffect DEF StoreInv
<1>4. ASSUME NEW l \in Keys \ Bucketed, l = k PROVE CopiesOf(l)'
  <2>1. CopiesOf(l)
    BY DEF CopyInv
  <2>2. c \in Writing(l) /\ Writing(l)' = Writing(l) /\ Writing(l) \subseteq Slots
    <3>1. c \in Writing(l) /\ c \in Writing(l)'
      BY <1>3, <1>4, WritingCalls DEF StoreInv
    <3>2. \A d \in Slots \ {c} : d \in Writing(l)' <=> d \in Writing(l)
      BY <1>3, WritingCalls DEF StoreInv
    <3>3. Writing(l) \subseteq Slots /\ Writing(l)' \subseteq Slots
      BY WritingCalls DEF StoreInv
    <3> QED
      BY <3>1, <3>2, <3>3
  <2>3. \A d \in Writing(l) :
            /\ calls'[d].op = calls[d].op /\ calls'[d].at = calls[d].at
            /\ calls'[d].val = calls[d].val /\ calls'[d].by = calls[d].by
            /\ calls'[d].clean => calls[d].clean
    BY <1>3, <2>2 DEF s
  <2>4. \A d \in Writing(l) \ {c} : calls'[d].todo = calls[d].todo /\ calls'[d].pc = calls[d].pc
    BY <1>3, <2>2
  <2>5. \A t \in Stores :
            \/ blocks'[t][l] = calls[c].val
            \/ t = calls[c].at /\ calls'[c].pc = "write"
            \/ /\ blocks'[t][l] = blocks[t][l]
               /\ t # calls[c].at \/ calls[c].pc \notin {"start", "write"}
    <3> SUFFICES ASSUME NEW t \in Stores
                 PROVE  \/ blocks'[t][l] = calls[c].val
                        \/ t = calls[c].at /\ calls'[c].pc = "write"
                        \/ blocks'[t][l] = blocks[t][l] /\ t # calls[c].at
      OBVIOUS
    <3>1. CASE t = calls[c].at
      BY <1>2, <1>3, <1>4, <3>1
    <3>2. CASE t # calls[c].at
      BY <1>2, <3>2
    <3> QED
      BY <3>1, <3>2
  <2>6. \A t \in Stores :
            calls'[c].clean /\ Reached(c, t)' => Reached(c, t) \/ blocks'[t][l] = calls[c].val
    BY <1>2, <1>3, <1>4 DEF Reached
  <2>7. calls'[c].pc # "start"
    BY <1>3
  <2> QED
    BY <2>1, <2>2, <2>3, <2>4, <2>5, <2>6, <2>7, WriterStep
<1> QED
  BY <1>1, <1>2, <1>3, <1>4, OwnCopies DEF StoreInv

LEMMA OpenBlockCopies ==
    ASSUME StoreInv, StoreInv', CopyInv, NEW c \in Slots, OpenBlock(c)
    PROVE  CopyInv'
<1>1. /\ calls[c] \in Call /\ calls[c].op = "put" /\ calls[c].pc = "start" /\ apart' = apart
  BY RunCall DEF OpenBlock, Run, Active
<1>2. CASE Become(c, "error") /\ UNCHANGED blocks /\ calls[c].key \in Bucketed
  BY <1>1, <1>2, BecomeEffect, OwnCopies DEF StoreInv
<1>3. CASE blocks' = [blocks EXCEPT ![calls[c].at][calls[c].key] = Torn] /\ Become(c, "write")
  BY <1>1, <1>3, FileCopies
<1> QED
  BY <1>2, <1>3 DEF OpenBlock

LEMMA WriteBlockCopies ==
    ASSUME StoreInv, StoreInv', CopyInv, NEW c \in Slots, WriteBlock(c)
    PROVE  CopyInv'
<1>1. /\ calls[c] \in Call /\ calls[c].op = "put" /\ calls[c].pc = "write" /\ apart' = apart
      /\ blocks' = [blocks EXCEPT ![calls[c].at][calls[c].key] = calls[c].val]
      /\ Become(c, "index")
  BY RunCall DEF WriteBlock, Run, Active
<1> QED
  BY <1>1, FileCopies

\* A delete that finds no file leaves none.
LEMMA RemoveBlockCopies ==
    ASSUME StoreInv, StoreInv', CopyInv, NEW c \in Slots, RemoveBlock(c)
    PROVE  CopyInv'
<1> DEFINE k == calls[c].key
<1>1. /\ calls[c] \in Call /\ calls[c].op = "delete" /\ calls[c].pc = "start" /\ apart' = apart
      /\ calls[c].val = Missing /\ k \in Keys
  BY RunCall, CallFields DEF RemoveBlock, Run, Active, StoreInv, BlockInv
<1>2. CASE Become(c, "error") /\ UNCHANGED blocks /\ blocks[calls[c].at][k] = Missing
  <2>1. ASSUME NEW l \in Keys \ Bucketed, l = k PROVE CopiesOf(l)'
    <3>1. CopiesOf(l)
      BY DEF CopyInv
    <3>2. c \in Writing(l) /\ Writing(l)' = Writing(l) \ {c} /\ Writing(l) \subseteq Slots
      BY <1>1, <1>2, <2>1, BecomeEffect, WritingCalls DEF StoreInv
    <3>3. \A d \in Writing(l) \ {c} : calls'[d] = calls[d]
      BY <1>1, <1>2, <3>2, BecomeEffect DEF StoreInv
    <3>4. \A d \in Writing(l) \ {c} : SamePoint(calls'[d], calls[d])
      BY <3>3 DEF SamePoint
    <3>5. Settled(l)'
      BY <1>1, <1>2, <3>1, <3>2, <3>3 DEF CopiesOf, Settled
    <3> QED
      BY <1>1, <1>2, <2>1, <3>1, <3>2, <3>4, <3>5, LeaveStep
  <2> QED
    BY <1>1, <1>2, <2>1, BecomeEffect, OwnCopies DEF StoreInv
<1>3. CASE blocks' = [blocks EXCEPT ![calls[c].at][k] = Missing] /\ Become(c, "index")
  BY <1>1, <1>3, FileCopies
<1> QED
  BY <1>2, <1>3 DEF RemoveBlock

\* A write that goes to all the others leaves none of them out.
LEMMA IndexCopies ==
    ASSUME StoreInv, StoreInv', CopyInv, NEW c \in Slots, Index(c)
    PROVE  CopyInv'
<1> DEFINE k == calls[c].key
<1>1. /\ calls[c] \in Call /\ calls[c].op # "get" /\ calls[c].pc = "index"
      /\ UNCHANGED <<blocks, apart>>
      /\ \A d \in Slots \ {c} : calls'[d] = calls[d]
      /\ calls'[c] \in Call /\ calls'[c].pc = "send"
      /\ calls'[c].op = calls[c].op /\ calls'[c].at = calls[c].at /\ calls'[c].key = k
      /\ calls'[c].val = calls[c].val /\ calls'[c].by = calls[c].by
      /\ calls'[c].clean /\ k \notin Bucketed
             => calls[c].clean /\ calls'[c].todo = Stores \ {calls[c].at}
  BY IndexEffect
<1>2. ASSUME NEW l \in Keys \ Bucketed, l = k PROVE CopiesOf(l)'
  <2>1. CopiesOf(l)
    BY DEF CopyInv
  <2>2. c \in Writing(l) /\ Writing(l)' = Writing(l) /\ Writing(l) \subseteq Slots
    <3>1. c \in Writing(l) /\ Writing(l) \subseteq Slots
      BY <1>1, <1>2, WritingCalls DEF StoreInv
    <3>2. c \in Writing(l)'
      BY <1>1, <1>2, WritingCalls DEF StoreInv
    <3>3. \A d : d # c => (d \in Writing(l)' <=> d \in Writing(l))
      BY <1>1, WritingCalls DEF StoreInv
    <3> QED
      BY <3>1, <3>2, <3>3
  <2>3. \A t \in Stores : calls'[c].clean /\ Reached(c, t)' => Reached(c, t)
    BY <1>1, <1>2 DEF Reached
  <2>4. \A d \in Writing(l) :
            /\ calls'[d].op = calls[d].op /\ calls'[d].at = calls[d].at
            /\ calls'[d].val = calls[d].val /\ calls'[d].by = calls[d].by
            /\ calls'[d].clean => calls[d].clean
    BY <1>1, <1>2, <2>2
  <2>5. \A d \in Writing(l) \ {c} : calls'[d].todo = calls[d].todo /\ calls'[d].pc = calls[d].pc
    BY <1>1, <2>2
  <2> QED
    BY <1>1, <2>1, <2>2, <2>3, <2>4, <2>5, WriterStep
<1> QED
  BY <1>1, <1>2, OwnCopies DEF StoreInv

LEMMA ReadBlockCopies ==
    ASSUME StoreInv, StoreInv', CopyInv, NEW c \in Slots, ReadBlock(c)
    PROVE  CopyInv'
<1>1. /\ calls[c] \in Call /\ calls[c].op = "get" /\ UNCHANGED <<blocks, apart>>
  BY ReadBlockEffect
<1>2. CASE Reads(c)
  <2>1. /\ calls'[c] \in Call /\ calls'[c].op = calls[c].op
        /\ calls'[c].key = calls[c].key /\ calls'[c].by = calls[c].by
        /\ \A d \in Slots \ {c} : calls'[d] = calls[d]
    BY <1>2 DEF Reads
  <2> QED
    BY <1>1, <2>1, OwnCopies DEF StoreInv
<1>3. CASE Spoils(c)
  <2>1. CallersEnd'
    <3>1. Active' \subseteq Active /\ \A d \in Active' : calls'[d].by = calls[d].by
      BY <1>3, CallFields DEF Active, Spoils
    <3> QED
      BY <3>1, NoneBegins DEF CopyInv
  <2>2. ASSUME NEW k \in Keys \ Bucketed PROVE CopiesOf(k)'
    <3>1. \A d : d \in Writing(k)' <=> d \in Writing(k)
      BY <1>1, <1>3, WritingCalls DEF StoreInv, Spoils
    <3>2. \A d \in Writing(k) : d \in Slots /\ d # c /\ calls'[d] \in Call
      BY <1>1, <1>3, WritingCalls DEF StoreInv, Spoils
    <3>3. \A d \in Writing(k) : SamePoint(calls'[d], calls[d])
      BY <1>3, <3>2 DEF SamePoint, Spoils
    <3>4. Writing(k)' = Writing(k)
      BY <3>1
    <3> QED
      BY <1>1, <3>3, <3>4, SameKey DEF CopyInv
  <2> QED
    BY <2>1, <2>2 DEF CopyInv
<1> QED
  BY <1>2, <1>3, ReadBlockEffect

\* The answer of a peer ends its handler, which has left its write before.
LEMMA PeerAnswersCopies ==
    ASSUME StoreInv, StoreInv', CopyInv, NEW d \in Slots, PeerAnswers(d)
    PROVE  CopyInv'
<1>1. PICK c : c = calls[d].by
  OBVIOUS
<1>2. /\ calls[d] \in Call /\ calls[d].pc \in {"ok", "error"} /\ calls'[d] = Free
      /\ UNCHANGED <<blocks, apart>>
      /\ c \in Slots /\ c # d /\ calls[c] \in Call /\ calls[c].pc = "wait"
      /\ \A b \in Slots \ {c, d} : calls'[b] = calls[b]
      /\ calls'[c] \in Call
      /\ calls'[c].op = calls[c].op /\ calls'[c].at = calls[c].at
      /\ calls'[c].key = calls[c].key /\ calls'[c].by = calls[c].by
      /\ calls'[c].todo = calls[c].todo /\ calls'[c].clean = calls[c].clean
      /\ calls[c].op # "get" => calls'[c].val = calls[c].val /\ calls'[c].pc = "send"
  BY <1>1, PeerAnswersEffect
<1>3. CallersEnd'
  <2>1. Active' \subseteq Active /\ \A b \in Active' : calls'[b].by = calls[b].by
    BY <1>2, CallFields DEF Active
  <2> QED
    BY <2>1, NoneBegins DEF CopyInv
<1>4. ASSUME NEW k \in Keys \ Bucketed PROVE CopiesOf(k)'
  <2>1. d \notin Writing(k) /\ d \notin Writing(k)' /\ Writing(k) \subseteq Slots
    BY <1>2, WritingCalls, CallFields DEF StoreInv
  <2>2. Writing(k)' = Writing(k)
    <3>1. c \in Writing(k)' <=> c \in Writing(k)
      BY <1>2, WritingCalls DEF StoreInv
    <3>2. \A b \in Slots \ {c, d} : b \in Writing(k)' <=> b \in Writing(k)
      BY <1>2, WritingCalls DEF StoreInv
    <3>3. Writing(k)' \subseteq Slots
      BY WritingCalls DEF StoreInv
    <3> QED
      BY <2>1, <3>1, <3>2, <3>3
  <2>3. \A b \in Writing(k) \ {c} : calls'[b] = calls[b]
    BY <1>2, <2>1
  <2>4. CASE c \in Writing(k)
    <3>1. calls[c].op # "get"
      BY <2>4, WritingCalls DEF StoreInv
    <3>2. calls'[c].val = calls[c].val /\ calls'[c].pc = "send"
      BY <1>2, <3>1
    <3>3. \A s \in Stores : Reached(c, s)' => Reached(c, s)
      BY <1>2, <3>2 DEF Reached
    <3>4. \A b \in Writing(k) :
              /\ calls'[b].op = calls[b].op /\ calls'[b].at = calls[b].at
              /\ calls'[b].val = calls[b].val /\ calls'[b].by = calls[b].by
              /\ calls'[b].clean => calls[b].clean
      BY <1>2, <2>3, <3>2
    <3>5. \A b \in Writing(k) \ {c} : calls'[b].todo = calls[b].todo /\ calls'[b].pc = calls[b].pc
      BY <2>3
    <3>6. /\ CopiesOf(k) /\ calls'[c].pc # "start" /\ calls[c].pc \notin {"start", "write"}
          /\ \A s \in Stores : blocks'[s][k] = blocks[s][k]
      BY <1>2, <3>2 DEF CopyInv
    <3> QED
      BY <2>2, <2>4, <3>3, <3>4, <3>5, <3>6, WriterStep
  <2>5. CASE c \notin Writing(k)
    BY <1>2, <2>2, <2>3, <2>5, SameKey DEF CopyInv, SamePoint
  <2> QED
    BY <2>4, <2>5
<1> QED
  BY <1>3, <1>4 DEF CopyInv

\* A lost call or handler is remembered: nobody who writes the object believes
\* in a clean write any more.
LEMMA LosesCopies ==
    ASSUME StoreInv, Shapes', CopyInv, blocks' = blocks, NEW c \in Slots, calls[c] \in Call,
           apart' = IF calls[c].op = "get" THEN apart ELSE apart \cup {calls[c].key},
           \A d \in Slots : calls'[d] \in Call =>
               /\ calls[d] \in Call
               /\ calls'[d].op = calls[d].op /\ calls'[d].at = calls[d].at
               /\ calls'[d].key = calls[d].key /\ calls'[d].val = calls[d].val
               /\ calls'[d].by \in {calls[d].by, Client}
               /\ calls'[d].clean => calls[d].clean /\ calls[d].key # calls[c].key,
           \A d \in Slots : calls[d] \in Call /\ (calls[d].key # calls[c].key \/ calls[d].op # calls[c].op) =>
               /\ calls'[d] \in Call
               /\ calls'[d].by = calls[d].by /\ calls'[d].pc = calls[d].pc
               /\ calls'[d].todo = calls[d].todo
    PROVE  CopyInv'
<1>1. CallersEnd'
  <2>1. Active' \subseteq Active /\ \A d \in Active' : calls'[d].by \in {calls[d].by, Client}
    BY CallFields DEF Active, Shapes
  <2> QED
    BY <2>1, NoneBegins DEF CopyInv
<1>2. ASSUME NEW k \in Keys \ Bucketed PROVE CopiesOf(k)'
  <2>1. CASE k = calls[c].key /\ calls[c].op # "get"
    <3>1. \A d \in Writing(k)' : ~calls'[d].clean
      BY <2>1, WritingCalls DEF StoreInv
    <3> QED
      BY <2>1, <3>1, SpoiledKey
  <2>2. CASE k # calls[c].key \/ calls[c].op = "get"
    <3>1. \A d \in Writing(k) : /\ d \in Slots /\ calls[d] \in Call /\ calls'[d] \in Call
                                /\ calls[d].key = k /\ calls[d].op # "get"
                                /\ calls'[d].by = calls[d].by /\ calls'[d].pc = calls[d].pc
                                /\ calls'[d].todo = calls[d].todo
      BY <2>2, WritingCalls DEF StoreInv
    <3>2. \A d \in Writing(k) : SamePoint(calls'[d], calls[d])
      BY <3>1 DEF SamePoint
    <3>3. \A d \in Writing(k) : d \in Writing(k)'
      BY <3>1, WritingCalls DEF StoreInv
    <3>4. \A d \in Writing(k)' : d \in Writing(k)
      <4> SUFFICES ASSUME NEW d \in Writing(k)' PROVE d \in Writing(k)
        OBVIOUS
      <4>1. /\ d \in Slots /\ calls'[d] \in Call /\ calls'[d].op # "get" /\ calls'[d].key = k
            /\ calls'[d].pc \notin {"ok", "error"}
        BY WritingCalls DEF StoreInv
      <4>2. calls[d] \in Call /\ calls[d].op # "get" /\ calls[d].key = k
        BY <4>1
      <4>3. calls'[d].pc = calls[d].pc
        BY <2>2, <4>1, <4>2
      <4> QED
        BY <4>1, <4>2, <4>3, WritingCalls DEF StoreInv
    <3>5. Writing(k)' = Writing(k) /\ (k \in apart => k \in apart')
      BY <3>3, <3>4
    <3> QED
      BY <3>2, <3>5, SameKey DEF CopyInv
  <2> QED
    BY <2>1, <2>2
<1> QED
  BY <1>1, <1>2 DEF CopyInv

LEMMA FailCopies ==
    ASSUME StoreInv, StoreInv', CopyInv, NEW c \in Slots,
           CallLost(c) \/ OpenFails(c) \/ WriteFails(c) \/ UpsertFails(c)
    PROVE  CopyInv'
<1>1. /\ Spoils(c) /\ blocks' = blocks
      /\ apart' = IF calls[c].op = "get" THEN apart ELSE apart \cup {calls[c].key}
  BY CallLostEffect, OpenFailsEffect, WriteFailsEffect, UpsertFailsEffect
<1>2. calls[c] \in Call
  BY <1>1 DEF Spoils
<1>3. \A d \in Slots : calls'[d] \in Call =>
          /\ calls[d] \in Call
          /\ calls'[d].op = calls[d].op /\ calls'[d].at = calls[d].at
          /\ calls'[d].key = calls[d].key /\ calls'[d].val = calls[d].val
          /\ calls'[d].by \in {calls[d].by, Client}
          /\ calls'[d].clean => calls[d].clean /\ calls[d].key # calls[c].key
  BY <1>1 DEF Spoils
<1>4. \A d \in Slots : calls[d] \in Call /\ (calls[d].key # calls[c].key \/ calls[d].op # calls[c].op) =>
          /\ calls'[d] \in Call
          /\ calls'[d].by = calls[d].by /\ calls'[d].pc = calls[d].pc
          /\ calls'[d].todo = calls[d].todo
  BY <1>1 DEF Spoils
<1> QED
  BY <1>1, <1>2, <1>3, <1>4, LosesCopies DEF StoreInv

\* Whom the handler called, and who called it, does the same work.
LEMMA HangUpCopies ==
    ASSUME StoreInv, StoreInv', CopyInv, NEW c \in Slots, HangUp(c)
    PROVE  CopyInv'
<1>1. /\ calls[c] \in Call /\ blocks' = blocks
      /\ apart' = IF calls[c].op = "get" THEN apart ELSE apart \cup {calls[c].key}
      /\ c \in Active
  BY HangUpEffect, ActiveCalls DEF StoreInv
<1>2. \A d \in Slots : calls'[d] \in Call =>
          /\ calls[d] \in Call
          /\ calls'[d].op = calls[d].op /\ calls'[d].at = calls[d].at
          /\ calls'[d].key = calls[d].key /\ calls'[d].val = calls[d].val
          /\ calls'[d].by \in {calls[d].by, Client}
          /\ calls'[d].clean => calls[d].clean /\ calls[d].key # calls[c].key
  BY HangUpEffect
<1>3. ASSUME NEW d \in Slots, calls[d] \in Call,
             calls[d].key # calls[c].key \/ calls[d].op # calls[c].op
      PROVE  /\ calls'[d] \in Call
             /\ calls'[d].by = calls[d].by /\ calls'[d].pc = calls[d].pc
             /\ calls'[d].todo = calls[d].todo
  <2>1. d # c /\ d \in Active
    BY <1>3, ActiveCalls DEF StoreInv
  <2>2. calls[d].by # c
    BY <1>3, <2>1, ClientIsNoSlot DEF StoreInv, ReadInv
  <2>3. calls[c].by # d
    BY <1>1, <1>3, <2>1, ClientIsNoSlot DEF StoreInv, ReadInv
  <2> QED
    BY <1>3, <2>1, <2>2, <2>3, HangUpEffect
<1> QED
  BY <1>1, <1>2, <1>3, LosesCopies DEF StoreInv
\* A clean write of a client ends when nobody writes on its behalf, and then it
\* has reached every store.
LEMMA CleanWriteIsEverywhere ==
    ASSUME StoreInv, CopyInv, NEW k \in Keys \ Bucketed, NEW c \in Clean(k),
           calls[c].pc = "send", calls[c].todo = {}
    PROVE  \A s \in Stores : blocks[s][k] = calls[c].val
<1>1. Writing(k) \subseteq Active /\ c \in Writing(k) /\ OneWrite(k) /\ Follows(k)
  BY DEF Clean, Writing, CopyInv, CopiesOf
<1>2. Writing(k) \ {c} = {}
  <2> SUFFICES ASSUME Writing(k) \ {c} # {} PROVE FALSE
    OBVIOUS
  <2>1. PICK d \in Writing(k) \ {c} : calls[d].by \notin Writing(k) \ {c}
    BY <1>1 DEF CopyInv, CallersEnd
  <2> DEFINE b == calls[d].by
  <2>2. b # Client
    BY <1>1, <2>1 DEF OneWrite
  <2>3. /\ b \in Active /\ calls[b].pc = "wait"
        /\ calls[b].op = calls[d].op /\ calls[b].key = calls[d].key
    BY <1>1, <2>1, <2>2 DEF StoreInv, ReadInv
  <2> HIDE DEF b
  <2>4. b \in Writing(k)
    BY <2>1, <2>3 DEF Writing
  <2>5. b = c
    BY <2>1, <2>4 DEF b
  <2> QED
    BY <2>3, <2>5
<1>3. ASSUME NEW s \in Stores PROVE blocks[s][k] = calls[c].val
  <2>1. Reached(c, s)
    BY DEF Reached
  <2>2. Locally(s, k) = {}
    BY <1>2 DEF Locally
  <2> QED
    BY <1>1, <2>1, <2>2 DEF Follows
<1> QED
  BY <1>3

LEMMA FinishCopies ==
    ASSUME StoreInv, StoreInv', CopyInv, NEW c \in Slots, Finish(c)
    PROVE  CopyInv'
<1>1. /\ calls[c] \in Call /\ calls[c].pc = "send" /\ calls[c].todo = {} /\ blocks' = blocks
      /\ c \in Active
      /\ apart' = IF calls[c].op = "get" \/ calls[c].by # Client THEN apart
                  ELSE IF calls[c].clean THEN apart \ {calls[c].key}
                  ELSE apart \cup {calls[c].key}
  BY RunCall DEF Finish, Active
<1>2. /\ calls'[c] \in Call /\ calls'[c].op = calls[c].op
      /\ calls'[c].pc = IF calls[c].op = "get" THEN "error" ELSE "ok"
      /\ calls'[c].key = calls[c].key /\ calls'[c].by = calls[c].by
      /\ \A d \in Slots \ {c} : calls'[d] = calls[d]
  BY <1>1, BecomeEffect DEF StoreInv, Finish
<1>3. ASSUME NEW k \in Keys \ Bucketed, k = calls[c].key, calls[c].op # "get"
      PROVE  CopiesOf(k)'
  <2>1. /\ c \in Writing(k) /\ Writing(k)' = Writing(k) \ {c}
        /\ Writing(k) \subseteq Slots /\ CopiesOf(k)
    BY <1>1, <1>2, <1>3, WritingCalls DEF StoreInv, CopyInv
  <2>2. \A d \in Writing(k) \ {c} : SamePoint(calls'[d], calls[d])
    BY <1>2, <2>1 DEF SamePoint
  <2>3. Settled(k)'
    <3> SUFFICES ASSUME k \notin apart', \A d \in Writing(k)' : calls'[d].pc = "start"
                 PROVE  \A s, t \in Stores : blocks[s][k] = blocks[t][k]
      BY <1>1 DEF Settled
    <3>1. CASE calls[c].by = Client
      <4>1. calls[c].clean
        BY <1>1, <1>3, <3>1
      <4>2. c \in Clean(k)
        BY <2>1, <3>1, <4>1 DEF Clean
      <4> QED
        BY <1>1, <4>2, CleanWriteIsEverywhere
    <3>2. CASE calls[c].by # Client
      <4> DEFINE b == calls[c].by
      <4>1. /\ b \in Active /\ calls[b].pc = "wait"
            /\ calls[b].op = calls[c].op /\ calls[b].key = calls[c].key
        BY <1>1, <3>2 DEF StoreInv, ReadInv
      <4> HIDE DEF b
      <4>2. b \in Writing(k) /\ b # c
        BY <1>1, <1>3, <4>1 DEF Writing
      <4>3. calls'[b].pc = "wait" /\ b \in Writing(k)'
        BY <1>2, <2>1, <4>1, <4>2
      <4> QED
        BY <4>3
    <3> QED
      BY <3>1, <3>2
  <2> QED
    BY <1>1, <2>1, <2>2, <2>3, LeaveStep
<1>4. \A k \in Keys \ Bucketed : k # calls[c].key \/ calls[c].op = "get" =>
          (k \in apart => k \in apart')
  BY <1>1
<1> QED
  BY <1>1, <1>2, <1>3, <1>4, OwnCopies DEF StoreInv

\* A step that ends no write and begins none.
LEMMA UnmovedCopies ==
    ASSUME Shapes, Shapes', CopyInv, UNCHANGED <<blocks, apart>>,
           \A c \in Slots : calls'[c] \in Call =>
               calls[c] \in Call /\ calls'[c].by = calls[c].by,
           \A c \in Slots : calls[c] \in Call /\ calls[c].pc \notin {"ok", "error"} =>
               calls'[c] \in Call,
           \A c \in Slots : calls'[c] \in Call =>
               calls'[c].key = calls[c].key /\ SamePoint(calls'[c], calls[c])
    PROVE  CopyInv'
<1>1. CallersEnd'
  <2>1. Active' \subseteq Active /\ \A d \in Active' : calls'[d].by = calls[d].by
    BY CallFields DEF Active, Shapes
  <2> QED
    BY <2>1, NoneBegins DEF CopyInv
<1>2. ASSUME NEW k \in Keys \ Bucketed PROVE CopiesOf(k)'
  <2>1. \A d \in Writing(k) : d \in Writing(k)' /\ SamePoint(calls'[d], calls[d])
    BY WritingCalls DEF SamePoint
  <2>2. \A d \in Writing(k)' : d \in Writing(k)
    BY WritingCalls DEF SamePoint
  <2>3. Writing(k)' = Writing(k)
    BY <2>1, <2>2
  <2> QED
    BY <2>1, <2>3, SameKey DEF CopyInv
<1> QED
  BY <1>1, <1>2 DEF CopyInv

LEMMA ReturnCopies ==
    ASSUME StoreInv, StoreInv', CopyInv, NEW c \in Slots, Return(c)
    PROVE  CopyInv'
<1>1. /\ calls[c] \in Call /\ calls[c].pc \in {"ok", "error"}
      /\ calls' = [calls EXCEPT ![c] = Free] /\ UNCHANGED <<blocks, apart>>
  BY RunCall DEF Return, Active
<1>2. calls'[c] = Free /\ \A d \in Slots \ {c} : calls'[d] = calls[d]
  BY <1>1 DEF StoreInv, Shapes
<1> QED
  BY <1>1, <1>2, UnmovedCopies, CallFields DEF StoreInv, SamePoint

LEMMA DiscoverCopies ==
    ASSUME StoreInv, StoreInv', CopyInv, NEW s \in Stores, Discover(s)
    PROVE  CopyInv'
<1>1. /\ UNCHANGED <<blocks, apart>>
      /\ \/ calls' = calls
         \/ calls' = [c \in Slots |-> IF calls[c] = Free THEN Free
                                      ELSE [calls[c] EXCEPT !.joined = FALSE]]
  BY DEF Discover
<1>2. CASE calls' = calls
  BY <1>1, <1>2, UnmovedCopies DEF StoreInv, SamePoint
<1>3. CASE calls' = [c \in Slots |-> IF calls[c] = Free THEN Free
                                     ELSE [calls[c] EXCEPT !.joined = FALSE]]
  <2>1. \A x \in Call : LET y == [x EXCEPT !.joined = FALSE] IN
            y \in Call /\ y.key = x.key /\ SamePoint(y, x)
    BY DEF Call, SamePoint
  <2>2. ASSUME NEW c \in Slots
        PROVE  /\ calls[c] = Free => calls'[c] = Free
               /\ calls[c] \in Call => calls'[c] = [calls[c] EXCEPT !.joined = FALSE]
    BY <1>3, CallFields
  <2>3. \A c \in Slots : calls[c] \in Call =>
            calls'[c] \in Call /\ calls'[c].key = calls[c].key /\ SamePoint(calls'[c], calls[c])
    BY <2>1, <2>2
  <2>4. \A c \in Slots : calls'[c] \in Call => calls[c] \in Call
    BY <2>2, CallFields DEF StoreInv, Shapes
  <2>5. \A c \in Slots : calls'[c] \in Call => calls'[c].by = calls[c].by
    BY <2>3, <2>4 DEF SamePoint
  <2> QED
    BY <1>1, <2>3, <2>4, <2>5, UnmovedCopies DEF StoreInv
<1> QED
  BY <1>1, <1>2, <1>3
\* No write is clean across a restart of a store, and the objects its handlers
\* were at are remembered.
LEMMA StoreRestartCopies ==
    ASSUME StoreInv, StoreInv', CopyInv, NEW s \in Stores, StoreRestart(s)
    PROVE  CopyInv'
<1>0. PICK D : D = {c \in Active : calls[c].at = s}
  OBVIOUS
<1>1. /\ D \in SUBSET Slots /\ \A c \in D : calls[c] \in Call /\ c \in Active
      /\ blocks' = blocks /\ apart' = apart \cup {calls[c].key : c \in D}
      /\ \A d \in Slots \ D : calls[d] \in Call => calls'[d] \in Call
  BY <1>0, StoreRestartEffect
<1>2. \A d \in Slots : calls'[d] \in Call =>
          /\ d \notin D /\ calls[d] \in Call
          /\ calls'[d].op = calls[d].op /\ calls'[d].at = calls[d].at
          /\ calls'[d].key = calls[d].key /\ calls'[d].val = calls[d].val
          /\ ~calls'[d].clean
          /\ calls'[d].by = IF calls[d].by \in D THEN Client ELSE calls[d].by
          /\ calls'[d].pc = IF calls[d].pc = "wait" /\ \E b \in D : calls[b].by = d
                            THEN "send" ELSE calls[d].pc
          /\ calls'[d].todo = calls[d].todo
  BY <1>0, StoreRestartEffect
<1>3. CallersEnd'
  <2>1. Active' \subseteq Active /\ \A d \in Active' : calls'[d].by \in {calls[d].by, Client}
    BY <1>2, CallFields DEF Active, StoreInv, Shapes
  <2> QED
    BY <2>1, NoneBegins DEF CopyInv
<1>4. ASSUME NEW k \in Keys \ Bucketed PROVE CopiesOf(k)'
  <2>1. CASE \E c \in D : calls[c].key = k
    <3>1. \A d \in Writing(k)' : ~calls'[d].clean
      BY <1>2, WritingCalls DEF StoreInv
    <3> QED
      BY <1>1, <2>1, <3>1, SpoiledKey
  <2>2. CASE \A c \in D : calls[c].key # k
    <3>1. ASSUME NEW d \in Slots, calls[d] \in Call, calls[d].key = k
          PROVE  /\ calls'[d] \in Call
                 /\ SamePoint(calls'[d], calls[d])
      <4>1. d \notin D /\ d \in Active /\ calls'[d] \in Call
        BY <1>1, <2>2, <3>1, ActiveCalls DEF StoreInv
      <4>2. calls[d].by \notin D
        <5> SUFFICES ASSUME calls[d].by \in D PROVE FALSE
          OBVIOUS
        <5>1. calls[d].by # Client
          BY <1>1, ClientIsNoSlot
        <5> QED
          BY <2>2, <3>1, <4>1, <5>1 DEF StoreInv, ReadInv
      <4>3. \A b \in D : calls[b].by # d
        <5> SUFFICES ASSUME NEW b \in D, calls[b].by = d PROVE FALSE
          OBVIOUS
        <5>1. calls[b].by # Client /\ b \in Active
          BY <1>1, <3>1, ClientIsNoSlot
        <5> QED
          BY <2>2, <3>1, <5>1 DEF StoreInv, ReadInv
      <4> QED
        BY <1>2, <4>1, <4>2, <4>3 DEF SamePoint
    <3>2. \A d \in Writing(k) : d \in Writing(k)' /\ SamePoint(calls'[d], calls[d])
      <4> SUFFICES ASSUME NEW d \in Writing(k)
                   PROVE  d \in Writing(k)' /\ SamePoint(calls'[d], calls[d])
        OBVIOUS
      <4>1. /\ d \in Slots /\ calls[d] \in Call /\ calls[d].key = k /\ calls[d].op # "get"
            /\ calls[d].pc \notin {"ok", "error"}
        BY WritingCalls DEF StoreInv
      <4>2. calls'[d] \in Call /\ SamePoint(calls'[d], calls[d]) /\ calls'[d].key = k
        BY <1>2, <3>1, <4>1
      <4> QED
        BY <4>1, <4>2, WritingCalls DEF StoreInv, SamePoint
    <3>3. \A d \in Writing(k)' : d \in Writing(k)
      <4> SUFFICES ASSUME NEW d \in Writing(k)' PROVE d \in Writing(k)
        OBVIOUS
      <4>1. /\ d \in Slots /\ calls'[d] \in Call /\ calls'[d].key = k /\ calls'[d].op # "get"
            /\ calls'[d].pc \notin {"ok", "error"}
        BY WritingCalls DEF StoreInv
      <4>2. calls[d] \in Call /\ calls[d].key = k
        BY <1>2, <4>1
      <4>3. SamePoint(calls'[d], calls[d])
        BY <3>1, <4>1, <4>2
      <4> QED
        BY <4>1, <4>2, <4>3, WritingCalls DEF StoreInv, SamePoint
    <3>4. Writing(k)' = Writing(k) /\ (k \in apart => k \in apart')
      BY <1>1, <3>2, <3>3
    <3> QED
      BY <1>1, <3>2, <3>4, SameKey DEF CopyInv
  <2> QED
    BY <2>1, <2>2
<1> QED
  BY <1>3, <1>4 DEF CopyInv

LEMMA InitCopies == StoreInit => CopyInv
<1> SUFFICES ASSUME StoreInit PROVE CopyInv
  OBVIOUS
<1>1. Active = {}
  BY DEF StoreInit, Active
<1>2. ASSUME NEW k \in Keys PROVE CopiesOf(k)
  <2>1. Writing(k) = {} /\ Clean(k) = {}
    BY <1>1 DEF Writing, Clean
  <2>2. \A s, t \in Stores : blocks[s][k] = blocks[t][k]
    BY DEF StoreInit
  <2> QED
    BY <2>1, <2>2 DEF CopiesOf, OneWrite, Follows, Settled
<1> QED
  BY <1>1, <1>2 DEF CopyInv, CallersEnd

LEMMA NextCopies ==
    ASSUME StoreInv, StoreInv', CopyInv, [EventsNext]_eventVars
    PROVE  CopyInv'
<1>1. CASE HandlerMoves
  <2>1. ASSUME NEW c \in Slots, Works(c) PROVE CopyInv'
    <3>1. ASSUME CallPeer(c) PROVE CopyInv'
      BY <3>1, CallPeerBegins, BeginsCopies
    <3> QED
      BY <2>1, <3>1, OpenBlockCopies, WriteBlockCopies, RemoveBlockCopies, IndexCopies,
         ReadBlockCopies, PeerAnswersCopies DEF Works
  <2>2. ASSUME NEW c \in Slots, Return(c) PROVE CopyInv'
    BY <2>2, ReturnCopies
  <2>3. ASSUME NEW c \in Slots, Finishes(c) PROVE CopyInv'
    BY <2>3, FinishCopies DEF Finishes
  <2> QED
    BY <1>1, <2>1, <2>2, <2>3 DEF HandlerMoves, Storing
<1>2. ASSUME NEW s \in Stores, CreateBucket(s) \/ Discover(s) \/ StoreRestart(s) PROVE CopyInv'
  <2>1. CASE CreateBucket(s)
    <3>1. UNCHANGED <<blocks, calls, apart>>
      BY <2>1 DEF CreateBucket
    <3> QED
      BY <3>1, UnmovedCopies DEF StoreInv, SamePoint
  <2> QED
    BY <1>2, <2>1, DiscoverCopies, StoreRestartCopies
<1>3. ASSUME NEW s \in Stores, NEW k \in Keys, NEW op \in {"put", "get", "delete"}, Request(s, k, op)
      PROVE  CopyInv'
  BY <1>3, RequestBegins, BeginsCopies
<1>4. ASSUME NEW c \in Slots, Fails(c) PROVE CopyInv'
  BY <1>4, HangUpCopies, FailCopies DEF Fails
<1>5. CASE UNCHANGED storeVars
  <2>1. UNCHANGED <<blocks, calls, apart>>
    BY <1>5 DEF storeVars
  <2> QED
    BY <2>1, UnmovedCopies DEF StoreInv, SamePoint
<1> QED
  BY <1>1, <1>2, <1>3, <1>4, <1>5 DEF EventsNext, Storing, Notifies, Connects, eventVars

\* Among any number of stores, and however handlers nest, race, are dropped or
\* crash: an object that nobody writes is the same everywhere, unless what its
\* last write left out is remembered.
THEOREM CopiesAgree == EventsSpec => []ReplicasAgree
<1>1. EventsInit => StoreInv /\ CopyInv
  BY InitStoreInv, InitCopies DEF EventsInit
<1>2. StoreInv /\ CopyInv /\ [EventsNext]_eventVars => (StoreInv /\ CopyInv)'
  BY NextStoreInv, NextCopies
<1>3. CopyInv => ReplicasAgree
  BY DEF CopyInv, CopiesOf, Settled, ReplicasAgree
<1> QED
  BY <1>1, <1>2, <1>3, PTL DEF EventsSpec
-----------------------------------------------------------------------------
(***************************************************************************)
(* Bags                                                                    *)
(***************************************************************************)
HowMany(B, e) == IF e \in DOMAIN B THEN B[e] ELSE 0

LEMMA NoneInEmptyBag ==
    /\ IsABag(EmptyBag) /\ BagToSet(EmptyBag) = {}
    /\ \A e : HowMany(EmptyBag, e) = 0
BY DEF IsABag, EmptyBag, SetToBag, BagToSet, HowMany

LEMMA CountInBag ==
    ASSUME NEW B, IsABag(B), NEW e
    PROVE  /\ HowMany(B, e) \in Nat
           /\ e \in BagToSet(B) <=> HowMany(B, e) > 0
           /\ e \in BagToSet(B) => HowMany(B, e) = B[e]
BY DEF IsABag, BagToSet, HowMany

LEMMA RemovedFromBag ==
    ASSUME NEW B, IsABag(B), NEW x, BagIn(x, B)
    PROVE  /\ IsABag(B (-) SetToBag({x}))
           /\ BagToSet(B (-) SetToBag({x})) \subseteq BagToSet(B)
           /\ \A e : HowMany(B (-) SetToBag({x}), e) = IF e = x THEN HowMany(B, e) - 1 ELSE HowMany(B, e)
BY DEF IsABag, (-), SetToBag, BagIn, BagToSet, HowMany

LEMMA SumOfBags ==
    ASSUME NEW B, IsABag(B), NEW C, IsABag(C)
    PROVE  /\ IsABag(B (+) C)
           /\ BagToSet(B (+) C) = BagToSet(B) \cup BagToSet(C)
           /\ \A e : HowMany(B (+) C, e) = HowMany(B, e) + HowMany(C, e)
BY DEF IsABag, BagToSet, (+), HowMany

LEMMA SetAsBag ==
    ASSUME NEW S
    PROVE  /\ IsABag(SetToBag(S)) /\ BagToSet(SetToBag(S)) = S
           /\ \A e : HowMany(SetToBag(S), e) = IF e \in S THEN 1 ELSE 0
BY DEF IsABag, SetToBag, BagToSet, HowMany
-----------------------------------------------------------------------------
(***************************************************************************)
(* Types                                                                   *)
(***************************************************************************)
\* The subscriptions of lambda, of which it has made no more than it started,
\* those on their way included: this bounds what is on its way, and what one
\* notice is delivered as.
OfLambda == {r \in subscriptions : r.who = Lambda}

TopicTyped ==
    /\ TriggersTypeOK
    /\ IsFiniteSet(OfLambda)
    /\ Cardinality(OfLambda) + subscribing <= starts

LEMMA InsertSubscriptionTyped ==
    ASSUME TopicTyped, NEW who \in Others \cup {Lambda}, InsertSubscription(who)
    PROVE  /\ subscriptions' \subseteq Subscription /\ subSeq' \in 0 .. MaxRows
           /\ subAnswered' \subseteq Subscription /\ subFailed' \subseteq subAnswered'
           /\ IsFiniteSet(OfLambda')
           /\ Cardinality(OfLambda) \in Nat /\ Cardinality(OfLambda') \in Nat
           /\ Cardinality(OfLambda') <= Cardinality(OfLambda) + (IF who = Lambda THEN 1 ELSE 0)
<1>1. PICK row : row = [id |-> subSeq + 1, who |-> who]
  OBVIOUS
<1>2. /\ subSeq' = subSeq + 1 /\ subAnswered' = subAnswered \cup {row}
      /\ subFailed' \in {subFailed, subFailed \cup {row}}
      /\ subscriptions' \in {subscriptions, subscriptions \cup {row}}
  BY <1>1 DEF InsertSubscription
<1>3. subSeq + 1 \in Numbers
  BY TriggersConstants DEF TopicTyped, TriggersTypeOK, InsertSubscription, Numbers
<1>4. row \in Subscription /\ row.who = who
  BY <1>1, <1>3 DEF Subscription
<1>5. OfLambda' \in {OfLambda, OfLambda \cup {row}}
  BY <1>2 DEF OfLambda
<1>6. who # Lambda => OfLambda' = OfLambda
  BY <1>2, <1>4 DEF OfLambda
<1>7. IsFiniteSet(OfLambda) /\ Cardinality(OfLambda) \in Nat
  BY FS_CardinalityType DEF TopicTyped
<1>8. IsFiniteSet(OfLambda \cup {row}) /\ Cardinality(OfLambda \cup {row}) \in Nat
      /\ Cardinality(OfLambda \cup {row}) <= Cardinality(OfLambda) + 1
  BY <1>7, FS_AddElement, FS_CardinalityType
<1>9. /\ IsFiniteSet(OfLambda') /\ Cardinality(OfLambda') \in Nat
      /\ Cardinality(OfLambda') <= Cardinality(OfLambda) + (IF who = Lambda THEN 1 ELSE 0)
  <2>1. CASE OfLambda' = OfLambda
    BY <1>7, <2>1
  <2>2. CASE OfLambda' = OfLambda \cup {row} /\ who = Lambda
    BY <1>8, <2>2
  <2> QED
    BY <1>5, <1>6, <2>1, <2>2
<1>10. subSeq' \in 0 .. MaxRows
  BY <1>2, <1>3 DEF Numbers
<1> QED
  BY <1>2, <1>4, <1>7, <1>9, <1>10 DEF TopicTyped, TriggersTypeOK

LEMMA NothingIsLess ==
    ASSUME TopicTyped
    PROVE  Cardinality(OfLambda) \in Nat /\ subscribing \in Nat /\ starts \in Nat
BY FS_CardinalityType, TriggersConstants DEF TopicTyped, TriggersTypeOK

LEMMA SnsTyped ==
    ASSUME TopicTyped, SnsMoves
    PROVE  TopicTyped'
<1>1. CASE SnsRestart
  <2>1. subBefore' \in 0 .. MaxRows
    BY <1>1, MaxOfTwo, TriggersConstants DEF SnsRestart, TopicTyped, TriggersTypeOK
  <2>2. snsStarts' \in 1 .. MaxStarts /\ subSeq' \in 0 .. MaxRows
    BY <1>1, TriggersConstants DEF SnsRestart, TopicTyped, TriggersTypeOK
  <2>3. OfLambda' = OfLambda
    BY <1>1 DEF SnsRestart, OfLambda
  <2> QED
    BY <1>1, <2>1, <2>2, <2>3 DEF SnsRestart, lambdaVars, TopicTyped, TriggersTypeOK
<1>2. ASSUME NEW who \in Others, SubscribeOther(who) PROVE TopicTyped'
  <2>1. who # Lambda /\ InsertSubscription(who)
    BY <1>2, TriggersConstants DEF SubscribeOther
  <2>2. Cardinality(OfLambda') + subscribing <= starts
    BY <2>1, InsertSubscriptionTyped, NothingIsLess DEF TopicTyped
  <2> QED
    BY <1>2, <2>1, <2>2, InsertSubscriptionTyped
       DEF SubscribeOther, InsertSubscription, lambdaVars, TopicTyped, TriggersTypeOK
<1>3. ASSUME NEW n \in BagToSet(notices), Publish(n) PROVE TopicTyped'
  <2>1. PICK rows : rows = OfLambda
    OBVIOUS
  <2>2. PICK copies : copies = [x \in IF rows = {} THEN {} ELSE {n} |-> Cardinality(rows)]
    OBVIOUS
  <2>3. deliveries' = deliveries (+) copies /\ notices' = notices (-) SetToBag({n})
    BY <1>3, <2>1, <2>2 DEF Publish, OfLambda
  <2>4. IsFiniteSet(rows) /\ Cardinality(rows) \in Nat
    BY <2>1, FS_CardinalityType DEF TopicTyped
  <2>5. rows # {} => Cardinality(rows) > 0
    BY <2>4, FS_EmptySet
  <2>6. IsABag(copies) /\ BagToSet(copies) \subseteq {n}
    BY <2>2, <2>4, <2>5 DEF IsABag, BagToSet
  <2>7. BagOf(notices', Notice)
    BY <1>3, <2>3, RemovedFromBag DEF Publish, BagOf, TopicTyped, TriggersTypeOK
  <2>8. BagOf(deliveries', Notice)
    BY <2>3, <2>6, SumOfBags DEF BagOf, TopicTyped, TriggersTypeOK
  <2>9. OfLambda' = OfLambda
    BY <1>3 DEF Publish, snsVars, OfLambda
  <2> QED
    BY <1>3, <2>7, <2>8, <2>9 DEF Publish, snsVars, lambdaVars, TopicTyped, TriggersTypeOK
<1> QED
  BY <1>1, <1>2, <1>3 DEF SnsMoves

LEMMA LambdaTyped ==
    ASSUME TopicTyped, LambdaMoves
    PROVE  TopicTyped'
<1>1. CASE LambdaStart
  <2>1. OfLambda' = OfLambda /\ starts' = starts + 1
    BY <1>1 DEF LambdaStart, snsVars, OfLambda
  <2>2. Cardinality(OfLambda') + subscribing' <= starts'
    BY <1>1, <2>1, NothingIsLess DEF LambdaStart, TopicTyped
  <2>3. starts' \in 1 .. MaxStarts /\ trigSeq' \in 0 .. MaxRows
    BY <1>1, TriggersConstants DEF LambdaStart, TopicTyped, TriggersTypeOK
  <2>4. subscribing' \in 0 .. MaxStarts
    BY <1>1, <2>1, <2>3, NothingIsLess, TriggersConstants DEF LambdaStart, TopicTyped
  <2>5. BagOf(invocations', Invocation)
    BY <1>1, NoneInEmptyBag DEF LambdaStart, BagOf
  <2> QED
    BY <1>1, <2>1, <2>2, <2>3, <2>4, <2>5 DEF LambdaStart, snsVars, TopicTyped, TriggersTypeOK
<1>2. CASE Subscribe
  <2>1. subscribing' \in 0 .. MaxStarts
    BY <1>2, TriggersConstants DEF Subscribe, TopicTyped, TriggersTypeOK
  <2>2. Cardinality(OfLambda') + subscribing' <= starts
    BY <1>2, InsertSubscriptionTyped, NothingIsLess DEF Subscribe, TopicTyped
  <2> QED
    BY <1>2, <2>1, <2>2, InsertSubscriptionTyped
       DEF Subscribe, InsertSubscription, lambdaVars, TopicTyped, TriggersTypeOK
<1>3. CASE SubscribeFails
  <2>1. OfLambda' = OfLambda
    BY <1>3 DEF SubscribeFails, snsVars, OfLambda
  <2>2. subscribing' \in 0 .. MaxStarts /\ Cardinality(OfLambda') + subscribing' <= starts
    BY <1>3, <2>1, NothingIsLess, TriggersConstants DEF SubscribeFails, TopicTyped, TriggersTypeOK
  <2> QED
    BY <1>3, <2>1, <2>2 DEF SubscribeFails, snsVars, lambdaVars, TopicTyped, TriggersTypeOK
<1>4. ASSUME NEW n \in BagToSet(deliveries), Deliver(n) PROVE TopicTyped'
  <2>1. PICK S : S = {[trig |-> t, of |-> n] : t \in Matching(n)}
    OBVIOUS
  <2>2. n \in Notice
    BY DEF TopicTyped, TriggersTypeOK, BagOf
  <2>3. S \subseteq Invocation
    BY <2>1, <2>2 DEF TopicTyped, TriggersTypeOK, Matching, Invocation
  <2>4. BagOf(invocations', Invocation)
    BY <1>4, <2>1, <2>3, SetAsBag, SumOfBags DEF Deliver, BagOf, TopicTyped, TriggersTypeOK
  <2>5. BagOf(deliveries', Notice)
    BY <1>4, RemovedFromBag DEF Deliver, BagOf, TopicTyped, TriggersTypeOK
  <2>6. OfLambda' = OfLambda
    BY <1>4 DEF Deliver, snsVars, OfLambda
  <2> QED
    BY <1>4, <2>4, <2>5, <2>6 DEF Deliver, snsVars, lambdaVars, TopicTyped, TriggersTypeOK
<1>5. ASSUME NEW n \in BagToSet(deliveries), DeliveryLost(n) PROVE TopicTyped'
  <2>1. BagOf(deliveries', Notice)
    BY <1>5, RemovedFromBag DEF DeliveryLost, BagOf, TopicTyped, TriggersTypeOK
  <2>2. OfLambda' = OfLambda
    BY <1>5 DEF DeliveryLost, snsVars, OfLambda
  <2> QED
    BY <1>5, <2>1, <2>2 DEF DeliveryLost, snsVars, lambdaVars, TopicTyped, TriggersTypeOK
<1>6. ASSUME NEW i \in BagToSet(invocations), Invoke(i) PROVE TopicTyped'
  <2>1. i \in Invocation
    BY DEF TopicTyped, TriggersTypeOK, BagOf
  <2>2. BagOf(invocations', Invocation)
    BY <1>6, RemovedFromBag DEF Invoke, BagOf, TopicTyped, TriggersTypeOK
  <2>3. BagOf(invoked', Invocation)
    BY <1>6, <2>1, SetAsBag, SumOfBags DEF Invoke, BagOf, TopicTyped, TriggersTypeOK
  <2>4. OfLambda' = OfLambda
    BY <1>6 DEF Invoke, snsVars, OfLambda
  <2> QED
    BY <1>6, <2>2, <2>3, <2>4 DEF Invoke, snsVars, lambdaVars, TopicTyped, TriggersTypeOK
<1>7. ASSUME NEW f \in Functions, CreateFunction(f) PROVE TopicTyped'
  <2>1. OfLambda' = OfLambda
    BY <1>7 DEF CreateFunction, snsVars, OfLambda
  <2> QED
    BY <1>7, <2>1 DEF CreateFunction, snsVars, TopicTyped, TriggersTypeOK
<1>8. ASSUME NEW f \in Functions, NEW source \in Buckets \cup {Unnamed}, CreateTrigger(f, source)
      PROVE  TopicTyped'
  <2>1. PICK t : t = [id |-> trigSeq + 1, fn |-> f, source |-> source]
    OBVIOUS
  <2>2. trigSeq + 1 \in Numbers
    BY <1>8, TriggersConstants DEF CreateTrigger, TopicTyped, TriggersTypeOK, Numbers
  <2>3. t \in Trigger /\ t.id = trigSeq + 1
    BY <2>1, <2>2 DEF Trigger
  <2>4. /\ trigSeq' = trigSeq + 1
        /\ \/ triggers' = triggers
           \/ ~Refused(trigSeq') /\ triggers' = triggers \cup {t}
    BY <1>8, <2>1 DEF CreateTrigger
  <2>5. triggers' \subseteq Trigger /\ trigSeq' \in 0 .. MaxRows
    BY <2>2, <2>3, <2>4 DEF TopicTyped, TriggersTypeOK, Numbers
  <2>6. \A u, v \in triggers' : u.id = v.id => u = v
    BY <2>3, <2>4 DEF TopicTyped, TriggersTypeOK, Refused
  <2>7. OfLambda' = OfLambda
    BY <1>8 DEF CreateTrigger, snsVars, OfLambda
  <2> QED
    BY <1>8, <2>5, <2>6, <2>7 DEF CreateTrigger, snsVars, TopicTyped, TriggersTypeOK
<1>9. ASSUME NEW t \in triggers, DeleteTrigger(t) PROVE TopicTyped'
  <2>1. OfLambda' = OfLambda
    BY <1>9 DEF DeleteTrigger, snsVars, OfLambda
  <2> QED
    BY <1>9, <2>1 DEF DeleteTrigger, snsVars, TopicTyped, TriggersTypeOK
<1> QED
  BY <1>1, <1>2, <1>3, <1>4, <1>5, <1>6, <1>7, <1>8, <1>9 DEF LambdaMoves

\* The networking service gives no number that no object was described for.
NetTyped == NetTypeOK /\ netSeq <= made

LEMMA NumberTyped ==
    ASSUME NetTyped, NEW kind \in Kinds, Number(kind)
    PROVE  NetTyped'
<1>1. PICK row : row = [kind |-> kind, n |-> netSeq + 1, made |-> made + 1]
  OBVIOUS
<1>2. /\ netSeq' = netSeq + 1 /\ made' = made + 1
      /\ inserting' = inserting \cup {row}
      /\ UNCHANGED <<netRows, subnetOf, netAnswered, netFailed, netBefore, netStarts>>
  BY <1>1 DEF Number, NextID
<1>3. netSeq + 1 \in NetNumbers /\ made + 1 \in NetNumbers
  BY NetworkingConstants DEF Number, NetTyped, NetTypeOK, NetNumbers
<1>4. row \in NetRow
  BY <1>1, <1>3 DEF NetRow
<1> QED
  BY <1>2, <1>3, <1>4, NetworkingConstants DEF NetTyped, NetTypeOK, NetNumbers

LEMMA NetMovesTyped ==
    ASSUME NetTyped, NetMoves
    PROVE  NetTyped'
<1>1. CASE CreateVPC \/ CreateSubnet \/ CreateRoute \/ CreateGroup \/ AddRule
  BY <1>1, NumberTyped DEF CreateVPC, CreateSubnet, CreateRoute, CreateGroup, AddRule, Kinds
<1>2. ASSUME NEW r \in inserting, Insert(r) PROVE NetTyped'
  BY <1>2 DEF Insert, NetTyped, NetTypeOK
<1>3. ASSUME NEW h \in Hosts, NEW n \in NetNumbers, AssignSubnet(h, n) PROVE NetTyped'
  BY <1>3 DEF AssignSubnet, NetTyped, NetTypeOK
<1>4. CASE NetRestart
  <2>1. netBefore' \in 0 .. MaxMade
    BY <1>4, MaxOfTwo, NetworkingConstants DEF NetRestart, NetTyped, NetTypeOK
  <2>2. netSeq' \in 0 .. MaxMade /\ netSeq' <= made /\ netStarts' \in 1 .. MaxNetStarts
    BY <1>4, NetworkingConstants DEF NetRestart, NetTyped, NetTypeOK
  <2> QED
    BY <1>4, <2>1, <2>2 DEF NetRestart, NetTyped, NetTypeOK
<1> QED
  BY <1>1, <1>2, <1>3, <1>4 DEF NetMoves

\* What a PUT stores is the number of a PUT of a client: no call writes an
\* opened file on.
PutsAreNumbered == \A c \in Slots : calls[c] \in Call /\ calls[c].op = "put" => calls[c].val \in 1 .. MaxPuts

StoreMarks ==
    /\ \A s \in Stores, k \in Keys : meta[s][k] # Torn
    /\ buckets \subseteq Stores /\ keyed \subseteq Stores
    /\ \A s \in Stores : s \notin peers[s]
    /\ torn \subseteq Stores \X Keys
    /\ apart \subseteq Keys
    /\ callFaults \in 0 .. MaxFaults

StoreTyped == PutsAreNumbered /\ StoreMarks

LEMMA StoreTypes ==
    ASSUME StoreInv, StoreTyped
    PROVE  StoreTypeOK
<1>1. \A s \in Stores : meta[s] \in [Keys -> Bytes \ {Torn}]
  BY DEF StoreInv, Shapes, StoreTyped, StoreMarks
<1>2. meta \in [Stores -> [Keys -> Bytes \ {Torn}]]
  BY <1>1 DEF StoreInv, Shapes
<1>3. \A s \in Stores : peers[s] \subseteq Stores \ {s}
  BY DEF StoreInv, Shapes, StoreTyped, StoreMarks
<1> QED
  BY <1>2, <1>3 DEF StoreInv, Shapes, StoreTyped, StoreMarks, StoreTypeOK

\* Handlers that go on, or begin for one that does, keep their number.
LEMMA SamePuts ==
    ASSUME PutsAreNumbered,
           \A d \in Slots : calls'[d] \in Call /\ calls'[d].op = "put" =>
               \/ calls'[d].val \in 1 .. MaxPuts
               \/ \E c \in Slots : /\ calls[c] \in Call
                                   /\ calls[c].op = calls'[d].op /\ calls[c].val = calls'[d].val
    PROVE  PutsAreNumbered'
BY DEF PutsAreNumbered

LEMMA MarkedPlace ==
    ASSUME StoreInv, NEW c \in Slots, calls[c] \in Call
    PROVE  /\ calls[c].at \in Stores /\ calls[c].key \in Keys
           /\ <<calls[c].at, calls[c].key>> \in Stores \X Keys
BY CallFields

LEMMA IndexTyped ==
    ASSUME StoreInv, StoreTyped, NEW c \in Slots, Index(c)
    PROVE  StoreTyped'
<1>1. PICK call : call = calls[c]
  OBVIOUS
<1>2. /\ call \in Call /\ call.op # "get"
      /\ meta' = [meta EXCEPT ![call.at][call.key] = call.val] \/ UNCHANGED meta
      /\ torn' \subseteq torn \cup {<<call.at, call.key>>}
      /\ UNCHANGED callFaults \/ (callFaults < MaxFaults /\ callFaults' = callFaults + 1)
      /\ UNCHANGED <<buckets, keyed, peers, apart>>
      /\ \A d \in Slots \ {c} : calls'[d] = calls[d]
      /\ calls'[c].op = call.op /\ calls'[c].val = call.val
  BY <1>1, IndexEffect
<1>3. call.at \in Stores /\ call.key \in Keys /\ <<call.at, call.key>> \in Stores \X Keys
  BY <1>1, <1>2, MarkedPlace
<1>4. call.val # Torn
  <2>1. CASE call.op = "put"
    BY <1>1, <1>2, <2>1, ObjectStoreConstants DEF StoreTyped, PutsAreNumbered, Torn
  <2>2. CASE call.op = "delete"
    <3>1. call.val = Missing
      BY <1>1, <1>2, <2>2, ActiveCalls DEF StoreInv, BlockInv
    <3> QED
      BY <3>1, ObjectStoreConstants DEF Missing, Torn
  <2> QED
    BY <1>2, <2>1, <2>2, CallFields
<1>5. \A s \in Stores, k \in Keys : meta'[s][k] # Torn
  <2>1. ASSUME NEW s \in Stores, NEW k \in Keys PROVE meta'[s][k] # Torn
    <3>1. meta'[s][k] \in {call.val, meta[s][k]}
      BY <1>2 DEF StoreInv, Shapes
    <3> QED
      BY <1>4, <3>1 DEF StoreTyped, StoreMarks
  <2> QED
    BY <2>1
<1>6. callFaults' \in 0 .. MaxFaults
  BY <1>2, ObjectStoreConstants DEF StoreTyped, StoreMarks
<1>7. StoreMarks'
  BY <1>2, <1>3, <1>5, <1>6 DEF StoreTyped, StoreMarks
<1>8. PutsAreNumbered'
  BY <1>1, <1>2 DEF StoreTyped, PutsAreNumbered
<1> QED
  BY <1>7, <1>8 DEF StoreTyped

LEMMA BecomeTyped ==
    ASSUME StoreInv, StoreTyped, NEW c \in Slots, calls[c] \in Call,
           NEW pc \in {"start", "write", "index", "send", "wait", "ok", "error"}, Become(c, pc)
    PROVE  PutsAreNumbered'
BY BecomeEffect DEF StoreInv, StoreTyped, PutsAreNumbered

LEMMA WorksTyped ==
    ASSUME StoreInv, StoreTyped, NEW c \in Slots, Works(c)
    PROVE  StoreTyped'
<1>1. CASE OpenBlock(c)
  <2>1. calls[c] \in Call /\ UNCHANGED <<meta, buckets, keyed, peers, torn, apart, callFaults>>
    BY <1>1, RunCall DEF OpenBlock, Run, Active
  <2>2. \E pc \in {"error", "write"} : Become(c, pc)
    BY <1>1 DEF OpenBlock
  <2> QED
    BY <2>1, <2>2, BecomeTyped DEF StoreTyped, StoreMarks
<1>2. CASE WriteBlock(c)
  <2>1. calls[c] \in Call /\ UNCHANGED <<meta, buckets, keyed, peers, torn, apart, callFaults>>
    BY <1>2, RunCall DEF WriteBlock, Run, Active
  <2>2. Become(c, "index")
    BY <1>2 DEF WriteBlock
  <2> QED
    BY <2>1, <2>2, BecomeTyped DEF StoreTyped, StoreMarks
<1>3. CASE RemoveBlock(c)
  <2>1. calls[c] \in Call /\ UNCHANGED <<meta, buckets, keyed, peers, torn, apart, callFaults>>
    BY <1>3, RunCall DEF RemoveBlock, Run, Active
  <2>2. \E pc \in {"error", "index"} : Become(c, pc)
    BY <1>3 DEF RemoveBlock
  <2> QED
    BY <2>1, <2>2, BecomeTyped DEF StoreTyped, StoreMarks
<1>4. CASE Index(c)
  BY <1>4, IndexTyped
<1>5. CASE ReadBlock(c)
  <2>1. /\ calls[c].op = "get" /\ UNCHANGED <<meta, buckets, keyed, peers, torn, apart>>
        /\ UNCHANGED callFaults \/ (callFaults < MaxFaults /\ callFaults' = callFaults + 1)
        /\ calls'[c].op = "get"
        /\ \A d \in Slots \ {c} : calls'[d] \in Call =>
               calls[d] \in Call /\ calls'[d].op = calls[d].op /\ calls'[d].val = calls[d].val
    BY <1>5, ReadBlockEffect DEF Reads, Spoils
  <2>2. PutsAreNumbered'
    BY <2>1 DEF StoreTyped, PutsAreNumbered
  <2>3. callFaults' \in 0 .. MaxFaults
    BY <2>1, ObjectStoreConstants DEF StoreTyped, StoreMarks
  <2> QED
    BY <2>1, <2>2, <2>3 DEF StoreTyped, StoreMarks
<1>6. CASE CallPeer(c)
  <2>1. PICK d \in Slots : Begins(d) /\ calls'[d].by = c
    BY <1>6, CallPeerBegins
  <2>2. calls[c] \in Call /\ calls'[d].val = calls[c].val /\ calls'[d].op = calls[c].op
    BY <2>1, ClientIsNoSlot DEF Begins
  <2>3. ASSUME NEW b \in Slots \ {d}, calls'[b] \in Call
        PROVE  calls[b] \in Call /\ calls'[b].op = calls[b].op /\ calls'[b].val = calls[b].val
    BY <2>1, <2>3, CallFields DEF Begins, StoreInv, Shapes
  <2>4. PutsAreNumbered'
    BY <2>2, <2>3, SamePuts DEF StoreTyped
  <2> QED
    BY <1>6, <2>4 DEF CallPeer, StoreTyped, StoreMarks
<1>7. CASE PeerAnswers(c)
  <2>1. PICK b : b = calls[c].by
    OBVIOUS
  <2>2. /\ b \in Slots /\ calls[b] \in Call
        /\ UNCHANGED <<meta, buckets, keyed, peers, torn, apart, callFaults>>
        /\ calls'[c] = Free /\ calls'[b].op = calls[b].op
        /\ calls[b].op # "get" => calls'[b].val = calls[b].val
        /\ \A d \in Slots \ {b, c} : calls'[d] = calls[d]
    BY <1>7, <2>1, PeerAnswersEffect
  <2>3. PutsAreNumbered'
    BY <2>2, CallFields DEF StoreTyped, PutsAreNumbered
  <2> QED
    BY <2>2, <2>3 DEF StoreTyped, StoreMarks
<1> QED
  BY <1>1, <1>2, <1>3, <1>4, <1>5, <1>6, <1>7 DEF Works

LEMMA FinishTyped ==
    ASSUME StoreInv, StoreTyped, NEW c \in Slots, Finish(c)
    PROVE  StoreTyped'
<1>1. /\ calls[c] \in Call /\ UNCHANGED <<meta, buckets, keyed, peers, torn, callFaults>>
      /\ apart' \subseteq apart \cup {calls[c].key}
  BY RunCall DEF Finish, Active
<1>2. \E pc \in {"error", "ok"} : Become(c, pc)
  BY DEF Finish
<1>3. calls[c].key \in Keys
  BY <1>1, CallFields
<1> QED
  BY <1>1, <1>2, <1>3, BecomeTyped DEF StoreTyped, StoreMarks

LEMMA ReturnTyped ==
    ASSUME StoreInv, StoreTyped, NEW c \in Slots, Return(c)
    PROVE  StoreTyped'
<1>1. /\ calls' = [calls EXCEPT ![c] = Free]
      /\ UNCHANGED <<meta, buckets, keyed, peers, torn, apart, callFaults>>
  BY DEF Return
<1>2. calls'[c] = Free /\ \A d \in Slots \ {c} : calls'[d] = calls[d]
  BY <1>1 DEF StoreInv, Shapes
<1> QED
  BY <1>1, <1>2, CallFields DEF StoreTyped, StoreMarks, PutsAreNumbered

LEMMA LosesTyped ==
    ASSUME StoreInv, StoreTyped, NEW c \in Slots, Fails(c)
    PROVE  StoreTyped'
<1>1. /\ calls[c] \in Call /\ UNCHANGED <<meta, buckets, keyed, peers>>
      /\ torn' \subseteq torn \cup {<<calls[c].at, calls[c].key>>}
      /\ apart' = IF calls[c].op = "get" THEN apart ELSE apart \cup {calls[c].key}
      /\ \A d \in Slots : calls'[d] \in Call =>
             calls[d] \in Call /\ calls'[d].op = calls[d].op /\ calls'[d].val = calls[d].val
  <2>1. CASE HangUp(c)
    BY <2>1, HangUpEffect DEF HangUp
  <2>2. CASE CallLost(c)
    BY <2>2, CallLostEffect DEF Spoils
  <2>3. CASE OpenFails(c)
    BY <2>3, OpenFailsEffect DEF Spoils
  <2>4. CASE WriteFails(c)
    BY <2>4, WriteFailsEffect DEF Spoils
  <2>5. CASE UpsertFails(c)
    BY <2>5, UpsertFailsEffect DEF Spoils
  <2> QED
    BY <2>1, <2>2, <2>3, <2>4, <2>5 DEF Fails
<1>2. UNCHANGED callFaults \/ (callFaults < MaxFaults /\ callFaults' = callFaults + 1)
  BY DEF Fails, CallLost, HangUp, OpenFails, WriteFails, UpsertFails
<1>3. callFaults' \in 0 .. MaxFaults
  BY <1>2, ObjectStoreConstants DEF StoreTyped, StoreMarks
<1>4. calls[c].key \in Keys /\ <<calls[c].at, calls[c].key>> \in Stores \X Keys
  BY <1>1, MarkedPlace
<1>5. PutsAreNumbered'
  BY <1>1, SamePuts DEF StoreTyped
<1> QED
  BY <1>1, <1>3, <1>4, <1>5 DEF StoreTyped, StoreMarks

LEMMA StoreRestartTyped ==
    ASSUME StoreInv, StoreTyped, NEW s \in Stores, StoreRestart(s)
    PROVE  StoreTyped'
<1>1. PICK D : D = {c \in Active : calls[c].at = s}
  OBVIOUS
<1>2. /\ torn' = torn \cup {<<s, calls[c].key>> : c \in {c \in D : calls[c].pc \in {"write", "index"}}}
      /\ apart' = apart \cup {calls[c].key : c \in D}
      /\ peers' = [peers EXCEPT ![s] = {}]
      /\ callFaults < MaxFaults /\ callFaults' = callFaults + 1
      /\ UNCHANGED <<meta, buckets>> /\ keyed' \subseteq keyed \cup {s}
  BY <1>1 DEF StoreRestart
<1>3. \A c \in D : calls[c].key \in Keys
  BY <1>1, ActiveCalls, CallFields DEF StoreInv
<1>4. torn' \subseteq Stores \X Keys /\ apart' \subseteq Keys
  BY <1>2, <1>3 DEF StoreTyped, StoreMarks
<1>5. \A t \in Stores : t \notin peers'[t]
  BY <1>2 DEF StoreInv, Shapes, StoreTyped, StoreMarks
<1>6. callFaults' \in 0 .. MaxFaults
  BY <1>2, ObjectStoreConstants DEF StoreTyped, StoreMarks
<1>7. \A d \in Slots : calls'[d] \in Call =>
          calls[d] \in Call /\ calls'[d].op = calls[d].op /\ calls'[d].val = calls[d].val
  BY StoreRestartEffect
<1>8. PutsAreNumbered'
  BY <1>7, SamePuts DEF StoreTyped
<1> QED
  BY <1>2, <1>4, <1>5, <1>6, <1>8 DEF StoreTyped, StoreMarks

LEMMA DiscoverTyped ==
    ASSUME StoreInv, StoreTyped, NEW s \in Stores, Discover(s)
    PROVE  StoreTyped'
<1>1. PICK found \in SUBSET (Stores \ {s}) :
          /\ peers' = [peers EXCEPT ![s] = found]
          /\ calls' = IF found # {} THEN calls
                      ELSE [c \in Slots |-> IF calls[c] = Free THEN Free
                                            ELSE [calls[c] EXCEPT !.joined = FALSE]]
          /\ UNCHANGED <<meta, buckets, keyed, torn, apart, callFaults>>
  BY DEF Discover
<1>2. \A t \in Stores : t \notin peers'[t]
  BY <1>1 DEF StoreInv, Shapes, StoreTyped, StoreMarks
<1>3. ASSUME NEW d \in Slots, calls'[d] \in Call
      PROVE  calls[d] \in Call /\ calls'[d].op = calls[d].op /\ calls'[d].val = calls[d].val
  <2>1. CASE calls' = calls
    BY <1>3, <2>1
  <2>2. CASE calls' = [c \in Slots |-> IF calls[c] = Free THEN Free
                                       ELSE [calls[c] EXCEPT !.joined = FALSE]]
    <3>1. calls[d] # Free
      BY <1>3, <2>2, CallFields
    <3>2. calls[d] \in Call /\ calls'[d] = [calls[d] EXCEPT !.joined = FALSE]
      BY <2>2, <3>1 DEF StoreInv, Shapes
    <3>3. \A x \in Call : LET y == [x EXCEPT !.joined = FALSE] IN y.op = x.op /\ y.val = x.val
      BY DEF Call
    <3> QED
      BY <3>2, <3>3
  <2> QED
    BY <1>1, <2>1, <2>2
<1>4. PutsAreNumbered'
  BY <1>3, SamePuts DEF StoreTyped
<1> QED
  BY <1>1, <1>2, <1>4 DEF StoreTyped, StoreMarks

LEMMA RequestTyped ==
    ASSUME StoreInv, StoreTyped, NEW s \in Stores, NEW k \in Keys, NEW op \in {"put", "get", "delete"},
           Request(s, k, op)
    PROVE  StoreTyped'
<1>1. PICK d \in Slots : Begins(d) /\ NumbersPut(d)
  BY RequestBegins
<1>2. ASSUME NEW b \in Slots \ {d}, calls'[b] \in Call
      PROVE  calls[b] \in Call /\ calls'[b].op = calls[b].op /\ calls'[b].val = calls[b].val
  BY <1>1, <1>2, CallFields DEF Begins, StoreInv, Shapes
<1>3. PutsAreNumbered'
  BY <1>1, <1>2, SamePuts DEF StoreTyped, NumbersPut
<1> QED
  BY <1>3 DEF Request, StoreTyped, StoreMarks

LEMMA StoresTyped ==
    ASSUME StoreInv, StoreTyped, [EventsNext]_eventVars
    PROVE  StoreTyped'
<1>1. ASSUME UNCHANGED storeVars PROVE StoreTyped'
  BY <1>1 DEF storeVars, StoreTyped, StoreMarks, PutsAreNumbered
<1>2. CASE HandlerMoves
  BY <1>2, WorksTyped, ReturnTyped, FinishTyped DEF HandlerMoves, Storing, Finishes
<1>3. ASSUME NEW s \in Stores, CreateBucket(s) \/ Discover(s) \/ StoreRestart(s) PROVE StoreTyped'
  <2>1. CASE CreateBucket(s)
    BY <2>1 DEF CreateBucket, StoreTyped, StoreMarks, PutsAreNumbered
  <2> QED
    BY <1>3, <2>1, DiscoverTyped, StoreRestartTyped
<1>4. ASSUME NEW s \in Stores, NEW k \in Keys, NEW op \in {"put", "get", "delete"}, Request(s, k, op)
      PROVE  StoreTyped'
  BY <1>4, RequestTyped
<1>5. ASSUME NEW c \in Slots, Fails(c) PROVE StoreTyped'
  BY <1>5, LosesTyped
<1> QED
  BY <1>1, <1>2, <1>3, <1>4, <1>5 DEF EventsNext, Storing, Notifies, Connects, eventVars

EventsTyped ==
    /\ StoreInv /\ StoreTyped
    /\ TopicTyped
    /\ NetTyped
    /\ BagOf(announced, Notice)

LEMMA NoticeTyped ==
    ASSUME StoreInv, StoreTyped, NEW c \in Slots, Finish(c), calls[c].op = "put"
    PROVE  NoticeOf(c) \in Notice
<1>1. calls[c] \in Call
  BY RunCall DEF Finish, Active
<1>2. calls[c].val \in 1 .. MaxPuts /\ calls[c].at \in Stores
  BY <1>1, CallFields DEF StoreTyped, PutsAreNumbered
<1>3. [put |-> calls[c].val, at |-> calls[c].at] \in Origins
  BY <1>2, EventsConstants
<1> QED
  BY <1>3, EventsConstants DEF NoticeOf, Notice

\* A notice is sent by the handler that finishes, and is recorded.
Announces(n) ==
    /\ notices' = notices (+) SetToBag({n})
    /\ announced' = announced (+) SetToBag({n})

LEMMA FinishesAnnounces ==
    ASSUME StoreInv, StoreTyped, NEW c \in Slots, Finishes(c)
    PROVE  /\ \/ UNCHANGED <<notices, announced>>
              \/ \E n \in Notice : Announces(n)
           /\ UNCHANGED <<snsVars, lambdaVars, subscribing, deliveries, invocations, invoked, netVars>>
BY NoticeTyped DEF Finishes, Announces

LEMMA EventsStayTyped ==
    ASSUME EventsTyped, [EventsNext]_eventVars
    PROVE  EventsTyped'
<1>1. StoreInv' /\ StoreTyped'
  BY NextStoreInv, StoresTyped DEF EventsTyped
<1>2. ASSUME UNCHANGED <<triggerVars, announced>> PROVE TopicTyped' /\ BagOf(announced, Notice)'
  BY <1>2 DEF triggerVars, EventsTyped, TopicTyped, TriggersTypeOK, OfLambda
<1>3. ASSUME UNCHANGED netVars PROVE NetTyped'
  BY <1>3 DEF netVars, EventsTyped, NetTyped, NetTypeOK
<1>4. ASSUME NEW c \in Slots, Finishes(c) PROVE EventsTyped'
  <2>1. UNCHANGED <<snsVars, lambdaVars, subscribing, deliveries, invocations, invoked, netVars>>
    BY <1>4, FinishesAnnounces DEF EventsTyped
  <2>2. BagOf(notices', Notice) /\ BagOf(announced', Notice)
    <3>1. CASE UNCHANGED <<notices, announced>>
      BY <3>1 DEF EventsTyped, TopicTyped, TriggersTypeOK
    <3>2. ASSUME NEW n \in Notice, Announces(n) PROVE BagOf(notices', Notice) /\ BagOf(announced', Notice)
      BY <3>2, SetAsBag, SumOfBags DEF Announces, BagOf, EventsTyped, TopicTyped, TriggersTypeOK
    <3> QED
      BY <1>4, <3>1, <3>2, FinishesAnnounces DEF EventsTyped
  <2>3. TopicTyped'
    BY <2>1, <2>2 DEF snsVars, lambdaVars, EventsTyped, TopicTyped, TriggersTypeOK, OfLambda
  <2>4. BagOf(announced, Notice)'
    BY <2>2 DEF BagOf
  <2> QED
    BY <1>1, <1>3, <2>1, <2>3, <2>4 DEF EventsTyped
<1>5. CASE HandlerMoves
  BY <1>1, <1>2, <1>3, <1>4, <1>5 DEF HandlerMoves, Storing, EventsTyped
<1>6. CASE Notifies(SnsMoves) \/ Notifies(LambdaMoves)
  <2>1. TopicTyped'
    BY <1>6, SnsTyped, LambdaTyped DEF Notifies, EventsTyped
  <2>2. UNCHANGED <<netVars, announced>>
    BY <1>6 DEF Notifies
  <2> QED
    BY <1>1, <1>3, <2>1, <2>2 DEF EventsTyped
<1>7. CASE Connects(NetMoves)
  BY <1>1, <1>2, <1>7, NetMovesTyped DEF Connects, EventsTyped
<1>8. CASE UNCHANGED eventVars
  BY <1>1, <1>2, <1>3, <1>8 DEF eventVars, EventsTyped
<1> QED
  BY <1>1, <1>2, <1>3, <1>5, <1>6, <1>7, <1>8 DEF EventsNext, Storing, EventsTyped

LEMMA InitTyped == EventsInit => EventsTyped
<1> SUFFICES ASSUME EventsInit PROVE EventsTyped
  OBVIOUS
<1>1. StoreInv
  BY InitStoreInv DEF EventsInit
<1>2. PutsAreNumbered
  BY CallFields DEF EventsInit, StoreInit, PutsAreNumbered
<1>3. StoreMarks
  BY ObjectStoreConstants DEF EventsInit, StoreInit, StoreMarks, Missing, Torn
<1>4. TopicTyped
  <2>1. OfLambda = {}
    BY DEF EventsInit, TriggersInit, OfLambda
  <2>2. IsFiniteSet(OfLambda) /\ Cardinality(OfLambda) = 0
    BY <2>1, FS_EmptySet
  <2>3. TriggersTypeOK
    BY NoneInEmptyBag, TriggersConstants DEF EventsInit, TriggersInit, TriggersTypeOK, BagOf
  <2> QED
    BY <2>2, <2>3 DEF EventsInit, TriggersInit, TopicTyped
<1>5. NetTyped
  BY NetworkingConstants DEF EventsInit, NetInit, NetTyped, NetTypeOK
<1>6. BagOf(announced, Notice)
  BY NoneInEmptyBag DEF EventsInit, BagOf
<1> QED
  BY <1>1, <1>2, <1>3, <1>4, <1>5, <1>6 DEF StoreTyped, EventsTyped

\* The stores, the topic and the networking service keep their types, whatever
\* the bounds: no opened file becomes a row, no notice names what no client
\* put, and the requests of lambda on their way never outnumber its starts.
THEOREM EventsKeepTypes == EventsSpec => []EventsTypeOK
<1>1. EventsTyped /\ [EventsNext]_eventVars => EventsTyped'
  BY EventsStayTyped
<1>2. EventsTyped => EventsTypeOK
  BY StoreTypes DEF EventsTyped, TopicTyped, NetTyped, EventsTypeOK
<1> QED
  BY <1>1, <1>2, InitTyped, PTL DEF EventsSpec
-----------------------------------------------------------------------------
(***************************************************************************)
(* Invocations                                                             *)
(***************************************************************************)
\* Every time a store announced a notice, it is either still on its way to SNS
\* or was delivered to no more subscriptions than lambda had made; each delivery
\* makes one invocation of a trigger.  A notice that is still on its way to SNS
\* counts as often as lambda has started: so often may it yet be delivered.
CountedOnce(i) ==
    HowMany(invoked, i) + HowMany(invocations, i) + HowMany(deliveries, i.of)
        + starts * HowMany(notices, i.of) <= starts * HowMany(announced, i.of)

OnceInv ==
    /\ \A n \in Notice : HowMany(notices, n) <= HowMany(announced, n)
    /\ \A i \in Invocation : CountedOnce(i)

LEMMA Times ==
    ASSUME NEW a \in Nat, NEW b \in Nat
    PROVE  /\ a * b \in Nat
           /\ a * (b + 1) = a * b + a
           /\ (a + 1) * b = a * b + b
           /\ a * 0 = 0
OBVIOUS

\* All counts are numbers.
LEMMA Counts ==
    ASSUME EventsTyped, NEW i, NEW n
    PROVE  /\ HowMany(invoked, i) \in Nat /\ HowMany(invocations, i) \in Nat
           /\ HowMany(deliveries, n) \in Nat
           /\ HowMany(notices, n) \in Nat /\ HowMany(announced, n) \in Nat
           /\ starts \in Nat
BY CountInBag, NothingIsLess DEF EventsTyped, TopicTyped, TriggersTypeOK, BagOf

\* What leaves the announcements alone, starts nothing, and makes no more of any
\* notice than the subscriptions of lambda allow, keeps the count.
LEMMA FewerKeepCount ==
    ASSUME EventsTyped, OnceInv, EventsTyped',
           UNCHANGED <<announced, starts>>,
           \A n : HowMany(notices', n) <= HowMany(notices, n),
           \A i \in Invocation :
               HowMany(invoked', i) + HowMany(invocations', i) + HowMany(deliveries', i.of)
                   + starts * HowMany(notices', i.of)
               <= HowMany(invoked, i) + HowMany(invocations, i) + HowMany(deliveries, i.of)
                   + starts * HowMany(notices, i.of)
    PROVE  OnceInv'
<1>1. ASSUME NEW n \in Notice PROVE HowMany(notices', n) <= HowMany(announced', n)
  <2>1. HowMany(notices', n) \in Nat
    BY CountInBag DEF EventsTyped, TopicTyped, TriggersTypeOK, BagOf
  <2>2. HowMany(notices, n) <= HowMany(announced, n)
    BY DEF OnceInv
  <2> QED
    BY <2>1, <2>2, Counts
<1>2. ASSUME NEW i \in Invocation PROVE CountedOnce(i)'
  <2>1. CountedOnce(i)
    BY DEF OnceInv
  <2>2. /\ HowMany(invoked, i) \in Nat /\ HowMany(invocations, i) \in Nat
        /\ HowMany(deliveries, i.of) \in Nat
        /\ starts * HowMany(notices, i.of) \in Nat
        /\ starts * HowMany(announced, i.of) \in Nat
    BY Counts, Times
  <2>3. /\ HowMany(invoked', i) \in Nat /\ HowMany(invocations', i) \in Nat
        /\ HowMany(deliveries', i.of) \in Nat
        /\ HowMany(notices', i.of) \in Nat
    BY CountInBag DEF EventsTyped, TopicTyped, TriggersTypeOK, BagOf
  <2>4. starts * HowMany(notices', i.of) \in Nat
    BY <2>3, Counts, Times
  <2> QED
    BY <2>1, <2>2, <2>3, <2>4 DEF CountedOnce
<1> QED
  BY <1>1, <1>2 DEF OnceInv

LEMMA PublishCounts ==
    ASSUME EventsTyped, OnceInv, EventsTyped', NEW n \in BagToSet(notices), Publish(n), announced' = announced
    PROVE  OnceInv'
<1>1. PICK rows : rows = OfLambda
  OBVIOUS
<1>2. PICK copies : copies = [x \in IF rows = {} THEN {} ELSE {n} |-> Cardinality(rows)]
  OBVIOUS
<1>3. /\ deliveries' = deliveries (+) copies /\ notices' = notices (-) SetToBag({n})
      /\ UNCHANGED <<starts, invoked, invocations>> /\ BagIn(n, notices)
  BY <1>1, <1>2 DEF Publish, OfLambda, lambdaVars
<1>4. Cardinality(rows) \in Nat /\ Cardinality(rows) <= starts /\ IsFiniteSet(rows)
  BY <1>1, NothingIsLess DEF EventsTyped, TopicTyped
<1>5. rows # {} => Cardinality(rows) > 0
  BY <1>4, FS_EmptySet
<1>6. IsABag(copies)
  BY <1>2, <1>4, <1>5 DEF IsABag
<1>7. IsABag(notices) /\ IsABag(deliveries)
  BY DEF EventsTyped, TopicTyped, TriggersTypeOK, BagOf
<1>8. \A m : HowMany(copies, m) <= IF m = n THEN starts ELSE 0
  BY <1>2, <1>4, NothingIsLess DEF HowMany, EventsTyped
<1>9. \A m : HowMany(notices', m) = IF m = n THEN HowMany(notices, m) - 1 ELSE HowMany(notices, m)
  BY <1>3, <1>7, RemovedFromBag
<1>10. \A m : HowMany(deliveries', m) = HowMany(deliveries, m) + HowMany(copies, m)
  BY <1>3, <1>6, <1>7, SumOfBags
<1>11. \A m : HowMany(notices', m) <= HowMany(notices, m)
  <2>1. ASSUME NEW m PROVE HowMany(notices', m) <= HowMany(notices, m)
    <3>1. HowMany(notices, m) \in Nat
      BY <1>7, CountInBag
    <3> QED
      BY <1>9, <3>1
  <2> QED
    BY <2>1
<1>12. ASSUME NEW i \in Invocation
       PROVE  HowMany(invoked', i) + HowMany(invocations', i) + HowMany(deliveries', i.of)
                   + starts * HowMany(notices', i.of)
               <= HowMany(invoked, i) + HowMany(invocations, i) + HowMany(deliveries, i.of)
                   + starts * HowMany(notices, i.of)
  <2>1. /\ HowMany(invoked, i) \in Nat /\ HowMany(invocations, i) \in Nat
        /\ HowMany(deliveries, i.of) \in Nat /\ HowMany(copies, i.of) \in Nat
        /\ HowMany(notices, i.of) \in Nat /\ starts \in Nat
        /\ starts * HowMany(notices, i.of) \in Nat
    BY <1>6, Counts, CountInBag, Times
  <2>2. CASE i.of = n
    <3>1. PICK left : left = HowMany(notices, n) - 1
      OBVIOUS
    <3>2. left \in Nat /\ HowMany(notices, n) = left + 1
      BY <1>7, <3>1, CountInBag
    <3>3. starts * HowMany(notices, n) = starts * left + starts /\ starts * left \in Nat
      BY <2>1, <3>2, Times
    <3>4. HowMany(notices', n) = left
      BY <1>9, <3>1
    <3>5. HowMany(copies, n) <= starts
      BY <1>8
    <3>6. /\ HowMany(deliveries', n) = HowMany(deliveries, n) + HowMany(copies, n)
          /\ HowMany(invoked', i) = HowMany(invoked, i)
          /\ HowMany(invocations', i) = HowMany(invocations, i)
      BY <1>3, <1>10
    <3> QED
      BY <2>1, <2>2, <3>3, <3>4, <3>5, <3>6
  <2>3. CASE i.of # n
    <3>1. HowMany(copies, i.of) = 0
      BY <1>2, <2>3 DEF HowMany
    <3>2. HowMany(notices', i.of) = HowMany(notices, i.of)
      BY <1>9, <2>3
    <3>3. HowMany(deliveries', i.of) = HowMany(deliveries, i.of)
      BY <1>10, <2>1, <3>1
    <3> QED
      BY <1>3, <2>1, <3>2, <3>3
  <2> QED
    BY <2>2, <2>3
<1> QED
  BY <1>3, <1>11, <1>12, FewerKeepCount

LEMMA DeliverCounts ==
    ASSUME EventsTyped, OnceInv, EventsTyped', NEW n \in BagToSet(deliveries),
           Deliver(n) \/ DeliveryLost(n), announced' = announced
    PROVE  OnceInv'
<1>1. PICK S : S = IF Deliver(n) THEN {[trig |-> t, of |-> n] : t \in Matching(n)} ELSE {}
  OBVIOUS
<1>2. /\ deliveries' = deliveries (-) SetToBag({n}) /\ BagIn(n, deliveries)
      /\ UNCHANGED <<starts, notices, invoked>>
  BY DEF Deliver, DeliveryLost, lambdaVars
<1>3. IsABag(invocations) /\ IsABag(deliveries)
  BY DEF EventsTyped, TopicTyped, TriggersTypeOK, BagOf
<1>4. \A i \in Invocation : HowMany(invocations', i)
                                <= HowMany(invocations, i) + (IF i.of = n THEN 1 ELSE 0)
  <2>1. CASE Deliver(n)
    <3>1. invocations' = invocations (+) SetToBag(S)
      BY <1>1, <2>1 DEF Deliver
    <3>2. \A i \in S : i.of = n
      BY <1>1
    <3>3. ASSUME NEW i \in Invocation
          PROVE  HowMany(invocations', i) <= HowMany(invocations, i) + (IF i.of = n THEN 1 ELSE 0)
      <4>1. HowMany(invocations', i) = HowMany(invocations, i) + (IF i \in S THEN 1 ELSE 0)
        BY <1>3, <3>1, SetAsBag, SumOfBags
      <4> QED
        BY <3>2, <4>1, Counts
    <3> QED
      BY <3>3
  <2>2. CASE DeliveryLost(n)
    BY <2>2, Counts DEF DeliveryLost
  <2> QED
    BY <2>1, <2>2
<1>5. \A m : HowMany(deliveries', m) = IF m = n THEN HowMany(deliveries, m) - 1 ELSE HowMany(deliveries, m)
  BY <1>2, <1>3, RemovedFromBag
<1>6. \A m : HowMany(notices', m) <= HowMany(notices, m)
  BY <1>2, Counts
<1>7. ASSUME NEW i \in Invocation
      PROVE  HowMany(invoked', i) + HowMany(invocations', i) + HowMany(deliveries', i.of)
                   + starts * HowMany(notices', i.of)
               <= HowMany(invoked, i) + HowMany(invocations, i) + HowMany(deliveries, i.of)
                   + starts * HowMany(notices, i.of)
  <2>1. /\ HowMany(invoked, i) \in Nat /\ HowMany(invocations, i) \in Nat
        /\ HowMany(deliveries, i.of) \in Nat
        /\ starts * HowMany(notices, i.of) \in Nat
    BY Counts, Times
  <2>2. HowMany(invocations', i) \in Nat
    BY CountInBag DEF EventsTyped, TopicTyped, TriggersTypeOK, BagOf
  <2>3. HowMany(invocations', i) <= HowMany(invocations, i) + (IF i.of = n THEN 1 ELSE 0)
    BY <1>4
  <2>4. HowMany(deliveries', i.of) = IF i.of = n THEN HowMany(deliveries, i.of) - 1
                                     ELSE HowMany(deliveries, i.of)
    BY <1>5
  <2>5. HowMany(notices', i.of) = HowMany(notices, i.of) /\ HowMany(invoked', i) = HowMany(invoked, i)
    BY <1>2
  <2> QED
    BY <2>1, <2>2, <2>3, <2>4, <2>5
<1> QED
  BY <1>2, <1>6, <1>7, FewerKeepCount

LEMMA InvokeCounts ==
    ASSUME EventsTyped, OnceInv, EventsTyped', NEW j \in BagToSet(invocations), Invoke(j),
           announced' = announced
    PROVE  OnceInv'
<1>1. /\ invocations' = invocations (-) SetToBag({j}) /\ BagIn(j, invocations)
      /\ invoked' = invoked \/ invoked' = invoked (+) SetToBag({j})
      /\ UNCHANGED <<starts, notices, deliveries>>
  BY DEF Invoke, lambdaVars
<1>2. IsABag(invocations) /\ IsABag(invoked)
  BY DEF EventsTyped, TopicTyped, TriggersTypeOK, BagOf
<1>3. \A i : HowMany(invocations', i) = IF i = j THEN HowMany(invocations, i) - 1 ELSE HowMany(invocations, i)
  BY <1>1, <1>2, RemovedFromBag
<1>4. \A i : HowMany(invoked', i) <= HowMany(invoked, i) + (IF i = j THEN 1 ELSE 0)
  <2>1. CASE invoked' = invoked
    BY <2>1, Counts
  <2>2. CASE invoked' = invoked (+) SetToBag({j})
    BY <1>2, <2>2, SetAsBag, SumOfBags, Counts
  <2> QED
    BY <1>1, <2>1, <2>2
<1>5. \A m : HowMany(notices', m) <= HowMany(notices, m)
  BY <1>1, Counts
<1>6. ASSUME NEW i \in Invocation
      PROVE  HowMany(invoked', i) + HowMany(invocations', i) + HowMany(deliveries', i.of)
                   + starts * HowMany(notices', i.of)
               <= HowMany(invoked, i) + HowMany(invocations, i) + HowMany(deliveries, i.of)
                   + starts * HowMany(notices, i.of)
  <2>1. /\ HowMany(invoked, i) \in Nat /\ HowMany(invocations, i) \in Nat
        /\ HowMany(deliveries, i.of) \in Nat
        /\ starts * HowMany(notices, i.of) \in Nat
    BY Counts, Times
  <2>2. HowMany(invoked', i) \in Nat
    BY CountInBag DEF EventsTyped, TopicTyped, TriggersTypeOK, BagOf
  <2>3. HowMany(invoked', i) <= HowMany(invoked, i) + (IF i = j THEN 1 ELSE 0)
    BY <1>4
  <2>4. HowMany(invocations', i) = IF i = j THEN HowMany(invocations, i) - 1 ELSE HowMany(invocations, i)
    BY <1>3
  <2>5. HowMany(notices', i.of) = HowMany(notices, i.of) /\ HowMany(deliveries', i.of) = HowMany(deliveries, i.of)
    BY <1>1
  <2> QED
    BY <2>1, <2>2, <2>3, <2>4, <2>5
<1> QED
  BY <1>1, <1>5, <1>6, FewerKeepCount

\* A start of lambda allows one more delivery of what is on its way, and no more
\* of it is on its way than was announced.
LEMMA LambdaStartCounts ==
    ASSUME EventsTyped, OnceInv, EventsTyped', LambdaStart, announced' = announced
    PROVE  OnceInv'
<1>1. /\ starts' = starts + 1 /\ invocations' = EmptyBag
      /\ UNCHANGED <<notices, deliveries, invoked>>
  BY DEF LambdaStart
<1>2. ASSUME NEW i \in Invocation PROVE CountedOnce(i)'
  <2>1. i.of \in Notice
    BY DEF Invocation
  <2>2. HowMany(notices, i.of) <= HowMany(announced, i.of) /\ CountedOnce(i)
    BY <2>1 DEF OnceInv
  <2>3. /\ HowMany(invoked, i) \in Nat /\ HowMany(invocations, i) \in Nat
        /\ HowMany(deliveries, i.of) \in Nat
        /\ HowMany(notices, i.of) \in Nat /\ HowMany(announced, i.of) \in Nat
        /\ starts \in Nat
    BY Counts
  <2>4. /\ starts * HowMany(notices, i.of) \in Nat
        /\ starts * HowMany(announced, i.of) \in Nat
        /\ (starts + 1) * HowMany(notices, i.of) = starts * HowMany(notices, i.of) + HowMany(notices, i.of)
        /\ (starts + 1) * HowMany(announced, i.of)
               = starts * HowMany(announced, i.of) + HowMany(announced, i.of)
    BY <2>3, Times
  <2>5. HowMany(invocations', i) = 0
    BY <1>1, NoneInEmptyBag
  <2> QED
    BY <1>1, <2>2, <2>3, <2>4, <2>5 DEF CountedOnce
<1> QED
  BY <1>1, <1>2 DEF OnceInv

LEMMA AnnounceCounts ==
    ASSUME EventsTyped, OnceInv, EventsTyped', NEW n \in Notice, Announces(n),
           UNCHANGED <<starts, deliveries, invocations, invoked>>
    PROVE  OnceInv'
<1>1. IsABag(notices) /\ IsABag(announced)
  BY DEF EventsTyped, TopicTyped, TriggersTypeOK, BagOf
<1>2. \A m : /\ HowMany(notices', m) = HowMany(notices, m) + (IF m = n THEN 1 ELSE 0)
             /\ HowMany(announced', m) = HowMany(announced, m) + (IF m = n THEN 1 ELSE 0)
  BY <1>1, SetAsBag, SumOfBags DEF Announces
<1>3. ASSUME NEW m \in Notice PROVE HowMany(notices', m) <= HowMany(announced', m)
  <2>1. HowMany(notices, m) <= HowMany(announced, m)
    BY DEF OnceInv
  <2> QED
    BY <1>2, <2>1, Counts
<1>4. ASSUME NEW i \in Invocation PROVE CountedOnce(i)'
  <2>1. CountedOnce(i)
    BY DEF OnceInv
  <2>2. /\ HowMany(invoked, i) \in Nat /\ HowMany(invocations, i) \in Nat
        /\ HowMany(deliveries, i.of) \in Nat
        /\ HowMany(notices, i.of) \in Nat /\ HowMany(announced, i.of) \in Nat
        /\ starts \in Nat
    BY Counts
  <2>3. /\ starts * HowMany(notices, i.of) \in Nat
        /\ starts * HowMany(announced, i.of) \in Nat
        /\ starts * (HowMany(notices, i.of) + 1) = starts * HowMany(notices, i.of) + starts
        /\ starts * (HowMany(announced, i.of) + 1) = starts * HowMany(announced, i.of) + starts
    BY <2>2, Times
  <2>4. CASE i.of = n
    <3>1. HowMany(notices', i.of) = HowMany(notices, i.of) + 1
          /\ HowMany(announced', i.of) = HowMany(announced, i.of) + 1
      BY <1>2, <2>4
    <3> QED
      BY <2>1, <2>2, <2>3, <3>1 DEF CountedOnce
  <2>5. CASE i.of # n
    <3>1. HowMany(notices', i.of) = HowMany(notices, i.of)
          /\ HowMany(announced', i.of) = HowMany(announced, i.of)
      BY <1>2, <2>2, <2>5
    <3> QED
      BY <2>1, <3>1 DEF CountedOnce
  <2> QED
    BY <2>4, <2>5
<1> QED
  BY <1>3, <1>4 DEF OnceInv

LEMMA SameCounts ==
    ASSUME OnceInv, UNCHANGED <<starts, notices, announced, deliveries, invocations, invoked>>
    PROVE  OnceInv'
BY DEF OnceInv, CountedOnce

LEMMA NextCounts ==
    ASSUME EventsTyped, OnceInv, [EventsNext]_eventVars
    PROVE  OnceInv'
<1>1. EventsTyped'
  BY EventsStayTyped
<1>2. CASE HandlerMoves
  <2>1. ASSUME NEW c \in Slots, Finishes(c) PROVE OnceInv'
    <3>1. UNCHANGED <<starts, deliveries, invocations, invoked>>
      BY <2>1, FinishesAnnounces DEF lambdaVars, EventsTyped
    <3> QED
      BY <1>1, <2>1, <3>1, FinishesAnnounces, AnnounceCounts, SameCounts DEF EventsTyped
  <2> QED
    BY <1>2, <2>1, SameCounts DEF HandlerMoves, Storing, triggerVars
<1>3. CASE Notifies(SnsMoves)
  <2>1. ASSUME NEW n \in BagToSet(notices), Publish(n) PROVE OnceInv'
    BY <1>1, <1>3, <2>1, PublishCounts DEF Notifies
  <2> QED
    BY <1>3, <2>1, SameCounts DEF Notifies, SnsMoves, SnsRestart, SubscribeOther, lambdaVars
<1>4. CASE Notifies(LambdaMoves)
  <2>1. announced' = announced /\ LambdaMoves
    BY <1>4 DEF Notifies
  <2>2. CASE LambdaStart
    BY <1>1, <2>1, <2>2, LambdaStartCounts
  <2>3. ASSUME NEW n \in BagToSet(deliveries), Deliver(n) \/ DeliveryLost(n) PROVE OnceInv'
    BY <1>1, <2>1, <2>3, DeliverCounts
  <2>4. ASSUME NEW i \in BagToSet(invocations), Invoke(i) PROVE OnceInv'
    BY <1>1, <2>1, <2>4, InvokeCounts
  <2> QED
    BY <2>1, <2>2, <2>3, <2>4, SameCounts DEF LambdaMoves, Subscribe, SubscribeFails,
       CreateFunction, CreateTrigger, DeleteTrigger, lambdaVars
<1>5. CASE Connects(NetMoves) \/ UNCHANGED eventVars
  BY <1>5, SameCounts DEF Connects, eventVars, triggerVars
<1> QED
  BY <1>2, <1>3, <1>4, <1>5, SameCounts DEF EventsNext, Storing, triggerVars

\* However notices and deliveries are lost, delayed or reordered, and however
\* often SNS and lambda restart, a trigger makes no more invocations for a notice
\* than lambda has started, for each time the notice was announced.
THEOREM NoticesAreCounted == EventsSpec => []OncePerNotice
<1>1. EventsInit => OnceInv
  <2> SUFFICES ASSUME EventsInit PROVE OnceInv
    OBVIOUS
  <2>1. \A e : /\ HowMany(notices, e) = 0 /\ HowMany(announced, e) = 0 /\ HowMany(deliveries, e) = 0
               /\ HowMany(invocations, e) = 0 /\ HowMany(invoked, e) = 0
    BY NoneInEmptyBag DEF EventsInit, TriggersInit
  <2>2. starts = 1
    BY DEF EventsInit, TriggersInit
  <2> QED
    BY <2>1, <2>2 DEF OnceInv, CountedOnce
<1>2. EventsTyped /\ OnceInv /\ [EventsNext]_eventVars => (EventsTyped /\ OnceInv)'
  BY EventsStayTyped, NextCounts
<1>3. ASSUME EventsTyped, OnceInv PROVE OncePerNotice
  <2>1. ASSUME NEW i \in BagToSet(invoked)
        PROVE  i.of \in BagToSet(announced) /\ invoked[i] <= starts * announced[i.of]
    <3>1. i \in Invocation /\ IsABag(invoked) /\ IsABag(announced)
      BY <1>3 DEF EventsTyped, TopicTyped, TriggersTypeOK, BagOf
    <3>2. CountedOnce(i)
      BY <1>3, <3>1 DEF OnceInv
    <3>3. /\ HowMany(invoked, i) \in Nat /\ HowMany(invocations, i) \in Nat
          /\ HowMany(deliveries, i.of) \in Nat
          /\ HowMany(announced, i.of) \in Nat /\ starts \in Nat
          /\ starts * HowMany(notices, i.of) \in Nat
          /\ starts * HowMany(announced, i.of) \in Nat
      BY <1>3, Counts, Times
    <3>4. HowMany(invoked, i) <= starts * HowMany(announced, i.of)
      BY <3>2, <3>3 DEF CountedOnce
    <3>5. HowMany(invoked, i) > 0 /\ HowMany(invoked, i) = invoked[i]
      BY <3>1, CountInBag
    <3>6. HowMany(announced, i.of) > 0
      BY <3>3, <3>4, <3>5, Times
    <3>7. i.of \in BagToSet(announced) /\ HowMany(announced, i.of) = announced[i.of]
      BY <3>1, <3>6, CountInBag
    <3> QED
      BY <3>4, <3>5, <3>7
  <2> QED
    BY <2>1 DEF OncePerNotice
<1> QED
  BY <1>1, <1>2, <1>3, InitTyped, PTL DEF EventsSpec
=============================================================================
