---------------------------- MODULE ObjectStore ----------------------------
(***************************************************************************)
(* The object stores (data-plane/storage/object-store) and the engine      *)
(* below each of them: a file per object and a row of metadata, written    *)
(* one after the other, and copies that a store makes by calling its       *)
(* peers.  A peer serves such a call like any client's: it may go on to    *)
(* call its own peers, and whoever called it waits.                        *)
(*                                                                         *)
(* Every PUT of a client is given a number, which stands for the bytes it  *)
(* stores.  Objects of buckets have keys of their own: no peer serves      *)
(* them, because the address a store would call has no route.              *)
(***************************************************************************)
EXTENDS Naturals, FiniteSetsExt

CONSTANTS
    Stores,
    Keys,
    Bucketed,     \* keys of objects in the one bucket
    Factor,       \* REPLICATION_FACTOR of each store
    MaxPuts,      \* bound on the PUTs of clients
    MaxCalls,     \* bound on the calls under way, nested ones included
    MaxFaults     \* bound on lost calls, impatient clients, failed steps and crashes

ASSUME ObjectStoreConstants ==
    /\ Bucketed \subseteq Keys
    /\ Factor \in [Stores -> Nat \ {0}]
    /\ MaxPuts \in Nat /\ MaxCalls \in Nat /\ MaxFaults \in Nat

Missing == 0
Torn == MaxPuts + 1         \* a file that was opened, and not yet written
Bytes == Missing .. Torn
Slots == 1 .. MaxCalls
Client == 0

\* alone, clean and joined are history: nothing else wrote the object at this
\* store, or at any store, while this call did, and no step of it failed; every
\* store has named a peer and no call was lost, refused or failed for as long as
\* this one lasts.
Call == [op : {"put", "get", "delete"}, at : Stores, key : Keys, val : Bytes,
         by : Slots \cup {Client}, todo : SUBSET Stores,
         pc : {"start", "write", "index", "send", "wait", "ok", "error"},
         alone : BOOLEAN, clean : BOOLEAN, joined : BOOLEAN]
Free == [op |-> "none"]

VARIABLES
    blocks,       \* the files of each store
    meta,         \* the objects table of each store: what was indexed
    buckets,      \* the stores that know the bucket
    keyed,        \* the stores started with TINYAWS_API_KEY
    peers,        \* ReplicationPolicy.peers
    calls,        \* the handlers under way
    puts,         \* how many PUTs clients have made
    torn,         \* (store, key) written by two calls at once, or in a crash
    apart,        \* keys whose last writes may not have reached every copy
    callFaults

storeVars == <<blocks, meta, buckets, keyed, peers, calls, puts, torn, apart, callFaults>>

StoreTypeOK ==
    /\ blocks \in [Stores -> [Keys -> Bytes]]
    /\ meta \in [Stores -> [Keys -> Bytes \ {Torn}]]
    /\ buckets \subseteq Stores /\ keyed \subseteq Stores
    /\ \A s \in Stores : peers[s] \subseteq Stores \ {s}
    /\ calls \in [Slots -> Call \cup {Free}]
    /\ puts \in 0 .. MaxPuts
    /\ torn \subseteq Stores \X Keys
    /\ apart \subseteq Keys
    /\ callFaults \in 0 .. MaxFaults

StoreInit ==
    /\ blocks = [s \in Stores |-> [k \in Keys |-> Missing]]
    /\ meta = blocks
    /\ buckets = {} /\ keyed \in SUBSET Stores
    /\ peers = [s \in Stores |-> {}]
    /\ calls = [c \in Slots |-> Free]
    /\ puts = 0 /\ callFaults = 0
    /\ torn = {} /\ apart = {}

Active == {c \in Slots : calls[c] # Free}
Writing(k) == {c \in Active : calls[c].key = k /\ calls[c].op # "get"
                              /\ calls[c].pc \notin {"ok", "error"}}
Locally(s, k) == {c \in Writing(k) : calls[c].at = s /\ calls[c].pc \in {"start", "write", "index"}}
AllJoined == \A s \in Stores : peers[s] # {}
Run(c, op, pc) == c \in Active /\ calls[c].op = op /\ calls[c].pc = pc
Become(c, pc) == calls' = [calls EXCEPT ![c].pc = pc]

\* A new call takes a free slot; what else writes the object is told
\* that it is not alone any more.
Enter(call) ==
    LET d == CHOOSE c \in Slots : calls[c] = Free
        write == call.op # "get"
        here == IF write THEN Locally(call.at, call.key) ELSE {}
        \* the chain of callers writes the object on behalf of this call
        others == IF write /\ call.by = Client THEN Writing(call.key) ELSE {}
    IN  [c \in Slots |->
            IF c = d THEN [call EXCEPT !.alone = here = {}, !.clean = others = {}]
            ELSE IF calls[c] = Free THEN Free
            ELSE [calls[c] EXCEPT !.alone = @ /\ c \notin here, !.clean = @ /\ c \notin others]]
HasSlot == \E c \in Slots : calls[c] = Free

\* A call that is lost or refused, or a handler that fails or is dropped: what
\* it wrote may not be everywhere, and whoever else is at it cannot know.  For a
\* read, some store was out of reach.
Spoiled(f, k) ==
    [c \in Slots |-> IF f[c] = Free THEN Free
                     ELSE [f[c] EXCEPT !.clean = @ /\ f[c].key # k, !.joined = FALSE]]
Spoil(f, k, op) ==
    /\ calls' = Spoiled(f, k)
    /\ apart' = IF op = "get" THEN apart ELSE apart \cup {k}

-----------------------------------------------------------------------------
\* PUT /buckets/{bucket}
CreateBucket(s) ==
    /\ s \notin buckets
    /\ buckets' = buckets \cup {s}
    /\ UNCHANGED <<blocks, meta, keyed, peers, calls, puts, torn, apart, callFaults>>

\* One round of start_peer_discovery: the storage nodes that the registry lists
\* as healthy.
Discover(s) ==
    \E found \in SUBSET (Stores \ {s}) :
        /\ found # peers[s]
        /\ peers' = [peers EXCEPT ![s] = found]
        /\ calls' = IF found # {} THEN calls
                    ELSE [c \in Slots |-> IF calls[c] = Free THEN Free
                                          ELSE [calls[c] EXCEPT !.joined = FALSE]]
        /\ UNCHANGED <<blocks, meta, buckets, keyed, puts, torn, apart, callFaults>>

\* A client calls a store.
Request(s, k, op) ==
    /\ HasSlot
    /\ op = "put" => puts < MaxPuts
    /\ puts' = IF op = "put" THEN puts + 1 ELSE puts
    /\ calls' = Enter([op |-> op, at |-> s, key |-> k,
                       val |-> IF op = "put" THEN puts' ELSE Missing,
                       by |-> Client, todo |-> {}, pc |-> "start",
                       alone |-> TRUE, clean |-> TRUE, joined |-> AllJoined])
    /\ UNCHANGED <<blocks, meta, buckets, keyed, peers, torn, apart, callFaults>>

\* put_object, put_bucket_object and write_object up to BlockStore::put, which
\* opens the file and so empties it; a bucket that is not known is a 404.
OpenBlock(c) ==
    /\ Run(c, "put", "start")
    /\ IF calls[c].key \in Bucketed /\ calls[c].at \notin buckets
       THEN Become(c, "error") /\ UNCHANGED blocks
       ELSE /\ blocks' = [blocks EXCEPT ![calls[c].at][calls[c].key] = Torn]
            /\ Become(c, "write")
    /\ UNCHANGED <<meta, buckets, keyed, peers, puts, torn, apart, callFaults>>

\* The file cannot be opened or removed, or the bucket cannot be looked up.
OpenFails(c) ==
    /\ callFaults < MaxFaults
    /\ Run(c, "put", "start") \/ Run(c, "delete", "start")
    /\ Spoil([calls EXCEPT ![c].pc = "error"], calls[c].key, calls[c].op)
    /\ callFaults' = callFaults + 1
    /\ UNCHANGED <<blocks, meta, buckets, keyed, peers, puts, torn>>

WriteBlock(c) ==
    /\ Run(c, "put", "write")
    /\ blocks' = [blocks EXCEPT ![calls[c].at][calls[c].key] = calls[c].val]
    /\ Become(c, "index")
    /\ UNCHANGED <<meta, buckets, keyed, peers, puts, torn, apart, callFaults>>

\* BlockStore::put does not look at how its write went: the file stays as it is,
\* and the handler goes on.
WriteFails(c) ==
    /\ callFaults < MaxFaults
    /\ Run(c, "put", "write")
    /\ Spoil([calls EXCEPT ![c].pc = "index", ![c].alone = FALSE], calls[c].key, calls[c].op)
    /\ callFaults' = callFaults + 1
    /\ UNCHANGED <<blocks, meta, buckets, keyed, peers, puts, torn>>

\* delete_block: without a local file the answer is a 404, and no peer is told.
RemoveBlock(c) ==
    /\ Run(c, "delete", "start")
    /\ IF blocks[calls[c].at][calls[c].key] = Missing
       THEN Become(c, "error") /\ UNCHANGED blocks
       ELSE /\ blocks' = [blocks EXCEPT ![calls[c].at][calls[c].key] = Missing]
            /\ Become(c, "index")
    /\ UNCHANGED <<meta, buckets, keyed, peers, puts, torn, apart, callFaults>>

\* write_peers
WritePeers(s) == {T \in SUBSET peers[s] : Cardinality(T) = Min({Factor[s] - 1, Cardinality(peers[s])})}

\* Mutant: a delete stays where it was made.
PutsOnly(call, T) == IF call.key \in Bucketed \/ call.op = "delete" THEN {} ELSE T

\* replicate_put and replicate_delete call the peers they are given.
Told(call, T) == IF call.key \in Bucketed THEN {} ELSE T

\* Mutant: the row outlives the file.
RowKept(call) == IF call.op = "delete" THEN meta[call.at][call.key] ELSE call.val

\* MetadataStore.upsert and remove
Row(call) == call.val

\* The row is written or removed, and the peers to be told are looked up.  How
\* the removal went is not looked at.
Index(c) ==
    /\ Run(c, "put", "index") \/ Run(c, "delete", "index")
    /\ LET call == calls[c]
           place == <<call.at, call.key>>
       IN
       /\ \/ /\ meta' = [meta EXCEPT ![call.at][call.key] = Row(call)]
             /\ torn' = IF call.alone THEN torn \ {place} ELSE torn \cup {place}
             /\ UNCHANGED callFaults
          \/ /\ call.op = "delete" /\ callFaults < MaxFaults
             /\ callFaults' = callFaults + 1
             /\ torn' = torn \cup {place}
             /\ UNCHANGED meta
       /\ \E T \in WritePeers(call.at) :
              calls' = [calls EXCEPT
                           ![c] = [call EXCEPT !.pc = "send", !.todo = Told(call, T),
                                               !.clean = @ /\ T = Stores \ {call.at}]]
    /\ UNCHANGED <<blocks, buckets, keyed, peers, puts, apart>>

\* The row of a PUT cannot be written: the answer is 500, with the file in place
\* and no peer told.
UpsertFails(c) ==
    /\ callFaults < MaxFaults
    /\ Run(c, "put", "index")
    /\ Spoil([calls EXCEPT ![c].pc = "error"], calls[c].key, calls[c].op)
    /\ torn' = torn \cup {<<calls[c].at, calls[c].key>>}
    /\ callFaults' = callFaults + 1
    /\ UNCHANGED <<blocks, meta, buckets, keyed, peers, puts>>

\* read_peers, whoever asks
Asked(call) == IF call.key \in Bucketed THEN {} ELSE peers[call.at]

\* get_object: the local file, or else every peer in turn.  A file that cannot be
\* read is a miss like one that is not there.
ReadBlock(c) ==
    /\ Run(c, "get", "start")
    /\ LET call == calls[c]
           val == blocks[call.at][call.key]
           missed == [calls EXCEPT ![c] = [call EXCEPT !.pc = "send", !.todo = Asked(call)]]
       IN  \/ /\ val # Missing
              /\ calls' = [calls EXCEPT ![c] = [call EXCEPT !.val = val, !.pc = "ok"]]
              /\ UNCHANGED callFaults
           \/ /\ val = Missing
              /\ calls' = missed
              /\ UNCHANGED callFaults
           \/ /\ val # Missing /\ callFaults < MaxFaults
              /\ calls' = Spoiled(missed, call.key)
              /\ callFaults' = callFaults + 1
    /\ UNCHANGED <<blocks, meta, buckets, keyed, peers, puts, torn, apart>>

\* A call to the next peer, which is served there as any other.  No key goes
\* with it: a store that was started with one lets no peer in.
CallPeer(c) ==
    /\ HasSlot /\ c \in Active /\ calls[c].pc = "send"
    /\ \E t \in calls[c].todo \ keyed :
           LET call == calls[c]
               sent == [call EXCEPT !.at = t, !.by = c, !.todo = {}, !.pc = "start"]
               entered == Enter(sent)
           IN  calls' = [entered EXCEPT ![c] = [entered[c] EXCEPT !.pc = "wait", !.todo = call.todo \ {t}]]
    /\ UNCHANGED <<blocks, meta, buckets, keyed, peers, puts, torn, apart, callFaults>>

\* The call to a peer fails, which is logged, or the peer has a key and answers
\* 401, which nobody looks at: the next peer is tried.
CallLost(c) ==
    /\ c \in Active /\ calls[c].pc = "send"
    /\ \E t \in calls[c].todo :
           /\ \/ callFaults < MaxFaults /\ callFaults' = callFaults + 1
              \/ t \in keyed /\ UNCHANGED callFaults
           /\ Spoil([calls EXCEPT ![c].todo = @ \ {t}], calls[c].key, calls[c].op)
    /\ UNCHANGED <<blocks, meta, buckets, keyed, peers, puts, torn>>

\* The answer of a peer: bytes end a GET, and anything else is followed by the
\* next peer.
PeerAnswers(d) ==
    /\ d \in Active /\ calls[d].pc \in {"ok", "error"} /\ calls[d].by # Client
    /\ LET c == calls[d].by
           found == calls[c].op = "get" /\ calls[d].pc = "ok"
       IN  calls' = [calls EXCEPT
                       ![d] = Free,
                       ![c] = [calls[c] EXCEPT !.pc = IF found THEN "ok" ELSE "send",
                                               !.val = IF found THEN calls[d].val ELSE @]]
    /\ UNCHANGED <<blocks, meta, buckets, keyed, peers, puts, torn, apart, callFaults>>

\* No peer is left: a write is answered as the local store took it, a read is
\* answered 404.
Finish(c) ==
    /\ c \in Active /\ calls[c].pc = "send" /\ calls[c].todo = {}
    /\ Become(c, IF calls[c].op = "get" THEN "error" ELSE "ok")
    /\ apart' = IF calls[c].op = "get" \/ calls[c].by # Client THEN apart
                ELSE IF calls[c].clean THEN apart \ {calls[c].key}
                ELSE apart \cup {calls[c].key}
    /\ UNCHANGED <<blocks, meta, buckets, keyed, peers, puts, torn, callFaults>>

Return(c) ==
    /\ c \in Active /\ calls[c].pc \in {"ok", "error"} /\ calls[c].by = Client
    /\ calls' = [calls EXCEPT ![c] = Free]
    /\ UNCHANGED <<blocks, meta, buckets, keyed, peers, puts, torn, apart, callFaults>>

\* The handlers of D are gone: what they called goes on for nobody, and whoever
\* called them gets an error.
Gone(D) ==
    [c \in Slots |->
        IF c \in D \/ calls[c] = Free THEN Free
        ELSE [calls[c] EXCEPT
                 !.by = IF @ \in D THEN Client ELSE @,
                 !.pc = IF @ = "wait" /\ \E d \in D : calls[d].by = c THEN "send" ELSE @]]

\* A caller hangs up while the handler waits for a peer: the handler is dropped
\* at that point.
HangUp(c) ==
    /\ callFaults < MaxFaults
    /\ c \in Active /\ calls[c].pc = "wait" /\ calls[c].by = Client
    /\ Spoil(Gone({c}), calls[c].key, calls[c].op)
    /\ callFaults' = callFaults + 1
    /\ UNCHANGED <<blocks, meta, buckets, keyed, peers, puts, torn>>

\* A store dies and starts again with its files and its table, under the key it
\* had, another, or none.
StoreRestart(s) ==
    /\ callFaults < MaxFaults
    /\ LET D == {c \in Active : calls[c].at = s}
           f == Gone(D)
       IN  /\ calls' = [c \in Slots |-> IF f[c] = Free THEN Free
                                        ELSE [f[c] EXCEPT !.clean = FALSE, !.joined = FALSE]]
           /\ apart' = apart \cup {calls[c].key : c \in D}
           /\ torn' = torn \cup {<<s, calls[c].key>> : c \in {c \in D : calls[c].pc \in {"write", "index"}}}
    /\ peers' = [peers EXCEPT ![s] = {}]
    /\ keyed' \in {keyed \cup {s}, keyed \ {s}}
    /\ callFaults' = callFaults + 1
    /\ UNCHANGED <<blocks, meta, buckets, puts>>

Works(c) ==
    \/ OpenBlock(c) \/ WriteBlock(c) \/ RemoveBlock(c) \/ Index(c) \/ ReadBlock(c)
    \/ CallPeer(c) \/ PeerAnswers(c)
Fails(c) == CallLost(c) \/ HangUp(c) \/ OpenFails(c) \/ WriteFails(c) \/ UpsertFails(c)

StoreNext ==
    \/ \E s \in Stores : CreateBucket(s) \/ Discover(s) \/ StoreRestart(s)
    \/ \E s \in Stores, k \in Keys, op \in {"put", "get", "delete"} : Request(s, k, op)
    \/ \E c \in Slots : Works(c) \/ Finish(c) \/ Return(c) \/ Fails(c)

StoreSpec == StoreInit /\ [][StoreNext]_storeVars
-----------------------------------------------------------------------------
\* The files of an object are the same at every store when nothing writes it,
\* unless its last write lost a call, was refused by a store with a key, had a
\* step that failed, met another write, or went to a store that does not copy to
\* all the others: deletes are copied like writes, and a write that goes well
\* makes good what an earlier one left behind.
ReplicasAgree ==
    \A k \in Keys \ (Bucketed \cup apart) :
        Writing(k) = {} => \A s, t \in Stores : blocks[s][k] = blocks[t][k]

\* A store's table describes its files when no handler is between the two,
\* unless two calls at this store wrote an object at once, the store died in
\* between, or the file or the row could not be written or removed, and until the
\* next write of it.
MetaMatchesBlock ==
    \A s \in Stores, k \in Keys :
        Locally(s, k) = {} /\ <<s, k>> \notin torn => meta[s][k] = blocks[s][k]
=============================================================================
