--------------------------- MODULE MCObjectStore ---------------------------
(***************************************************************************)
(* Two object stores without keys that serve one request of a client at a  *)
(* time, find one another between requests, and meet no failure: what      *)
(* their documentation says of that.                                       *)
(***************************************************************************)
EXTENDS ObjectStore, TLC

CONSTANTS primary, replica

MCFactor == (primary :> 2) @@ (replica :> 1)

MCInit == StoreInit /\ keyed = {}

MCNext ==
    \/ /\ Active = {}
       /\ \/ \E s \in Stores : Discover(s)
          \/ \E s \in Stores, k \in Keys, op \in {"put", "get", "delete"} : Request(s, k, op)
    \/ \E c \in Slots : Works(c) \/ Finish(c) \/ Return(c)

MCSpec == MCInit /\ [][MCNext]_storeVars
-----------------------------------------------------------------------------
\* The handlers that look for the object of the client's GET after a local miss.
Missed == {c \in Active : calls[c].op = "get" /\ calls[c].pc \in {"send", "wait"}}

\* A GET asks each peer, and when all miss it is a 404: no store misses the
\* object of one GET twice (get_object and peer_get, as docs/storage/replication.md
\* describes the read path).
AllMissIs404 == \A c, d \in Missed : c # d => calls[c].at # calls[d].at
=============================================================================
