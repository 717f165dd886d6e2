--------------------------- MODULE AppendOnlyStore ---------------------------
(***************************************************************************)
(* What the physical store of Ember's Diaries promises its callers: a map  *)
(* from record identifiers to contents that only ever grows.  A record is  *)
(* published once, as a whole, and never changes; a write is acknowledged  *)
(* only for a record that is there to be read.  How the promise is kept    *)
(* across threads, processes, crashes and log replays is the business of   *)
(* RecordStore, which implements this specification.                       *)
(***************************************************************************)
CONSTANTS Id,        \* record identifiers
          Content,   \* what a record may hold
          NoContent  \* the value of an identifier that names no record

VARIABLES stored,    \* stored[i]: the content a reader of i finds
          returned   \* the <<id, content>> pairs whose write() has returned

storeVars == <<stored, returned>>

StoreInit ==
    /\ stored = [i \in Id |-> NoContent]
    /\ returned = {}

(* A record becomes readable, whole and for good. *)
Publish(i, c) ==
    /\ stored[i] = NoContent
    /\ stored' = [stored EXCEPT ![i] = c]
    /\ UNCHANGED returned

(* write() returns to the caller that asked for exactly this content. *)
Acknowledge(i, c) ==
    /\ stored[i] = c
    /\ returned' = returned \cup {<<i, c>>}
    /\ UNCHANGED stored

StoreNext == \E i \in Id, c \in Content : Publish(i, c) \/ Acknowledge(i, c)

StoreSpec == StoreInit /\ [][StoreNext]_storeVars

=============================================================================
