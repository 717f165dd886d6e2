----------------------------- MODULE IndexLayer -----------------------------
(***************************************************************************)
(* The indexes an EmberDB handle keeps beside the store: the master index  *)
(* (embers/index/master.py) in memory, persisted at checkpoint; the graph  *)
(* (embers/index/graph.py) in a file of its own, written at once; and the  *)
(* part of embers/db.py that keeps them in step with the store: the write  *)
(* callback, checkpoint, and the rebuild when a handle connects.           *)
(*                                                                         *)
(* A handle is one EmberDB object, with a thread that writes, one that     *)
(* deprecates and one that checkpoints.  Of the store (RecordStore,        *)
(* VersionStore) what matters here is which records and sidecars there are *)
(* and that writers exclude one another.  Each record is derived from one  *)
(* other, so that one edge of the graph belongs to it.                     *)
(***************************************************************************)
EXTENDS Naturals, FiniteSets

CONSTANTS
    Handle,         \* EmberDB objects
    Rec,            \* record identifiers
    NoRec,
    NoHandle,       \* the store lock is free
    MaxFaults,      \* bound: crashes and failing file operations
    MaxDeprecated,  \* bound: deprecated records
    MaxCheckpoints, \* bound: calls of checkpoint()
    MaxConnects     \* bound: handles opened, again or for the first time

ASSUME IndexAssumption ==
    /\ NoRec \notin Rec
    /\ NoHandle \notin Handle
    /\ {MaxFaults, MaxDeprecated, MaxCheckpoints, MaxConnects} \subseteq Nat

(* What is kept of a master index: _records, _superseded and _deprecated. *)
Index == [ids : SUBSET Rec, superseded : [Rec -> Rec \cup {NoRec}],
          deprecated : SUBSET Rec]

EmptyIndex == [ids |-> {}, superseded |-> [r \in Rec |-> NoRec], deprecated |-> {}]

WritePhase   == {"publish", "supersede", "master", "edge", "mark"}
ConnectPhase == {"load", "decide", "rebuild"}
Phase        == {"closed", "open"} \cup ConnectPhase \cup WritePhase

VARIABLES
    records,       \* records with a record file
    limbo,         \* records logged by a write that failed to publish them
    supersedes,    \* supersedes[r]: the record that r supersedes, in its file
    sidecar,       \* sidecar[r]: the record that superseded r, in r's sidecar
    deprecatedAt,  \* records with a deprecation sidecar
    edges,         \* edges[r]: copies of r's derivation edge in adjacency.json
    masterFile,    \* master.json: an index; the empty one if absent or torn
    lock,          \* who holds the store lock
    phase,         \* phase[h]: the next step of the writing thread of h
    current,       \* current[h]: the record it writes
    todo,          \* todo[h]: records a rebuild has still to index
    index,         \* index[h]: the master index of h
    marking,       \* marking[h]: deprecated on disk, not yet in the index of h
    saving,        \* saving[h]: the next step of the checkpointing thread of h
    mine,          \* history: mine[h]: records whose write() or update() on h returned
    atConnect,     \* history: atConnect[h]: records in the store when h looked
    broken,        \* history: records whose callback failed half way
    checkpoints, connects, faults

files   == <<records, limbo, supersedes, sidecar, deprecatedAt, edges>>
threads == <<phase, current, todo, marking, saving>>
history == <<mine, atConnect, broken, checkpoints, connects, faults>>
vars    == <<files, masterFile, lock, index, threads, history>>

Init ==
    /\ records = {} /\ limbo = {} /\ deprecatedAt = {}
    /\ supersedes = [r \in Rec |-> NoRec]
    /\ sidecar = [r \in Rec |-> NoRec]
    /\ edges = [r \in Rec |-> 0]
    /\ masterFile = EmptyIndex
    /\ lock = NoHandle
    /\ phase = [h \in Handle |-> "closed"]
    /\ current = [h \in Handle |-> NoRec]
    /\ todo = [h \in Handle |-> {}]
    /\ index = [h \in Handle |-> EmptyIndex]
    /\ marking = [h \in Handle |-> NoRec]
    /\ saving = [h \in Handle |-> "idle"]
    /\ mine = [h \in Handle |-> {}]
    /\ atConnect = [h \in Handle |-> {}]
    /\ broken = {} /\ checkpoints = 0 /\ connects = 0 /\ faults = 0

Goto(h, p) == phase' = [phase EXCEPT ![h] = p]

(* The index lock of h is free: it is held while master.json is written. *)
IndexFree(h) == saving[h] # "writeMaster"

IndexRecord(h, r) == index' = [index EXCEPT ![h].ids = @ \cup {r}]

(* graph_add_edge appends, whether or not the edge is there. *)
AddEdge(r) == edges' = [edges EXCEPT ![r] = @ + 1]

-----------------------------------------------------------------------------
(* EmberDB.__init__: recover the log, load the index, rebuild if empty.    *)

(* PhysicalStore.__init__, under the store lock; an entry whose replay fails *)
(* stays in the log.                                                       *)
Connect(h) ==
    /\ phase[h] = "closed"
    /\ lock = NoHandle
    /\ connects < MaxConnects
    /\ connects' = connects + 1
    /\ \E replayed \in SUBSET limbo :
          /\ records' = records \cup replayed
          /\ limbo' = limbo \ replayed
    /\ Goto(h, "load")
    /\ UNCHANGED <<supersedes, sidecar, deprecatedAt, edges, masterFile, lock, index,
                   current, todo, marking, saving, mine, atConnect, broken,
                   checkpoints, faults>>

(* A file that does not parse is reported and leaves its index empty. *)
Load(h) ==
    /\ phase[h] = "load"
    /\ index' = [index EXCEPT ![h] = masterFile]
    /\ Goto(h, "decide")
    /\ UNCHANGED <<files, masterFile, lock, current, todo, marking, saving, history>>

(* _rebuild_indexes_if_needed: only an empty master index is rebuilt. *)
DecideRebuild(h) ==
    /\ phase[h] = "decide"
    /\ atConnect' = [atConnect EXCEPT ![h] = records]
    /\ todo' = [todo EXCEPT ![h] = IF index[h].ids = {} THEN records ELSE {}]
    /\ Goto(h, "rebuild")
    /\ UNCHANGED <<files, masterFile, lock, index, current, marking, saving, mine,
                   broken, checkpoints, connects, faults>>

(* _index_record on the handle that nobody has yet. *)
RebuildRecord(h) ==
    /\ phase[h] = "rebuild"
    /\ \E r \in todo[h] :
          /\ IndexRecord(h, r)
          /\ AddEdge(r)
          /\ todo' = [todo EXCEPT ![h] = @ \ {r}]
    /\ UNCHANGED <<records, limbo, supersedes, sidecar, deprecatedAt, masterFile, lock,
                   phase, current, marking, saving, history>>

(* Mutant: the handle is handed out while it is being rebuilt. *)
ConnectedEarly(h) ==
    /\ phase[h] = "rebuild"
    /\ Goto(h, "open")
    /\ UNCHANGED <<files, masterFile, lock, index, current, todo, marking, saving, history>>

Connected(h) ==
    /\ phase[h] = "rebuild" /\ todo[h] = {}
    /\ Goto(h, "open")
    /\ UNCHANGED <<files, masterFile, lock, index, current, todo, marking, saving, history>>

-----------------------------------------------------------------------------
(* write and update: a store transaction, then the callback, under the     *)
(* store lock.                                                             *)

BeginWrite(h) ==
    /\ phase[h] = "open"
    /\ lock = NoHandle
    /\ \E r \in Rec \ (records \cup limbo), old \in records \cup {NoRec} :
          /\ current' = [current EXCEPT ![h] = r]
          /\ supersedes' = [supersedes EXCEPT ![r] = old]
    /\ lock' = h
    /\ Goto(h, "publish")
    /\ UNCHANGED <<records, limbo, sidecar, deprecatedAt, edges, masterFile, index,
                   todo, marking, saving, history>>

Publish(h) ==
    /\ phase[h] = "publish"
    /\ records' = records \cup {current[h]}
    /\ Goto(h, IF supersedes[current[h]] = NoRec THEN "master" ELSE "supersede")
    /\ UNCHANGED <<limbo, supersedes, sidecar, deprecatedAt, edges, masterFile, lock,
                   index, current, todo, marking, saving, history>>

Supersede(h) ==
    /\ phase[h] = "supersede"
    /\ sidecar' = [sidecar EXCEPT ![supersedes[current[h]]] = current[h]]
    /\ Goto(h, "master")
    /\ UNCHANGED <<records, limbo, supersedes, deprecatedAt, edges, masterFile, lock,
                   index, current, todo, marking, saving, history>>

(* Mutant: the callback may run before the record is published. *)
NotifyMasterEarly(h) ==
    /\ phase[h] \in {"publish", "master"} /\ IndexFree(h)
    /\ IndexRecord(h, current[h])
    /\ Goto(h, "edge")
    /\ UNCHANGED <<files, masterFile, lock, current, todo, marking, saving, history>>

(* The callback begins. *)
NotifyMaster(h) ==
    /\ phase[h] = "master" /\ IndexFree(h)
    /\ IndexRecord(h, current[h])
    /\ Goto(h, "edge")
    /\ UNCHANGED <<files, masterFile, lock, current, todo, marking, saving, history>>

NotifyGraph(h) ==
    /\ phase[h] = "edge"
    /\ AddEdge(current[h])
    /\ Goto(h, "mark")
    /\ UNCHANGED <<records, limbo, supersedes, sidecar, deprecatedAt, masterFile, lock,
                   index, current, todo, marking, saving, history>>

(* The call returns to its caller. *)
FinishWrite(h) ==
    /\ mine' = [mine EXCEPT ![h] = @ \cup {current[h]}]
    /\ current' = [current EXCEPT ![h] = NoRec]
    /\ lock' = NoHandle
    /\ Goto(h, "open")

(* Mutant: the mark is left to whoever called update(). *)
MarkSupersededNever(h) ==
    /\ phase[h] = "mark"
    /\ FinishWrite(h)
    /\ UNCHANGED <<files, masterFile, index, todo, marking, saving, atConnect,
                   broken, checkpoints, connects, faults>>

(* mark_superseded, the end of the callback. *)
MarkSuperseded(h) ==
    /\ phase[h] = "mark" /\ IndexFree(h)
    /\ index' = IF supersedes[current[h]] = NoRec THEN index
                ELSE [index EXCEPT ![h].superseded[supersedes[current[h]]] = current[h]]
    /\ FinishWrite(h)
    /\ UNCHANGED <<files, masterFile, todo, marking, saving, atConnect,
                   broken, checkpoints, connects, faults>>

(* Updating another index raises (timeline, full-text, vector or graph):   *)
(* _notify reports it, skips the rest of the callback, and the write returns. *)
NotifyFails(h) ==
    /\ phase[h] = "edge"
    /\ faults < MaxFaults
    /\ faults' = faults + 1
    /\ broken' = broken \cup {current[h]}
    /\ FinishWrite(h)
    /\ UNCHANGED <<files, masterFile, index, todo, marking, saving, atConnect,
                   checkpoints, connects>>

(* A file operation of the store fails: the call raises, the handle lives   *)
(* on and its callback does not run, though the record may be published or *)
(* in the log for the next recovery.                                       *)
WriteFails(h) ==
    /\ \/ phase[h] \in {"publish", "supersede"}
       \/ phase[h] = "master" /\ supersedes[current[h]] = NoRec
    /\ faults < MaxFaults
    /\ faults' = faults + 1
    /\ \/ phase[h] = "publish" /\ limbo' = limbo \cup {current[h]}
       \/ limbo' = limbo
    /\ current' = [current EXCEPT ![h] = NoRec]
    /\ lock' = NoHandle
    /\ Goto(h, "open")
    /\ UNCHANGED <<records, supersedes, sidecar, deprecatedAt, edges, masterFile, index,
                   todo, marking, saving, mine, atConnect, broken, checkpoints, connects>>

-----------------------------------------------------------------------------
(* deprecate: the sidecar under the store lock, the mark after it.         *)

Deprecate(h) ==
    /\ phase[h] = "open"
    /\ lock = NoHandle
    /\ marking[h] = NoRec
    /\ Cardinality(deprecatedAt) < MaxDeprecated
    /\ \E r \in records \ deprecatedAt :
          /\ deprecatedAt' = deprecatedAt \cup {r}
          /\ marking' = [marking EXCEPT ![h] = r]
    /\ UNCHANGED <<records, limbo, supersedes, sidecar, edges, masterFile, lock, index,
                   phase, current, todo, saving, history>>

MarkDeprecated(h) ==
    /\ marking[h] # NoRec /\ IndexFree(h)
    /\ index' = [index EXCEPT ![h].deprecated = @ \cup {marking[h]}]
    /\ marking' = [marking EXCEPT ![h] = NoRec]
    /\ UNCHANGED <<files, masterFile, lock, phase, current, todo, saving, history>>

-----------------------------------------------------------------------------
(* checkpoint -> MasterIndex.persist: master.json is opened, which         *)
(* truncates it, and then written, under the lock of the index; the graph  *)
(* is saved already.  The store lock is not taken.                         *)

BeginCheckpoint(h) ==
    /\ phase[h] \notin {"closed"} \cup ConnectPhase
    /\ saving[h] = "idle"
    /\ checkpoints < MaxCheckpoints
    /\ checkpoints' = checkpoints + 1
    /\ masterFile' = EmptyIndex
    /\ saving' = [saving EXCEPT ![h] = "writeMaster"]
    /\ UNCHANGED <<files, lock, index, phase, current, todo, marking,
                   mine, atConnect, broken, connects, faults>>

(* Two handles that write the file at a time leave what one of them wrote, *)
(* or a mixture that does not parse.                                       *)
WriteMaster(h) ==
    /\ saving[h] = "writeMaster"
    /\ \/ masterFile' = index[h]
       \/ masterFile # EmptyIndex /\ masterFile' = EmptyIndex
    /\ saving' = [saving EXCEPT ![h] = "idle"]
    /\ UNCHANGED <<files, lock, index, phase, current, todo, marking, history>>

-----------------------------------------------------------------------------
(* The end of a handle.                                                    *)

(* Everything in memory is gone. *)
Forget(h) ==
    /\ lock' = IF lock = h THEN NoHandle ELSE lock
    /\ index' = [index EXCEPT ![h] = EmptyIndex]
    /\ current' = [current EXCEPT ![h] = NoRec]
    /\ todo' = [todo EXCEPT ![h] = {}]
    /\ marking' = [marking EXCEPT ![h] = NoRec]
    /\ saving' = [saving EXCEPT ![h] = "idle"]
    /\ mine' = [mine EXCEPT ![h] = {}]
    /\ atConnect' = [atConnect EXCEPT ![h] = {}]
    /\ Goto(h, "closed")

(* The process ends between calls: there is no close() that would save. *)
Exit(h) ==
    /\ phase[h] = "open" /\ marking[h] = NoRec /\ saving[h] = "idle"
    /\ Forget(h)
    /\ UNCHANGED <<files, masterFile, broken, checkpoints, connects, faults>>

(* The process dies; a write that was logged but not published stays in the *)
(* log for the next recovery.                                              *)
Crash(h) ==
    /\ phase[h] # "closed"
    /\ faults < MaxFaults
    /\ faults' = faults + 1
    /\ \/ phase[h] = "publish" /\ limbo' = limbo \cup {current[h]}
       \/ limbo' = limbo
    /\ Forget(h)
    /\ UNCHANGED <<records, supersedes, sidecar, deprecatedAt, edges, masterFile, broken,
                   checkpoints, connects>>

-----------------------------------------------------------------------------
Next == \E h \in Handle :
    \/ Connect(h) \/ Load(h) \/ DecideRebuild(h) \/ RebuildRecord(h) \/ Connected(h)
    \/ BeginWrite(h) \/ Publish(h) \/ Supersede(h)
    \/ NotifyMaster(h) \/ NotifyGraph(h)
    \/ MarkSuperseded(h) \/ NotifyFails(h) \/ WriteFails(h)
    \/ Deprecate(h) \/ MarkDeprecated(h)
    \/ BeginCheckpoint(h) \/ WriteMaster(h)
    \/ Exit(h) \/ Crash(h)

Spec == Init /\ [][Next]_vars

-----------------------------------------------------------------------------
(* Properties.                                                             *)

TypeOK ==
    /\ {records, limbo, deprecatedAt, broken} \subseteq SUBSET Rec
    /\ supersedes \in [Rec -> Rec \cup {NoRec}]
    /\ sidecar \in [Rec -> Rec \cup {NoRec}]
    /\ edges \in [Rec -> Nat]
    /\ masterFile \in Index
    /\ lock \in Handle \cup {NoHandle}
    /\ phase \in [Handle -> Phase]
    /\ current \in [Handle -> Rec \cup {NoRec}]
    /\ index \in [Handle -> Index]
    /\ marking \in [Handle -> Rec \cup {NoRec}]
    /\ saving \in [Handle -> {"idle", "writeMaster"}]
    /\ {todo, mine, atConnect} \subseteq [Handle -> SUBSET Rec]
    /\ {checkpoints, connects, faults} \subseteq Nat

(* An index, in memory or in master.json, is never ahead of the store: it  *)
(* names only published records, superseded ones only where a sidecar says *)
(* so, and deprecated ones likewise.                                       *)
NeverAhead(i) ==
    /\ i.ids \subseteq records
    /\ \A r \in Rec : i.superseded[r] # NoRec => sidecar[r] # NoRec
    /\ i.deprecated \subseteq deprecatedAt

IndexNeverAhead == NeverAhead(masterFile) /\ \A h \in Handle : NeverAhead(index[h])

(* db.py, "Keep the supersession map update inside WriteEngine's store     *)
(* transaction": the index of h holds every record whose write() or        *)
(* update() on h returned, and knows that its predecessor is superseded.   *)
OwnWritesIndexed ==
    \A h \in Handle :
        \A r \in mine[h] :
            /\ r \in index[h].ids
            /\ r \notin broken /\ supersedes[r] # NoRec =>
                  index[h].superseded[supersedes[r]] # NoRec

(* master.py, "Persisted to disk on checkpoint. Rebuilt from store on      *)
(* startup": a handle that has connected finds every record that was there. *)
ConnectFindsAll ==
    \A h \in Handle :
        phase[h] \in {"open"} \cup WritePhase => atConnect[h] \subseteq index[h].ids

(* That much is true as long as nobody has called checkpoint(). *)
RebuildIsComplete == checkpoints = 0 => ConnectFindsAll

=============================================================================
