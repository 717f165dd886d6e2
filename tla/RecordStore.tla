----------------------------- MODULE RecordStore -----------------------------
(***************************************************************************)
(* PhysicalStore (embers/storage/store.py), the write-ahead log            *)
(* (embers/engine/wal.py) and the native transaction and recovery code     *)
(* behind them (rust/ember_core/src/lib.rs), with WriteEngine.write as the *)
(* entry of a write.                                                       *)
(*                                                                         *)
(* A handle is one open PhysicalStore: a thread or a process of its own.   *)
(* All handles of a store share the directory and the store lock.  Every   *)
(* file operation is a step of its own, so that other handles, crashes and *)
(* I/O errors may come between any two of them.                            *)
(*                                                                         *)
(* The log file is modelled by what pending_wal_lines makes of it: the set *)
(* of readable PENDING frames, the set of readable COMMITTED frames, and   *)
(* whether the file ends in a partial line.  A wal_id is a fresh uuid, so  *)
(* a COMMITTED frame, which names a transaction by its wal_id, is written  *)
(* as the transaction itself.                                              *)
(***************************************************************************)
EXTENDS Naturals, FiniteSets

CONSTANTS
    Handle,       \* open (or yet to be opened) handles of the store
    Id,           \* record identifiers
    Content,      \* record contents
    WalId,        \* uuids that a write may draw for its log entry
    NoContent,    \* no record file
    NoHandle,     \* the store lock is free
    NoEntry,      \* the handle is in no transaction
    MaxRecords,   \* the quota max_store_bytes, a record counting one unit; 0: none
    MaxFaults,    \* bound: crashes and I/O errors in a behaviour
    TornAppends,  \* may a fault leave part of a log line behind?
    Checkpoints   \* may checkpoint_wal() be called?

ASSUME ConstantAssumption ==
    /\ NoContent \notin Content
    /\ NoHandle \notin Handle
    /\ MaxRecords \in Nat
    /\ MaxFaults \in Nat
    /\ TornAppends \in BOOLEAN
    /\ Checkpoints \in BOOLEAN

Entry == [wal : WalId, id : Id, content : Content]

ASSUME NoEntryAssumption == NoEntry \notin Entry

(* What a handle does next. *)
WritePhase   == {"log", "publish", "commit", "readCount", "writeCount"}
RecoverPhase == {"recover", "recommit"}
CompactPhase == {"truncate", "rewrite"}
Phase        == {"closed", "idle"} \cup WritePhase \cup RecoverPhase \cup CompactPhase

VARIABLES
    records,      \* records[i]: the content of records/<i>.ember
    pending,      \* readable PENDING frames of wal.jsonl
    committed,    \* transactions with a readable COMMITTED frame
    torn,         \* does wal.jsonl end in a partial line?
    recordCount,  \* "record_count" of meta/store.json
    lock,         \* who holds the store lock
    phase,        \* phase[h]: the next step of handle h
    entry,        \* entry[h]: the transaction h writes or replays
    todo,         \* todo[h]: the pending frames h read for replay or compaction
    countRead,    \* countRead[h]: the count h read in order to increment it
    issued,       \* wal_ids already drawn
    logged,       \* history: transactions whose PENDING append has returned
    acked,        \* history: transactions whose write() has returned
    faults        \* history: faults so far

wal     == <<pending, committed, torn>>
local   == <<phase, entry, todo, countRead>>
history == <<issued, logged, acked, faults>>
vars    == <<records, wal, recordCount, lock, local, history>>

Uncommitted == pending \ committed

Present == {i \in Id : records[i] # NoContent}

Init ==
    /\ records = [i \in Id |-> NoContent]
    /\ pending = {} /\ committed = {} /\ torn = FALSE
    /\ recordCount = 0
    /\ lock = NoHandle
    /\ phase = [h \in Handle |-> "closed"]
    /\ entry = [h \in Handle |-> NoEntry]
    /\ todo = [h \in Handle |-> {}]
    /\ countRead = [h \in Handle |-> 0]
    /\ issued = {} /\ logged = {} /\ acked = {} /\ faults = 0

Goto(h, p) == phase' = [phase EXCEPT ![h] = p]

(* durable_append of one frame: the frame joins the partial line the file  *)
(* may end in, and the two make one unreadable line.                       *)
AppendPending(e) ==
    /\ pending' = IF torn THEN pending ELSE pending \cup {e}
    /\ torn' = FALSE
    /\ UNCHANGED committed

AppendCommitted(e) ==
    /\ committed' = IF torn THEN committed ELSE committed \cup {e}
    /\ torn' = FALSE
    /\ UNCHANGED pending

(* Mutant: publication replaces an existing file. *)
CreateNewOverwrites(e) == records' = [records EXCEPT ![e.id] = e.content]

(* atomic_write_new_file: publish a whole record, never overwrite one. *)
CreateNew(e) ==
    records' = IF records[e.id] = NoContent
               THEN [records EXCEPT ![e.id] = e.content]
               ELSE records

-----------------------------------------------------------------------------
(* WriteEngine.write and PhysicalStore.write.                              *)

(* Mutant: the record about to be written is not counted. *)
FitsWithoutNew == MaxRecords > 0 => Cardinality(Present) <= MaxRecords

(* _check_write_limits. *)
Fits == MaxRecords > 0 => Cardinality(Present) + 1 <= MaxRecords

(* Take the store lock, refuse an existing identifier (ValueError) and a   *)
(* full store (StorageLimitError), and draw a wal_id.                      *)
BeginWrite(h, i, c) ==
    /\ phase[h] = "idle"
    /\ lock = NoHandle
    /\ records[i] = NoContent
    /\ Fits
    /\ \E w \in WalId \ issued :
          /\ issued' = issued \cup {w}
          /\ entry' = [entry EXCEPT ![h] = [wal |-> w, id |-> i, content |-> c]]
    /\ lock' = h
    /\ Goto(h, "log")
    /\ UNCHANGED <<records, wal, recordCount, todo, countRead, logged, acked, faults>>

LogPending(h) ==
    /\ phase[h] = "log"
    /\ AppendPending(entry[h])
    /\ logged' = logged \cup {entry[h]}
    /\ Goto(h, "publish")
    /\ UNCHANGED <<records, recordCount, lock, entry, todo, countRead, issued, acked, faults>>

(* Mutant: the record may be published before it is logged. *)
PublishRecordEarly(h) ==
    /\ phase[h] \in {"log", "publish"}
    /\ CreateNew(entry[h])
    /\ Goto(h, "commit")
    /\ UNCHANGED <<wal, recordCount, lock, entry, todo, countRead, history>>

PublishRecord(h) ==
    /\ phase[h] = "publish"
    /\ CreateNew(entry[h])
    /\ Goto(h, "commit")
    /\ UNCHANGED <<wal, recordCount, lock, entry, todo, countRead, history>>

(* Mutant: the commit may be logged before the record is published. *)
LogCommitEarly(h) ==
    /\ phase[h] \in {"publish", "commit"}
    /\ AppendCommitted(entry[h])
    /\ Goto(h, "readCount")
    /\ UNCHANGED <<records, recordCount, lock, entry, todo, countRead, history>>

(* Mutant: the lock is released before the count is updated. *)
LogCommitUnlocks(h) ==
    /\ phase[h] = "commit"
    /\ AppendCommitted(entry[h])
    /\ lock' = NoHandle
    /\ Goto(h, "readCount")
    /\ UNCHANGED <<records, recordCount, entry, todo, countRead, history>>

LogCommit(h) ==
    /\ phase[h] = "commit"
    /\ AppendCommitted(entry[h])
    /\ Goto(h, "readCount")
    /\ UNCHANGED <<records, recordCount, lock, entry, todo, countRead, history>>

ReadCount(h) ==
    /\ phase[h] = "readCount"
    /\ countRead' = [countRead EXCEPT ![h] = recordCount]
    /\ Goto(h, "writeCount")
    /\ UNCHANGED <<records, wal, recordCount, lock, entry, todo, history>>

(* The new store.json replaces the old one, the lock is released and the   *)
(* caller gets the record id.                                              *)
WriteCount(h) ==
    /\ phase[h] = "writeCount"
    /\ recordCount' = countRead[h] + 1
    /\ acked' = acked \cup {entry[h]}
    /\ lock' = NoHandle
    /\ entry' = [entry EXCEPT ![h] = NoEntry]
    /\ countRead' = [countRead EXCEPT ![h] = 0]
    /\ Goto(h, "idle")
    /\ UNCHANGED <<records, wal, todo, issued, logged, faults>>

-----------------------------------------------------------------------------
(* PhysicalStore.__init__: replay what the log holds uncommitted, under    *)
(* the store lock.                                                         *)

(* Mutant: recovery does not wait for the store lock. *)
OpenUnlocked(h) ==
    /\ phase[h] = "closed"
    /\ lock' = h
    /\ todo' = [todo EXCEPT ![h] = Uncommitted]
    /\ Goto(h, "recover")
    /\ UNCHANGED <<records, wal, recordCount, entry, countRead, history>>

(* Mutant: recovery empties the log before it replays what was in it. *)
OpenTruncates(h) ==
    /\ phase[h] = "closed"
    /\ lock = NoHandle
    /\ lock' = h
    /\ todo' = [todo EXCEPT ![h] = Uncommitted]
    /\ pending' = {} /\ committed' = {} /\ torn' = FALSE
    /\ Goto(h, "recover")
    /\ UNCHANGED <<records, recordCount, entry, countRead, history>>

Open(h) ==
    /\ phase[h] = "closed"
    /\ lock = NoHandle
    /\ lock' = h
    /\ todo' = [todo EXCEPT ![h] = Uncommitted]
    /\ Goto(h, "recover")
    /\ UNCHANGED <<records, wal, recordCount, entry, countRead, history>>

ReplayRecord(h) ==
    /\ phase[h] = "recover"
    /\ \E e \in todo[h] :
          /\ CreateNew(e)
          /\ entry' = [entry EXCEPT ![h] = e]
    /\ Goto(h, "recommit")
    /\ UNCHANGED <<wal, recordCount, lock, todo, countRead, history>>

ReplayCommit(h) ==
    /\ phase[h] = "recommit"
    /\ AppendCommitted(entry[h])
    /\ todo' = [todo EXCEPT ![h] = @ \ {entry[h]}]
    /\ entry' = [entry EXCEPT ![h] = NoEntry]
    /\ Goto(h, "recover")
    /\ UNCHANGED <<records, recordCount, lock, countRead, history>>

(* Mutant: recovery insists that the log holds nothing uncommitted. *)
EndRecoveryInsists(h) ==
    /\ phase[h] = "recover"
    /\ todo[h] = {} /\ Uncommitted = {}
    /\ lock' = NoHandle
    /\ Goto(h, "idle")
    /\ UNCHANGED <<records, wal, recordCount, entry, todo, countRead, history>>

EndRecovery(h) ==
    /\ phase[h] = "recover"
    /\ todo[h] = {}
    /\ lock' = NoHandle
    /\ Goto(h, "idle")
    /\ UNCHANGED <<records, wal, recordCount, entry, todo, countRead, history>>

-----------------------------------------------------------------------------
(* checkpoint_wal() -> compact_wal: scan, truncate, rewrite.  It runs under *)
(* the lock of the handle's own WriteAheadLog object, which no writer and  *)
(* no other handle takes; the store lock is not involved.                  *)

ScanWal(h) ==
    /\ Checkpoints
    /\ phase[h] = "idle"
    /\ todo' = [todo EXCEPT ![h] = Uncommitted]
    /\ Goto(h, "truncate")
    /\ UNCHANGED <<records, wal, recordCount, lock, entry, countRead, history>>

TruncateWal(h) ==
    /\ phase[h] = "truncate"
    /\ pending' = {} /\ committed' = {} /\ torn' = FALSE
    /\ Goto(h, "rewrite")
    /\ UNCHANGED <<records, recordCount, lock, entry, todo, countRead, history>>

(* The scanned frames are written from offset 0, over whatever was appended *)
(* since the truncation; which of those frames survive depends on lengths. *)
RewriteWal(h) ==
    /\ phase[h] = "rewrite"
    /\ IF todo[h] = {}
       THEN UNCHANGED wal
       ELSE /\ \E kept \in SUBSET pending : pending' = todo[h] \cup kept
            /\ committed' \in SUBSET committed
            /\ torn' \in {FALSE, torn}
    /\ todo' = [todo EXCEPT ![h] = {}]
    /\ Goto(h, "idle")
    /\ UNCHANGED <<records, recordCount, lock, entry, countRead, history>>

-----------------------------------------------------------------------------
(* Faults.                                                                 *)

(* A fault in the middle of an append may leave part of the line. *)
MayTear(h) ==
    /\ UNCHANGED <<pending, committed>>
    /\ \/ UNCHANGED torn
       \/ /\ TornAppends
          /\ phase[h] \in {"log", "commit", "recommit"}
          /\ torn' = TRUE

(* The handle's step fails: it lets go of the lock, if it holds it, and    *)
(* forgets its locals.                                                     *)
Abandon(h, p) ==
    /\ faults < MaxFaults
    /\ faults' = faults + 1
    /\ MayTear(h)
    /\ lock' = IF lock = h THEN NoHandle ELSE lock
    /\ entry' = [entry EXCEPT ![h] = NoEntry]
    /\ todo' = [todo EXCEPT ![h] = {}]
    /\ countRead' = [countRead EXCEPT ![h] = 0]
    /\ Goto(h, p)
    /\ UNCHANGED <<records, recordCount, issued, logged, acked>>

(* The process dies; the operating system releases its file lock. *)
Crash(h) == phase[h] # "closed" /\ Abandon(h, "closed")

(* An I/O error unwinds write() or checkpoint_wal(); the handle lives on. *)
RaiseError(h) == phase[h] \in WritePhase \cup CompactPhase /\ Abandon(h, "idle")

(* An entry whose replay fails is reported and skipped, and stays pending. *)
SkipEntry(h) ==
    /\ phase[h] \in RecoverPhase
    /\ faults < MaxFaults
    /\ faults' = faults + 1
    /\ MayTear(h)
    /\ \E e \in todo[h] :
          /\ phase[h] = "recommit" => e = entry[h]
          /\ todo' = [todo EXCEPT ![h] = @ \ {e}]
    /\ entry' = [entry EXCEPT ![h] = NoEntry]
    /\ Goto(h, "recover")
    /\ UNCHANGED <<records, recordCount, lock, countRead, issued, logged, acked>>

(* The handle is dropped between operations. *)
Close(h) ==
    /\ phase[h] = "idle"
    /\ Goto(h, "closed")
    /\ UNCHANGED <<records, wal, recordCount, lock, entry, todo, countRead, history>>

-----------------------------------------------------------------------------
Step(h) ==
    \/ LogPending(h) \/ PublishRecord(h) \/ LogCommit(h)
    \/ ReadCount(h) \/ WriteCount(h)
    \/ ReplayRecord(h) \/ ReplayCommit(h) \/ EndRecovery(h)
    \/ TruncateWal(h) \/ RewriteWal(h)

Next == \E h \in Handle :
    \/ Step(h)
    \/ Open(h) \/ Close(h)
    \/ ScanWal(h)
    \/ Crash(h) \/ RaiseError(h) \/ SkipEntry(h)
    \/ \E i \in Id, c \in Content : BeginWrite(h, i, c)

Spec == Init /\ [][Next]_vars

(* A handle that has begun a write, a replay or a compaction is running    *)
(* code: nothing in it waits once the lock is held.                        *)
FairSpec == Spec /\ \A h \in Handle : WF_vars(Step(h))

-----------------------------------------------------------------------------
(* Properties.                                                             *)

TypeOK ==
    /\ records \in [Id -> Content \cup {NoContent}]
    /\ pending \subseteq Entry
    /\ committed \subseteq Entry
    /\ torn \in BOOLEAN
    /\ recordCount \in Nat
    /\ lock \in Handle \cup {NoHandle}
    /\ phase \in [Handle -> Phase]
    /\ entry \in [Handle -> Entry \cup {NoEntry}]
    /\ todo \in [Handle -> SUBSET Entry]
    /\ countRead \in [Handle -> Nat]
    /\ issued \subseteq WalId
    /\ logged \subseteq Entry
    /\ acked \subseteq Entry
    /\ faults \in Nat

(* store.py, "Records are written once and never modified": no step of any *)
(* handle, no replay and no fault changes or removes a published record.   *)
RecordsImmutable ==
    [][\A i \in Id : records[i] # NoContent => records'[i] = records[i]]_vars

(* A write() that returned is readable with exactly the content written,   *)
(* whatever was replayed, compacted or interrupted since.                  *)
AckedReadable == \A e \in acked : records[e.id] = e.content

(* wal.py, "Before any record is written to the store, it is logged here   *)
(* first": a record file holds what some logged transaction put in it.     *)
LoggedFirst ==
    \A i \in Present : \E e \in logged : e.id = i /\ e.content = records[i]

(* A COMMITTED frame tells recovery to leave its transaction alone, so the *)
(* record must be there, whichever handle wrote the frame.                 *)
CommittedPublished == \A e \in committed : records[e.id] # NoContent

(* Writes and replays of all handles exclude one another: no replay picks  *)
(* up a transaction another handle is still carrying out.                  *)
OneTransaction ==
    \A g, h \in Handle :
        {phase[g], phase[h]} \subseteq WritePhase \cup RecoverPhase => g = h

(* store.json may lag behind the record files, as replays do not count,    *)
(* but it never counts a record that is not there and never misses one     *)
(* whose write() returned.                                                 *)
CountBetween ==
    Cardinality(acked) <= recordCount /\ recordCount <= Cardinality(Present)

(* The handle that logged e is about to publish it, or one that compacts   *)
(* the log is about to write e back.                                       *)
InHand(e) ==
    \E h \in Handle :
        \/ phase[h] = "publish" /\ entry[h] = e
        \/ phase[h] = "rewrite" /\ e \in todo[h]

(* paper, "Any PENDING entries without COMMITTED markers are replayed on   *)
(* startup": once its PENDING append has returned, a transaction is        *)
(* published, or about to be, or still there for recovery to find.         *)
LoggedRecoverable ==
    \A e \in logged :
        \/ records[e.id] # NoContent
        \/ e \in Uncommitted
        \/ InHand(e)

(* config.example.toml, "Quotas count encoded immutable record files": the *)
(* writes that returned never exceed the quota, whatever several handles    *)
(* and replays in between publish.  (The files may: a replay asks nobody.) *)
AckedWithinQuota == MaxRecords > 0 => Cardinality(acked) <= MaxRecords

(* Nothing that holds the store lock holds it for ever: a write, a replay  *)
(* or a compaction that begins comes to an end.                            *)
HandlesSettle ==
    \A h \in Handle : phase[h] \notin {"idle", "closed"} ~> phase[h] \in {"idle", "closed"}

(* The store implements its promise. *)
Promise == INSTANCE AppendOnlyStore WITH
    stored   <- records,
    returned <- {<<e.id, e.content>> : e \in acked}

ImplementsPromise == Promise!StoreSpec

=============================================================================
