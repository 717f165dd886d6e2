---------------------------- MODULE VersionStore ----------------------------
(***************************************************************************)
(* Versions of records: WriteEngine (embers/engine/writer.py) over the     *)
(* record store, the supersession sidecars (rust/ember_core/src/lib.rs)    *)
(* and the reads that follow them (embers/engine/reader.py).               *)
(*                                                                         *)
(* A record file is immutable, so that "v has been superseded by w" is a   *)
(* file of its own, the sidecar of v, written after the record file of w.  *)
(* A compare-and-set update names the content hash its caller read.  The   *)
(* hash covers the creation time and the hash of the parent, so a version  *)
(* stands for its hash.  Of a store transaction (RecordStore) what matters *)
(* here is its log entry and its publication: an entry that is logged but  *)
(* not published is published by a later recovery, which knows nothing of  *)
(* sidecars.                                                               *)
(***************************************************************************)
EXTENDS Naturals, FiniteSets

CONSTANTS
    Handle,         \* open (or yet to be opened) handles of the store
    Version,        \* record identifiers, each drawn for one version
    NoVersion,
    NoHandle,       \* the store lock is free
    MaxFaults,      \* bound: crashes and I/O errors in a behaviour
    MaxDeprecated   \* bound: deprecated versions

ASSUME VersionAssumption ==
    /\ NoVersion \notin Version
    /\ NoHandle \notin Handle
    /\ MaxFaults \in Nat
    /\ MaxDeprecated \in Nat

Status == {"free", "logged", "present"}
Call   == {"none", "write", "update", "cas", "current"}
Phase  == {"closed", "idle", "walk", "log", "publish", "supersede", "return"}

VARIABLES
    status,      \* status[v]: no trace, a PENDING log entry only, a record file
    parent,      \* parent[v]: "supersedes" of the record v
    number,      \* number[v]: "version" of the record v
    sidecar,     \* sidecar[v]: "new_id" of supersessions/<v>.superseded
    deprecated,  \* versions with a deprecations/<v>.deprecated
    lock,        \* who holds the store lock
    phase,       \* phase[h]: the next step of handle h
    call,        \* call[h]: the operation h carries out
    held,        \* held[h]: the version whose content hash h's caller holds
    cursor,      \* cursor[h]: where h is in the chain it follows
    seen,        \* seen[h]: the versions h has followed a sidecar from
    base,        \* base[h]: the version that h supersedes
    new,         \* new[h]: the version that h writes
    byCas,       \* history: versions logged by a compare-and-set update
    acked,       \* history: versions whose update() or write() has returned
    faults       \* history: faults so far

files   == <<status, parent, number, sidecar, deprecated>>
walk    == <<cursor, seen>>
local   == <<phase, call, held, walk, base, new>>
history == <<byCas, acked, faults>>
vars    == <<files, lock, local, history>>

Present == {v \in Version : status[v] = "present"}

Init ==
    /\ status = [v \in Version |-> "free"]
    /\ parent = [v \in Version |-> NoVersion]
    /\ number = [v \in Version |-> 0]
    /\ sidecar = [v \in Version |-> NoVersion]
    /\ deprecated = {}
    /\ lock = NoHandle
    /\ phase = [h \in Handle |-> "closed"]
    /\ call = [h \in Handle |-> "none"]
    /\ held = [h \in Handle |-> NoVersion]
    /\ cursor = [h \in Handle |-> NoVersion]
    /\ seen = [h \in Handle |-> {}]
    /\ base = [h \in Handle |-> NoVersion]
    /\ new = [h \in Handle |-> NoVersion]
    /\ byCas = {} /\ acked = {} /\ faults = 0

Goto(h, p) == phase' = [phase EXCEPT ![h] = p]

(* Mutant: the call does not wait for the store lock. *)
EnterUnlocked(h, c, p) ==
    /\ phase[h] = "idle"
    /\ lock' = h
    /\ call' = [call EXCEPT ![h] = c]
    /\ Goto(h, p)

(* Take the store lock to carry out c, from step p. *)
Enter(h, c, p) ==
    /\ phase[h] = "idle"
    /\ lock = NoHandle
    /\ lock' = h
    /\ call' = [call EXCEPT ![h] = c]
    /\ Goto(h, p)

(* Forget what the call left in local variables. *)
ForgetCall(h) ==
    /\ call' = [call EXCEPT ![h] = "none"]
    /\ cursor' = [cursor EXCEPT ![h] = NoVersion]
    /\ seen' = [seen EXCEPT ![h] = {}]
    /\ base' = [base EXCEPT ![h] = NoVersion]
    /\ new' = [new EXCEPT ![h] = NoVersion]

(* The call returns or raises and its caller goes on. *)
Leave(h) ==
    /\ lock' = NoHandle
    /\ ForgetCall(h)
    /\ Goto(h, "idle")

-----------------------------------------------------------------------------
(* Following the sidecars from r: get_supersession_chain, under the lock of *)
(* the caller, resolve_cas_head or get_current.                            *)

BeginWalk(h, c, r) ==
    /\ r \in Present
    /\ Enter(h, c, "walk")
    /\ cursor' = [cursor EXCEPT ![h] = r]
    /\ UNCHANGED <<files, held, seen, base, new, history>>

AtEnd(h) == cursor[h] \in seen[h] \/ sidecar[cursor[h]] = NoVersion

Follow(h) ==
    /\ phase[h] = "walk" /\ ~AtEnd(h)
    /\ seen' = [seen EXCEPT ![h] = @ \cup {cursor[h]}]
    /\ cursor' = [cursor EXCEPT ![h] = sidecar[cursor[h]]]
    /\ UNCHANGED <<files, lock, phase, call, held, base, new, history>>

(* get_current hands out the head, unless it is deprecated. *)
ReturnCurrent(h) ==
    /\ phase[h] = "walk" /\ AtEnd(h) /\ call[h] = "current"
    /\ held' = [held EXCEPT ![h] =
                   IF cursor[h] \in deprecated THEN NoVersion ELSE cursor[h]]
    /\ Leave(h)
    /\ UNCHANGED <<files, history>>

(* The head is not what the caller read: ConcurrentModificationError, which *)
(* tells the caller the current head and its hash.                         *)
RefuseCas(h) ==
    /\ phase[h] = "walk" /\ AtEnd(h) /\ call[h] = "cas"
    /\ cursor[h] # held[h]
    /\ held' = [held EXCEPT ![h] = cursor[h]]
    /\ Leave(h)
    /\ UNCHANGED <<files, history>>

(* Mutant: the hash is compared with the version the caller named, or one   *)
(* on the way to the head.                                                  *)
AcceptCasAnywhere(h) ==
    /\ phase[h] = "walk" /\ call[h] = "cas"
    /\ cursor[h] = held[h]
    /\ base' = [base EXCEPT ![h] = cursor[h]]
    /\ Goto(h, "log")
    /\ UNCHANGED <<files, lock, call, held, walk, new, history>>

(* The head is what the caller read: it becomes the base of the update.    *)
(* update() then refuses a base whose record says it is deprecated; a      *)
(* record file is written before anything can deprecate the record.        *)
AcceptCas(h) ==
    /\ phase[h] = "walk" /\ AtEnd(h) /\ call[h] = "cas"
    /\ cursor[h] = held[h]
    /\ base' = [base EXCEPT ![h] = cursor[h]]
    /\ Goto(h, "log")
    /\ UNCHANGED <<files, lock, call, held, walk, new, history>>

-----------------------------------------------------------------------------
(* Reads without the lock, writes and plain updates.                       *)

(* The caller reads v (with get, or out of a history) and keeps its hash. *)
Get(h, v) ==
    /\ phase[h] = "idle"
    /\ v \in Present
    /\ held' = [held EXCEPT ![h] = v]
    /\ UNCHANGED <<files, lock, phase, call, walk, base, new, history>>

BeginWrite(h) ==
    /\ Enter(h, "write", "log")
    /\ UNCHANGED <<files, held, walk, base, new, history>>

(* update() without expected_hash: of any version, a superseded one too. *)
BeginUpdate(h, v) ==
    /\ v \in Present
    /\ Enter(h, "update", "log")
    /\ base' = [base EXCEPT ![h] = v]
    /\ UNCHANGED <<files, held, walk, new, history>>

(* Draw the new identifier and log the whole record as PENDING. *)
Log(h) ==
    /\ phase[h] = "log"
    /\ \E v \in Version :
          /\ status[v] = "free"
          /\ status' = [status EXCEPT ![v] = "logged"]
          /\ parent' = [parent EXCEPT ![v] = base[h]]
          /\ number' = [number EXCEPT ![v] =
                           IF base[h] = NoVersion THEN 1 ELSE number[base[h]] + 1]
          /\ new' = [new EXCEPT ![h] = v]
          /\ byCas' = IF call[h] = "cas" THEN byCas \cup {v} ELSE byCas
    /\ Goto(h, "publish")
    /\ UNCHANGED <<sidecar, deprecated, lock, call, held, walk, base, acked, faults>>

Publish(h) ==
    /\ phase[h] = "publish"
    /\ status' = [status EXCEPT ![new[h]] = "present"]
    /\ Goto(h, IF base[h] = NoVersion THEN "return" ELSE "supersede")
    /\ UNCHANGED <<parent, number, sidecar, deprecated, lock, call, held, walk,
                   base, new, history>>

(* Mutant: an existing sidecar is left alone. *)
SupersedeOnce(h) ==
    /\ phase[h] = "supersede"
    /\ sidecar' = [sidecar EXCEPT ![base[h]] = IF @ = NoVersion THEN new[h] ELSE @]
    /\ Goto(h, "return")
    /\ UNCHANGED <<status, parent, number, deprecated, lock, call, held, walk,
                   base, new, history>>

(* Mutant: the sidecar may be written before the record it names. *)
SupersedeEarly(h) ==
    /\ phase[h] \in {"publish", "supersede"} /\ base[h] # NoVersion
    /\ sidecar' = [sidecar EXCEPT ![base[h]] = new[h]]
    /\ UNCHANGED <<status, parent, number, deprecated, lock, call, held, walk,
                   base, new, history>>
    /\ Goto(h, IF phase[h] = "publish" THEN "publish" ELSE "return")

(* _mark_superseded: the sidecar is replaced, atomically. *)
Supersede(h) ==
    /\ phase[h] = "supersede"
    /\ sidecar' = [sidecar EXCEPT ![base[h]] = new[h]]
    /\ Goto(h, "return")
    /\ UNCHANGED <<status, parent, number, deprecated, lock, call, held, walk,
                   base, new, history>>

Return(h) ==
    /\ phase[h] = "return"
    /\ acked' = acked \cup {new[h]}
    /\ Leave(h)
    /\ UNCHANGED <<files, held, byCas, faults>>

(* Under the lock: a version is deprecated once. *)
Deprecate(h, v) ==
    /\ phase[h] = "idle" /\ lock = NoHandle
    /\ v \in Present \ deprecated
    /\ Cardinality(deprecated) < MaxDeprecated
    /\ deprecated' = deprecated \cup {v}
    /\ UNCHANGED <<status, parent, number, sidecar, lock, local, history>>

-----------------------------------------------------------------------------
(* Opening a handle, and faults.                                           *)

(* Recovery, under the lock, publishes what was logged; an entry whose      *)
(* replay fails stays in the log.                                          *)
Open(h) ==
    /\ phase[h] = "closed" /\ lock = NoHandle
    /\ \E replayed \in SUBSET {v \in Version : status[v] = "logged"} :
          status' = [v \in Version |-> IF v \in replayed THEN "present" ELSE status[v]]
    /\ Goto(h, "idle")
    /\ UNCHANGED <<parent, number, sidecar, deprecated, lock, call, held, walk,
                   base, new, history>>

Abandon(h) ==
    /\ faults < MaxFaults
    /\ faults' = faults + 1
    /\ lock' = IF lock = h THEN NoHandle ELSE lock
    /\ ForgetCall(h)
    /\ UNCHANGED <<files, byCas, acked>>

(* The process dies between two file operations. *)
Crash(h) ==
    /\ phase[h] # "closed"
    /\ Abandon(h)
    /\ held' = [held EXCEPT ![h] = NoVersion]
    /\ Goto(h, "closed")

(* A file operation fails and the call raises: its caller may retry it. *)
RaiseError(h) ==
    /\ phase[h] \notin {"closed", "idle"}
    /\ Abandon(h)
    /\ UNCHANGED held
    /\ Goto(h, "idle")

Close(h) ==
    /\ phase[h] = "idle"
    /\ held' = [held EXCEPT ![h] = NoVersion]
    /\ Goto(h, "closed")
    /\ UNCHANGED <<files, lock, call, walk, base, new, history>>

-----------------------------------------------------------------------------
Step(h) ==
    \/ Follow(h) \/ ReturnCurrent(h) \/ RefuseCas(h) \/ AcceptCas(h)
    \/ Log(h) \/ Publish(h) \/ Supersede(h) \/ Return(h)

(* Bound: nothing is written once every identifier has been drawn. *)
IdsLeft == \E v \in Version : status[v] = "free"

Begin(h) ==
    \/ \E v \in Version : BeginWalk(h, "current", v)
    \/ /\ IdsLeft
       /\ \/ BeginWrite(h)
          \/ \E v \in Version :
                \/ held[h] # NoVersion /\ BeginWalk(h, "cas", v)
                \/ BeginUpdate(h, v)

Next == \E h \in Handle :
    \/ Step(h) \/ Begin(h)
    \/ Open(h) \/ Close(h) \/ Crash(h) \/ RaiseError(h)
    \/ \E v \in Version : Get(h, v) \/ Deprecate(h, v)

Spec == Init /\ [][Next]_vars

-----------------------------------------------------------------------------
(* Properties.                                                             *)

TypeOK ==
    /\ status \in [Version -> Status]
    /\ parent \in [Version -> Version \cup {NoVersion}]
    /\ number \in [Version -> Nat]
    /\ sidecar \in [Version -> Version \cup {NoVersion}]
    /\ deprecated \subseteq Version
    /\ lock \in Handle \cup {NoHandle}
    /\ phase \in [Handle -> Phase]
    /\ call \in [Handle -> Call]
    /\ held \in [Handle -> Version \cup {NoVersion}]
    /\ cursor \in [Handle -> Version \cup {NoVersion}]
    /\ seen \in [Handle -> SUBSET Version]
    /\ base \in [Handle -> Version \cup {NoVersion}]
    /\ new \in [Handle -> Version \cup {NoVersion}]
    /\ byCas \subseteq Version
    /\ acked \subseteq Version
    /\ faults \in Nat

(* get_supersession_chain never leads a reader to a version whose record   *)
(* file is missing, and each link of it goes to a version that was made    *)
(* from the one before, numbered one higher; so a chain has no cycle.      *)
LinksSound ==
    \A v \in Version : sidecar[v] # NoVersion =>
        /\ {v, sidecar[v]} \subseteq Present
        /\ parent[sidecar[v]] = v
        /\ number[sidecar[v]] = number[v] + 1

(* update(), "the first wins and advances the head; the second finds its   *)
(* expected_hash stale": of the compare-and-set updates that returned, no  *)
(* two were made from the same version.                                    *)
AckedCasExclusive ==
    \A v, w \in acked \cap byCas : parent[v] = parent[w] => v = w

(* update(), "no silent lost update": a version whose update() returned    *)
(* stays the successor of the version it was made from, unless a plain     *)
(* update, which may fork a lineage on purpose, was made from that too.    *)
AckedStaysLinked ==
    \A v \in acked : parent[v] # NoVersion =>
        \/ sidecar[parent[v]] = v
        \/ \E w \in Present \ byCas : w # v /\ parent[w] = parent[v]

(* A compare-and-set update never redirects the chain of a version that    *)
(* had a successor, and no step takes a successor away.                    *)
CasNeverRedirects ==
    [][\A v \in Version :
          sidecar[v] # NoVersion /\ sidecar'[v] # sidecar[v] =>
              sidecar'[v] \in Version \ byCas]_vars

(* test_concurrency.py, "never a silent fork": no two versions made by     *)
(* compare-and-set updates were made from the same version.                *)
CasNeverForks ==
    \A v, w \in Present \cap byCas : parent[v] = parent[w] => v = w

=============================================================================
