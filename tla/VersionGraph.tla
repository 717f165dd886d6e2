---------------------------- MODULE VersionGraph ----------------------------
(***************************************************************************)
(* The versions of memories, kept twice: on disk, in the records and in    *)
(* the supersession sidecars (embers/engine/writer.py, reader.py), and in  *)
(* the index of one handle (embers/index/master.py), with the queries that *)
(* read the one or the other.                                              *)
(*                                                                         *)
(* The index may not know what another handle wrote, or where a callback   *)
(* failed.  A handle that connects reads a checkpoint, which may be an old *)
(* one, or indexes the records anew.  Versions are numbered in the order   *)
(* in which they were written, which is also their time.                   *)
(***************************************************************************)
EXTENDS Naturals, Sequences, FiniteSetsExt, SequencesExt

CONSTANT MaxVersions    \* bound

ASSUME VersionGraphAssumption == MaxVersions \in Nat

VARIABLES
    parent,         \* the records: what each supersedes, 0 for a first version
    sidecar,        \* what each was superseded by last, 0 for none
    indexed,        \* _records
    next,           \* _superseded, 0 for none
    marked,         \* the keys of _supersedes, a subset of indexed
    stranded        \* history: written without the sidecar of the old version

versionVars == <<parent, sidecar, indexed, next, marked, stranded>>

VersionInit ==
    /\ parent = <<>> /\ sidecar = <<>> /\ next = <<>>
    /\ indexed = {} /\ marked = {} /\ stranded = {}

Written == DOMAIN parent

Newest == Len(parent) + 1

-----------------------------------------------------------------------------
(* Writes.  The record comes first, then the sidecar of the old version,    *)
(* then the callback of the handle that wrote it.                           *)

Record(p) == Len(parent) < MaxVersions /\ parent' = Append(parent, p)

Sidecar(p) == sidecar' = Append([sidecar EXCEPT ![p] = Newest], 0)

NoSidecar == sidecar' = Append(sidecar, 0)

EnterIndex == indexed' = indexed \cup {Newest}

MarkSuperseded(p) ==
    next' = Append([next EXCEPT ![p] = Newest], 0) /\ marked' = marked \cup {Newest}

NotMarked == next' = Append(next, 0) /\ UNCHANGED marked

First == Record(0) /\ NoSidecar /\ EnterIndex /\ NotMarked /\ UNCHANGED stranded

Update(p) == Record(p) /\ Sidecar(p) /\ EnterIndex /\ MarkSuperseded(p) /\ UNCHANGED stranded

(* The callback fails between the two. *)
UpdateHalf(p) == Record(p) /\ Sidecar(p) /\ EnterIndex /\ NotMarked /\ UNCHANGED stranded

(* Another handle writes, or the callback fails before it indexes. *)
FirstUnseen == Record(0) /\ NoSidecar /\ NotMarked /\ UNCHANGED <<indexed, stranded>>

UpdateUnseen(p) == Record(p) /\ Sidecar(p) /\ NotMarked /\ UNCHANGED <<indexed, stranded>>

(* A fault between the record and the sidecar. *)
Strand(p) ==
    Record(p) /\ NoSidecar /\ NotMarked /\ stranded' = stranded \cup {Newest} /\ UNCHANGED indexed

-----------------------------------------------------------------------------
(* Connecting.                                                              *)

(* _load: the checkpoint holds the records and _superseded only. *)
Reload ==
    /\ indexed # {}
    /\ marked' = {next[v] : v \in Written} \ {0}
    /\ UNCHANGED <<parent, sidecar, indexed, next, stranded>>

(* _rebuild_indexes_if_needed: no checkpoint, or an empty or a torn one. *)
(* The records say what each supersedes; nothing marks it.               *)
Rebuild ==
    /\ parent # <<>>
    /\ indexed' = Written
    /\ next' = [v \in Written |-> 0] /\ marked' = {}
    /\ UNCHANGED <<parent, sidecar, stranded>>

VersionNext ==
    \/ First \/ FirstUnseen \/ Reload \/ Rebuild
    \/ \E p \in Written : Update(p) \/ UpdateHalf(p) \/ UpdateUnseen(p) \/ Strand(p)

VersionSpec == VersionInit /\ [][VersionNext]_versionVars

-----------------------------------------------------------------------------
(* Queries of the index.                                                    *)

(* _version_parent: known of the records that are indexed. *)
Link(v) == IF v \in indexed THEN parent[v] ELSE 0

(* _version_children. *)
Children(v) == {w \in Written : Link(w) = v}

(* get_version_ancestors, nearest first. *)
Ancestors(v) ==
    LET up[w \in 0..Len(parent)] ==
            IF w = 0 \/ Link(w) = 0 THEN <<>> ELSE <<Link(w)>> \o up[Link(w)]
    IN  up[v]

VersionRoot(v) == Last(<<v>> \o Ancestors(v))

(* Mutant: only the children that superseded their parent are followed. *)
DescendantsInChain(v) ==
    LET down[n \in 0..Len(parent)] ==
            IF n = 0 THEN {v}
            ELSE LET known == down[n - 1]
                 IN  known \cup {next[w] : w \in {x \in known : next[x] # 0}}
    IN  down[Len(parent)] \ {v}

(* get_version_descendants: what a stack of versions reaches. *)
Descendants(v) ==
    LET down[n \in 0..Len(parent)] ==
            IF n = 0 THEN {v} ELSE down[n - 1] \cup UNION {Children(w) : w \in down[n - 1]}
    IN  down[Len(parent)] \ {v}

LineageNodes(v) == {VersionRoot(v)} \cup Descendants(VersionRoot(v))
Heads(v)        == {w \in LineageNodes(v) : Children(w) = {}}
BranchPoints(v) == {w \in LineageNodes(v) : Cardinality(Children(w)) > 1}

(* From v to what superseded it, and so on: links of the index or on disk. *)
Walk(links, v) ==
    LET forth[n \in 1..Len(parent)] ==
            IF n = 1 THEN <<v>>
            ELSE LET c == forth[n - 1] IN IF links[Last(c)] = 0 THEN c ELSE Append(c, links[Last(c)])
    IN  forth[Len(parent)]

(* get_supersession_chain of the index: back to the first version that is *)
(* marked by no other, then forward.                                      *)
SupersessionChain(v) ==
    LET back[w \in Written] == IF w \in marked THEN back[parent[w]] ELSE w
    IN  Walk(next, back[v])

-----------------------------------------------------------------------------
(* Queries of the disk.                                                     *)

(* get_history: get_supersession_chain of the writer, forward from v. *)
History(v) == Walk(sidecar, v)

(* get_at, of the history of a version: the last that was there at time t. *)
At(history, t) ==
    LET valid == {n \in DOMAIN history : history[n] <= t}
    IN  IF valid = {} THEN 0 ELSE history[Max(valid)]

-----------------------------------------------------------------------------

(* The newest of the versions in ws that were written from v ... *)
NewestOf(ws, v, w) ==
    w \in ws /\ parent[w] = v /\ \A x \in ws : parent[x] = v => x <= w

(* ... and a chain along them, as far as there are any. *)
FollowsNewest(c, ws) ==
    /\ \A n \in 1..Len(c) - 1 : NewestOf(ws, c[n], c[n + 1])
    /\ \A w \in ws : parent[w] # Last(c)

(* The index knows a lineage from its first version on, and every callback *)
(* ran through.                                                             *)
AllMarked(root, nodes) ==
    parent[root] = 0 /\ \A w \in Written : parent[w] \in nodes => w \in marked

(* The queries agree on what a lineage is, however it forks and whatever    *)
(* the index missed or lost: the versions the index links to one root are   *)
(* the nodes, and every fork adds one head for each branch after the first. *)
(* The chain of the index and the history on disk run along parent links to *)
(* the newest branch at every fork, the one over what is marked and the     *)
(* other over what has its sidecar; they are the same when the callbacks    *)
(* ran through, which no rebuild restores (Rebuild marks nothing).  A read  *)
(* at a time shows nothing before the version asked for, never an older     *)
(* version later, and what was written from the version shown by then is    *)
(* hidden only by a later branch or for want of a sidecar.                  *)
LineageConsistent ==
    \A v \in Written :
        LET root    == VersionRoot(v)
            nodes   == LineageNodes(v)
            forks   == BranchPoints(v)
            history == History(v)
        IN  /\ nodes = {w \in Written : VersionRoot(w) = root}
            /\ Cardinality(Heads(v)) =
                  1 + Cardinality({w \in Written :
                                      Link(w) \in forks /\ \E z \in Children(Link(w)) : z < w})
            /\ FollowsNewest(SupersessionChain(v), marked)
            /\ FollowsNewest(history, Written \ stranded)
            /\ AllMarked(root, nodes) => SupersessionChain(v) = History(root)
            /\ \A t \in Written :
                  LET shown == At(history, t)
                  IN  /\ (shown = 0) = (t < v)
                      /\ t > 1 => At(history, t - 1) <= shown
                      /\ \A w \in v..t :
                            parent[w] = shown => w \in stranded \/ sidecar[shown] > t

=============================================================================
