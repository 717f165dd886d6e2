----------------------------- MODULE Conflicts -----------------------------
(***************************************************************************)
(* The conflict engine of EmberDB (embers/db.py map_conflict to            *)
(* resolve_conflict) behind the contract that MCP and REST share           *)
(* (embers/integration/conflict_protocol.py).                              *)
(*                                                                         *)
(* Callers are threads of several handles.  A conflict is a CONFLICT       *)
(* record and its later versions, one per transition.  Listings go through *)
(* the index of the caller's own handle (IndexLayer), chains through the   *)
(* sidecars, which all handles share.  The memories of a pair are two      *)
(* durable memories of one namespace and the caller may read and write it  *)
(* (Namespaces): any other call is refused and changes nothing.            *)
(***************************************************************************)
EXTENDS Lineage, FiniteSets

CONSTANTS
    Handle, Caller, Pair, Conflict,
    Closed,          \* statuses that close a conflict; the code treats them alike
    None,
    MaxTransitions,  \* bound: transitions asked for
    MaxFaults        \* bound: crashes and failing operations

ASSUME ConflictAssumption ==
    /\ Closed \subseteq {"resolved", "accepted_both", "superseded"}
    /\ None \notin Pair \cup Conflict
    /\ Pair \cap Conflict = {}
    /\ {MaxTransitions, MaxFaults} \subseteq Nat

Target == {"investigating"} \cup Closed
Status == {"open"} \cup Target

Call == [handle : Handle, pair : Pair \cup {None}, conflict : Conflict \cup {None},
         base : Nat, target : Status]

ASSUME CallAssumption == None \notin Call

VARIABLES
    pair,        \* pair[k]: the memories of conflict k, None if there is no k
    log,         \* log[k][n]: status of version n of conflict k
    chain,       \* chain[k]: the versions on the chain from k (Lineage)
    superseded,  \* superseded[k]: versions with a sidecar
    edges,       \* pairs with a CONTRADICTS edge
    indexed,     \* indexed[h][k]: versions in the index of handle h
    phase,       \* phase[c]: the next step of caller c
    call,        \* call[c]: what it was asked and has read
    acked,       \* history: transitions <<k, n>> that returned
    disturbed,   \* history: pairs and conflicts with overlapping calls, and pairs
                 \* looked up through an index that was behind
    failed,      \* history: pairs and conflicts with a call that failed
    asked, faults

triage == <<pair, log, chain, superseded, edges>>
local  == <<phase, call>>
vars   == <<triage, indexed, local, acked, disturbed, failed, asked, faults>>

Known == {k \in Conflict : pair[k] # None}
Versions(k) == DOMAIN log[k]

(* get_current, and the status get_conflict reports. *)
Current(k) == Tip(chain[k])
StatusOf(k) == log[k][Current(k)]
Live(k) == k \in Known /\ StatusOf(k) \notin Closed

(* conflict_records through handle h: the versions in its index without a   *)
(* sidecar, each the end of its own walk.                                   *)
Listed(h, k) == indexed[h][k] \ superseded[k]

(* The index of h does not hold the current version of a conflict of p. *)
Behind(h, p) == \E k \in Known : pair[k] = p /\ Current(k) \notin indexed[h][k]

Init ==
    /\ pair = [k \in Conflict |-> None]
    /\ log = [k \in Conflict |-> <<>>]
    /\ chain = [k \in Conflict |-> <<>>]
    /\ superseded = [k \in Conflict |-> {}]
    /\ edges = {}
    /\ indexed = [h \in Handle |-> [k \in Conflict |-> {}]]
    /\ phase = [c \in Caller |-> "idle"]
    /\ call = [c \in Caller |-> None]
    /\ acked = {} /\ disturbed = {} /\ failed = {} /\ asked = 0 /\ faults = 0

Begin(c, h, p, k, b, t, ph) ==
    /\ phase[c] = "idle"
    /\ phase' = [phase EXCEPT ![c] = ph]
    /\ call' = [call EXCEPT ![c] =
                  [handle |-> h, pair |-> p, conflict |-> k, base |-> b, target |-> t]]
    /\ UNCHANGED <<triage, indexed, acked, failed, faults>>

Goto(c, ph) == phase' = [phase EXCEPT ![c] = ph] /\ UNCHANGED call

Done(c) ==
    /\ phase' = [phase EXCEPT ![c] = "idle"]
    /\ call' = [call EXCEPT ![c] = None]


(* The callers whose call is about pair or conflict x. *)
Busy(x) == {c \in Caller : call[c] # None /\ x \in {call[c].pair, call[c].conflict}}

-----------------------------------------------------------------------------
(* map_conflict: access checks, look-up, record, edge.                     *)

(* Bound: there is an id for the conflict every call may have to store. *)
IdsLeft == Cardinality({c \in Caller : phase[c] \in {"find", "store"}})
             < Cardinality(Conflict \ Known)

BeginMap(c, h, p) ==
    /\ IdsLeft
    /\ Begin(c, h, p, None, 0, "open", "find")
    /\ UNCHANGED asked
    /\ disturbed' = IF Busy(p) # {} THEN disturbed \cup {p} ELSE disturbed

(* Mutant: any listed conflict that is still open counts, one under         *)
(* investigation does not.                                                  *)
MappedOpen(h, p) == {k \in Known : pair[k] = p /\ \E n \in Listed(h, k) : log[k][n] = "open"}

(* _find_live_conflict: a listed conflict of the pair that is not closed.   *)
Mapped(h, p) == {k \in Known : pair[k] = p /\ \E n \in Listed(h, k) : log[k][n] \notin Closed}

Find(c) ==
    LET h == call[c].handle
        p == call[c].pair
    IN  /\ phase[c] = "find"
        /\ IF Mapped(h, p) # {} THEN Done(c) ELSE Goto(c, "store")
        /\ disturbed' = IF Behind(h, p) THEN disturbed \cup {p} ELSE disturbed
        /\ UNCHANGED <<triage, indexed, acked, failed, asked, faults>>

Publish(k, p) ==
    /\ k \notin Known
    /\ pair' = [pair EXCEPT ![k] = p]
    /\ log' = [log EXCEPT ![k] = <<"open">>]
    /\ chain' = [chain EXCEPT ![k] = <<1>>]
    /\ UNCHANGED <<superseded, edges, acked, disturbed, asked>>

(* Mutant: the call returns when the record is written. *)
StoreOnly(c, k) ==
    /\ phase[c] = "store"
    /\ Publish(k, call[c].pair)
    /\ indexed' = [indexed EXCEPT ![call[c].handle][k] = {1}]
    /\ Done(c)
    /\ UNCHANGED <<failed, faults>>

Store(c, k) ==
    /\ phase[c] = "store"
    /\ Publish(k, call[c].pair)
    /\ indexed' = [indexed EXCEPT ![call[c].handle][k] = {1}]
    /\ Goto(c, "link")
    /\ UNCHANGED <<failed, faults>>

Link(c) ==
    /\ phase[c] = "link"
    /\ edges' = edges \cup {call[c].pair}
    /\ Done(c)
    /\ UNCHANGED <<pair, log, chain, superseded, indexed, acked, disturbed, failed, asked,
                   faults>>

-----------------------------------------------------------------------------
(* update_conflict_status: the transition is checked against the head it    *)
(* reads; the head is superseded in a transaction of its own.               *)

(* Mutant: a closed conflict may be taken up again. *)
AllowedAgain(from, to) == from = "open" \/ to \in Target

(* validate_conflict_transition.  A terminal status comes with a resolution *)
(* and a winner is one of the pair: a call without is refused.              *)
Allowed(from, to) == from \notin Closed /\ to \in Target

BeginTransition(c, h, k, t) ==
    /\ k \in Known
    /\ asked < MaxTransitions
    /\ asked' = asked + 1
    /\ Allowed(StatusOf(k), t)
    /\ Begin(c, h, None, k, Current(k), t, "supersede")
    /\ disturbed' = IF Busy(k) # {} THEN disturbed \cup {k} ELSE disturbed

AddVersion(c) ==
    LET k == call[c].conflict IN
    /\ log' = [log EXCEPT ![k] = Append(@, call[c].target)]
    /\ UNCHANGED <<pair, edges, disturbed, asked>>

(* Mutant: the sidecar of the first version is pointed at each new one. *)
PointFromFirst(k, base, n) ==
    /\ chain' = [chain EXCEPT ![k] = Superseding(@, 1, n)]
    /\ superseded' = [superseded EXCEPT ![k] = @ \cup {1}]

(* update(base, ...) points the sidecar of the base at the new version. *)
PointTo(k, base, n) ==
    /\ chain' = [chain EXCEPT ![k] = Superseding(@, base, n)]
    /\ superseded' = [superseded EXCEPT ![k] = @ \cup {base}]

Supersede(c) ==
    LET k == call[c].conflict
        n == Len(log[k]) + 1
    IN  /\ phase[c] = "supersede"
        /\ AddVersion(c)
        /\ PointTo(k, call[c].base, n)
        /\ indexed' = [indexed EXCEPT ![call[c].handle][k] = @ \cup {n}]
        /\ acked' = acked \cup {<<k, n>>}
        /\ Done(c)
        /\ UNCHANGED <<failed, faults>>

-----------------------------------------------------------------------------
(* Failures and restarts.                                                  *)

Failing(c) ==
    /\ phase[c] # "idle"
    /\ faults < MaxFaults
    /\ faults' = faults + 1
    /\ failed' = failed \cup ({call[c].pair, call[c].conflict} \ {None})
    /\ Done(c)

(* Nothing, or nothing more, is written. *)
Fail(c) ==
    /\ Failing(c)
    /\ UNCHANGED <<triage, indexed, acked, disturbed, asked>>

(* The record is published, by the call or by a recovery, but not indexed. *)
FailStoring(c, k) ==
    /\ phase[c] = "store"
    /\ Failing(c)
    /\ Publish(k, call[c].pair)
    /\ UNCHANGED indexed

(* The version is published, with or without the sidecar of its base. *)
FailSuperseding(c) ==
    LET k == call[c].conflict IN
    /\ phase[c] = "supersede"
    /\ Failing(c)
    /\ AddVersion(c)
    /\ \/ PointTo(k, call[c].base, Len(log[k]) + 1)
       \/ UNCHANGED <<chain, superseded>>
    /\ UNCHANGED <<indexed, acked>>

(* A handle closes and connects again: its index is the one a handle g      *)
(* checkpointed, taken to be what g has now, or is rebuilt from the records *)
(* (IndexLayer).                                                            *)
Connect(h) ==
    /\ \A c \in Caller : call[c] # None => call[c].handle # h
    /\ \/ \E g \in Handle : indexed' = [indexed EXCEPT ![h] = indexed[g]]
       \/ indexed' = [indexed EXCEPT ![h] = [k \in Conflict |-> Versions(k)]]
    /\ UNCHANGED <<triage, local, acked, disturbed, failed, asked, faults>>

Next ==
    \/ \E c \in Caller, h \in Handle :
          \/ \E p \in Pair : BeginMap(c, h, p)
          \/ \E k \in Conflict, t \in Target : BeginTransition(c, h, k, t)
    \/ \E c \in Caller :
          \/ Find(c) \/ Link(c) \/ Supersede(c) \/ Fail(c) \/ FailSuperseding(c)
          \/ \E k \in Conflict : Store(c, k) \/ FailStoring(c, k)
    \/ \E h \in Handle : Connect(h)

Spec == Init /\ [][Next]_vars

-----------------------------------------------------------------------------

(* Chains, sidecars and indexes name versions that were written. *)
TypeOK ==
    /\ pair \in [Conflict -> Pair \cup {None}]
    /\ \A k \in Conflict :
           /\ On(chain[k]) \cup superseded[k] \subseteq Versions(k)
           /\ \A h \in Handle : indexed[h][k] \subseteq Versions(k)
    /\ \A c \in Caller : phase[c] = "idle" <=> call[c] = None
    /\ log \in [Conflict -> Seq(Status)]
    /\ chain \in [Conflict -> Seq(Nat)]
    /\ superseded \in [Conflict -> SUBSET Nat]
    /\ edges \subseteq Pair
    /\ indexed \in [Handle -> [Conflict -> SUBSET Nat]]
    /\ phase \in [Caller -> {"idle", "find", "store", "link", "supersede"}]
    /\ call \in [Caller -> Call \cup {None}]
    /\ acked \subseteq Conflict \X Nat
    /\ {disturbed, failed} \subseteq SUBSET (Pair \cup Conflict)
    /\ asked \in 0..MaxTransitions /\ faults \in 0..MaxFaults

(* Two agents that map the same pair get the same conflict: a pair has at   *)
(* most one live conflict, as long as its mappings do not overlap, none     *)
(* goes through an index that is behind, and the transitions of its         *)
(* conflicts neither overlap nor fail (db.py _find_live_conflict).          *)
OneLiveConflict ==
    \A k, l \in Known :
        (pair[k] = pair[l] /\ Live(k) /\ Live(l)
           /\ {k, l, pair[k]} \cap (disturbed \cup failed) = {}) => k = l

(* Whatever overlaps or fails, the history get_history shows of a conflict  *)
(* starts open and takes allowed steps only: nothing follows a closing,     *)
(* because a stale transition supersedes the version it was checked         *)
(* against, not the newest one (update_conflict_status).                    *)
ChainsLegal ==
    \A k \in Known :
        /\ Len(chain[k]) > 0 /\ chain[k][1] = 1 /\ log[k][1] = "open"
        /\ \A i \in 1 .. Len(chain[k]) - 1 :
               log[k][chain[k][i]] \notin Closed /\ log[k][chain[k][i + 1]] # "open"

(* A transition that returned stays in the history of its conflict, unless  *)
(* transitions of that conflict overlap.  A failing one takes nothing away. *)
DecisionsKept ==
    \A d \in acked : d[1] \in disturbed \/ d[2] \in On(chain[d[1]])

(* A mapped conflict is visible on the graph, where the promotion gate      *)
(* looks, once its call is over: only a call that fails between the record  *)
(* and the edge leaves one that is not, and mapping the pair again does not *)
(* repair it (map_conflict returns the existing id).                        *)
MappedIsLinked ==
    \A k \in Known :
        \/ pair[k] \in edges \cup failed
        \/ \E c \in Caller : phase[c] = "link" /\ call[c].pair = pair[k]

=============================================================================
