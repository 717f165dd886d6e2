------------------------------- MODULE Audit -------------------------------
(***************************************************************************)
(* The audit of one write (embers/db.py audit_write and the queries it is  *)
(* composed of).  It joins things that are kept apart: what this handle's  *)
(* index knows of the versions and the supersession sidecars of every      *)
(* handle (VersionGraph), the records, the typed edges of the graph file,  *)
(* and the proposals.  The audit holds the store lock, so it is one step:  *)
(* its queries are operators.  It leaves out what is deprecated from none  *)
(* of them.                                                                *)
(***************************************************************************)
EXTENDS VersionGraph

CONSTANTS
    Evidence,
    MaxAudited,     \* bound: versions
    MaxFacts        \* bound: facts about versions that are not versions

ASSUME AuditAssumption == {MaxAudited, MaxFacts} \subseteq Nat

VARIABLES
    sources,        \* sources[v]: derived_from, in the record
    relations,      \* edges <<from, type, to>> between versions
    supports,       \* SUPPORTS edges <<evidence, version>>
    promotedTo,     \* memories that the decided proposals in the index name
    missed,         \* history: versions whose derivation edges are not drawn
    facts

auditOwnVars == <<sources, relations, supports, promotedTo, missed, facts>>
auditVars    == <<versionVars, auditOwnVars>>

AuditInit ==
    /\ VersionInit
    /\ sources = <<>> /\ relations = {} /\ supports = {}
    /\ promotedTo = {} /\ missed = {} /\ facts = 0

(* The record of a version derived from the versions in s. *)
Recorded(s) ==
    /\ Len(parent) < MaxAudited
    /\ sources' = Append(sources, s)
    /\ UNCHANGED <<supports, promotedTo, facts>>

DerivationEdges(w, s) == {w} \X {"derived_from"} \X s

(* The edges are the last that _index_record writes, and it writes them to  *)
(* a file of the store, whichever handle runs it.                           *)
Drawn(s) == relations' = relations \cup DerivationEdges(Newest, s) /\ UNCHANGED missed

NotDrawn == missed' = missed \cup {Newest} /\ UNCHANGED relations

WriteFirst(s) == Recorded(s) /\ (First \/ FirstUnseen) /\ (Drawn(s) \/ NotDrawn)

WriteFrom(p, s) ==
    /\ Recorded(s)
    /\ \/ (Update(p) \/ UpdateUnseen(p)) /\ Drawn(s)
       \/ (UpdateHalf(p) \/ UpdateUnseen(p) \/ Strand(p)) /\ NotDrawn

(* The handle closes and connects. *)
Connected ==
    \/ Reload /\ UNCHANGED auditOwnVars
    \/ /\ Rebuild
       /\ relations' = relations \cup UNION {DerivationEdges(v, sources[v]) : v \in Written}
       /\ missed' = {}
       /\ UNCHANGED <<sources, supports, promotedTo, facts>>

Fact == facts < MaxFacts /\ facts' = facts + 1 /\ UNCHANGED <<versionVars, sources, missed>>

(* attach_evidence: evidence that is stored gets one more edge. *)
Attach(e, v) ==
    /\ Fact
    /\ supports' = supports \cup {<<e, v>>}
    /\ UNCHANGED <<relations, promotedTo>>

(* link, or map_conflict. *)
Contradict(v, w) ==
    /\ Fact
    /\ v # w
    /\ relations' = relations \cup {<<v, "contradicts", w>>}
    /\ UNCHANGED <<supports, promotedTo>>

(* promote writes a memory and names it in the proposal. *)
PromoteInto(v) ==
    /\ Fact
    /\ parent[v] = 0
    /\ promotedTo' = promotedTo \cup {v}
    /\ UNCHANGED <<relations, supports>>

AuditNext ==
    \/ Connected
    \/ \E s \in {{}} \cup {{w} : w \in Written} :
          WriteFirst(s) \/ \E p \in Written : WriteFrom(p, s)
    \/ \E v \in Written :
          \/ PromoteInto(v)
          \/ \E e \in Evidence : Attach(e, v)
          \/ \E w \in Written : Contradict(v, w)

AuditSpec == AuditInit /\ [][AuditNext]_auditVars

-----------------------------------------------------------------------------

Referred(v, type)   == {w \in Written : <<v, type, w>> \in relations}
Referring(v, type) == {w \in Written : <<w, type, v>> \in relations}

(* what_came_before and what_was_derived_from. *)
CameBefore(v) == (ToSet(Ancestors(v)) \cup Referred(v, "derived_from")) \ {v}
DerivedFrom(v) == (Descendants(v) \cup Referring(v, "derived_from")) \ {v}

ConflictsOf(v) == (Referred(v, "contradicts") \cup Referring(v, "contradicts")) \ {v}

(* The outcome of the write, from the index ... *)
Result(v) ==
    CASE Children(v) = {}             -> "current"
      [] Cardinality(Children(v)) > 1 -> "branched"
      [] OTHER                        -> "superseded"

(* ... and whether it is superseded, from the index or the sidecar. *)
Superseded(v) == Children(v) # {} \/ sidecar[v] # 0

EvidenceFor(v) == {e \in Evidence : <<e, v>> \in supports}

(* Mutant: the evidence of the whole lineage. *)
AuditPathLineage(v) == LineageNodes(v)

(* The version and those it was written from. *)
AuditPath(v) == {v} \cup ToSet(Ancestors(v))

AuditEvidence(v) == {ev \in Evidence \X AuditPath(v) : ev[1] \in EvidenceFor(ev[2])}

AuditProposal(v) == promotedTo \cap LineageNodes(v)

AuditOf(v) ==
    [result      |-> Result(v),
     superseded  |-> Superseded(v),
     by          |-> sidecar[v],
     root        |-> VersionRoot(v),
     evidence    |-> AuditEvidence(v),
     proposal    |-> AuditProposal(v),
     derivedFrom |-> sources[v],
     conflicts   |-> ConflictsOf(v)]

(* An audit tells what was written and nothing else: the evidence of the    *)
(* version and of those it was made from, never that of another branch; the *)
(* proposal of a promoted memory for every version of it, as far as the     *)
(* index links them to it; by what a version was superseded last, whichever *)
(* handle wrote that, and that it was superseded, unless by a branch that a *)
(* fault left without its sidecar and that was not indexed since; never a   *)
(* current version that names an indexed successor; and what precedes or    *)
(* contradicts a version is seen from both ends, unless the callback of the *)
(* later one failed and no handle has indexed the records anew.             *)
AuditTells ==
    \A v \in DOMAIN sources :
        LET a      == AuditOf(v)
            before == CameBefore(v)
        IN  /\ a.evidence = {ev \in supports : v \in {ev[2]} \cup Descendants(ev[2])}
            /\ (a.proposal # {}) = (a.root \in promotedTo)
            /\ IF a.by = 0
               THEN \A w \in Written : parent[w] = v => w \in stranded
               ELSE NewestOf(Written \ stranded, v, a.by)
            /\ a.superseded = (\E w \in Written : parent[w] = v /\ w \notin stranded \ indexed)
            /\ a.by \in indexed => a.result # "current"
            /\ v \notin missed => a.derivedFrom \subseteq before
            /\ \A w \in Written :
                  /\ w \in before <=> v \in DerivedFrom(w)
                  /\ w \in a.conflicts <=> v \in ConflictsOf(w)

=============================================================================
