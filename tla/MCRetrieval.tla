----------------------------- MODULE MCRetrieval -----------------------------
(***************************************************************************)
(* Five ways to get at what was stored, each on its own: a run explores    *)
(* one of them from its initial states, the others stay as they are.       *)
(***************************************************************************)
EXTENDS Traversal, Audit, Recall, Episodes

VARIABLE part

vars == <<traversalVars, auditVars, recallVars, episodeVars, part>>

(* The parts that are not explored start in one state. *)
Rest(p) ==
    /\ part = p
    /\ part # "traversal" =>
          edges = {} /\ asked = [of |-> "path", to |-> Root, dir |-> "outgoing", depth |-> 0]
    /\ part # "episodes" => late = {} /\ space = [r \in 1..Records |-> 1]

Init ==
    /\ \E p \in {"traversal", "versions", "audit", "recall", "episodes"} : Rest(p)
    /\ TraversalInit /\ AuditInit /\ RecallInit /\ EpisodesInit

Next ==
    /\ UNCHANGED part
    /\ \/ /\ part = "traversal" /\ TraversalNext
          /\ UNCHANGED <<auditVars, recallVars, episodeVars>>
       \/ /\ part = "versions" /\ VersionNext
          /\ UNCHANGED <<traversalVars, auditOwnVars, recallVars, episodeVars>>
       \/ /\ part = "audit" /\ AuditNext
          /\ UNCHANGED <<traversalVars, recallVars, episodeVars>>
       \/ /\ part = "recall" /\ RecallNext
          /\ UNCHANGED <<traversalVars, auditVars, episodeVars>>
       \/ /\ part = "episodes" /\ EpisodesNext
          /\ UNCHANGED <<traversalVars, auditVars, recallVars>>

Spec == Init /\ [][Next]_vars

=============================================================================
