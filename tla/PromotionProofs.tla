-------------------------- MODULE PromotionProofs --------------------------
(***************************************************************************)
(* Proofs about Promotion for any number of callers, proposals, memories,  *)
(* pieces of evidence, faults and deprecations, and any policy.            *)
(*                                                                         *)
(* The argument: records and edges are never taken away (Growth), so what  *)
(* a call has established about its memory and the evidence it is done     *)
(* with (CallSound, EvidenceInPlace) stays true until the decision is      *)
(* written, whatever other calls do.  A proposal whose calls neither       *)
(* overlap nor fail is in one call at a time, and that call found it       *)
(* undecided (Alone), so nothing comes between its memory and its          *)
(* decision.                                                               *)
(***************************************************************************)
EXTENDS Promotion, TLAPS

(* What a caller's locals say in each phase of its call. *)
CallSound ==
    \A c \in Caller :
        /\ phase[c] = "idle" <=> call[c] = None
        /\ phase[c] = "idle" => target[c] = None
        /\ phase[c] \in {"check", "memory"} => call[c].kind = "promote" /\ target[c] = None
        /\ phase[c] \in {"evidence", "writeEvidence"} => call[c].kind # "reject"
        /\ phase[c] = "writeEvidence" => writing[c] \in left[c]
        /\ phase[c] = "decide" => call[c].kind # "attach"
        /\ call[c] # None =>
              /\ call[c].kind = "attach" <=> call[c].prop = None
              /\ call[c].kind = "reject" => phase[c] = "decide" /\ target[c] = None
              /\ call[c].prop # None => proposal[call[c].prop] # None
              /\ call[c].kind # "reject" /\ phase[c] \notin {"check", "memory"} =>
                    /\ target[c] \in Mem /\ memory[target[c]] # None
                    /\ call[c].kind = "promote" => memory[target[c]].from = call[c].prop
                    /\ call[c].kind = "promote" /\ phase[c] = "decide" => left[c] = {}

(* The evidence a promotion is done with is stored and supports the memory. *)
EvidenceInPlace ==
    \A c \in Caller :
        target[c] # None /\ call[c].kind = "promote" =>
            \A e \in proposal[call[c].prop].evidence \ left[c] :
                carrier[e] # None /\ Supports(e, target[c])

Policy(q, m, s) ==
    /\ Cardinality(q.evidence) >= MinEvidence \/ ~RequireEvidence
    /\ m = "automatic" => q.confidence >= MinConfidence /\ q.agent \in Trusted
    /\ m = "consensus" => Cardinality({author[e] : e \in q.evidence}) >= ConsensusThreshold
    /\ s = "verified" => q.confidence >= VerifiedConfidence

(* Who acts by policy has checked it, and so has whoever wrote the memory. *)
PolicyChecked ==
    /\ \A c \in Caller :
          call[c] # None /\ call[c].method # "human" =>
              call[c].prop # None /\ Policy(proposal[call[c].prop], call[c].method, call[c].status)
    /\ \A m \in Mem :
          memory[m] # None =>
              /\ memory[m].from # None => proposal[memory[m].from] # None
              /\ memory[m].method # "human" =>
                    /\ memory[m].from # None
                    /\ Policy(proposal[memory[m].from], memory[m].method, memory[m].status)

Alone ==
    \A p \in Prop \ disturbed :
        /\ p \notin hidden
        /\ \A b, c \in Caller : On(b, p) /\ On(c, p) => b = c
        /\ \A c \in Caller : On(c, p) /\ phase[c] # "check" => head[p] = None

DecidedHeaded == \A p \in decided : head[p] # None

Inv ==
    /\ TypeOK
    /\ CallSound /\ EvidenceInPlace /\ PromotedGrounded
    /\ PolicyChecked
    /\ Alone /\ OneOutcome
    /\ DecidedHeaded

Grown ==
    /\ \A p \in Prop : proposal[p] # None => proposal'[p] = proposal[p]
    /\ \A m \in Mem : memory[m] # None => memory'[m] = memory[m]
    /\ \A e \in Ev : carrier[e] # None => carrier'[e] = carrier[e]
    /\ supports \subseteq supports'

-----------------------------------------------------------------------------

(* The initial state satisfies the invariant. *)
LEMMA InitInv == Init => Inv
<1> SUFFICES ASSUME Init PROVE Inv
  OBVIOUS
<1> USE PromotionAssumption, DistinctAssumption DEF Init
<1>1. TypeOK
  BY DEF TypeOK, Phase
<1>2. CallSound /\ EvidenceInPlace /\ PromotedGrounded
  BY DEF CallSound, EvidenceInPlace, PromotedGrounded
<1>3. PolicyChecked
  BY DEF PolicyChecked
<1>4. Alone /\ OneOutcome /\ DecidedHeaded
  BY DEF Alone, OneOutcome, DecidedHeaded, On, Made
<1> QED
  BY <1>1, <1>2, <1>3, <1>4 DEF Inv

(* The types of all variables are preserved by every step. *)
LEMMA TypeStep == ASSUME Inv, [Next]_vars PROVE TypeOK'
<1> USE PromotionAssumption, DistinctAssumption DEF Inv, TypeOK, Phase
<1>1. CASE UNCHANGED vars
  BY <1>1 DEF vars, files, local, history
<1>2. ASSUME NEW m \in Mem, Remember(m) PROVE TypeOK'
  BY <1>2 DEF Remember, Goto, files, local, history, Memory, MemStatus, Method
<1>3. ASSUME NEW m \in Mem, MapConflict(m) PROVE TypeOK'
  BY <1>3 DEF MapConflict, Goto, files, local, history
<1>4. ASSUME NEW p \in Prop, Deprecate(p) PROVE TypeOK'
  BY <1>4 DEF Deprecate, Goto, files, local, history
<1>5. ASSUME NEW p \in Prop, NEW d \in Draft, Propose(p, d) PROVE TypeOK'
  BY <1>5 DEF Propose, Goto, files, local, history
<1>6. ASSUME NEW c \in Caller, NEW p \in Prop, Promote(c, p) PROVE TypeOK'
  BY <1>6 DEF Promote, BeginCall, Overlap, Goto, files, local, history, Call,
     MemStatus, Method
<1>7. ASSUME NEW c \in Caller, NEW p \in Prop, Reject(c, p) PROVE TypeOK'
  BY <1>7 DEF Reject, BeginCall, Overlap, Goto, files, local, history, Call,
     MemStatus, Method
<1>8. ASSUME NEW c \in Caller, NEW p \in Prop, NEW mode \in Mode, Submit(c, p, mode)
   PROVE TypeOK'
  BY <1>8 DEF Submit, BeginCall, Overlap, Goto, files, local, history, Call,
     MemStatus, Method, StatusFor, MethodOf
<1>9. ASSUME NEW c \in Caller, NEW e \in Ev, NEW m \in Mem, Attach(c, e, m) PROVE
   TypeOK'
  BY <1>9 DEF Attach, BeginCall, Goto, files, local, history, Call, MemStatus, Method
<1>10. ASSUME NEW c \in Caller, Check(c) PROVE TypeOK'
  BY <1>10 DEF Check, Leave, Goto, files, local, history
<1>11. ASSUME NEW c \in Caller, WriteMemory(c) PROVE TypeOK'
  BY <1>11 DEF WriteMemory, Goto, files, local, history, CallSound, Call, Memory,
     Proposal
<1>12. ASSUME NEW c \in Caller, LinkEvidence(c) PROVE TypeOK'
  BY <1>12 DEF LinkEvidence, Goto, files, local, history, CallSound, Call
<1>13. ASSUME NEW c \in Caller, MissEvidence(c) PROVE TypeOK'
  BY <1>13 DEF MissEvidence, Goto, files, local, history
<1>14. ASSUME NEW c \in Caller, WriteEvidence(c) PROVE TypeOK'
  BY <1>14 DEF WriteEvidence, Goto, files, local, history, CallSound, Call
<1>15. ASSUME NEW c \in Caller, EvidenceExists(c) PROVE TypeOK'
  BY <1>15 DEF EvidenceExists, Raise, Leave, Goto, files, local, history, CallSound,
     Call
<1>16. ASSUME NEW c \in Caller, EvidenceDone(c) PROVE TypeOK'
  BY <1>16 DEF EvidenceDone, Leave, Goto, files, local, history
<1>17. ASSUME NEW c \in Caller, Decide(c) PROVE TypeOK'
  BY <1>17 DEF Decide, Leave, WriteDecision, Outcome, Goto, files, local, history,
     CallSound, Call, Decision
<1>18. ASSUME NEW c \in Caller, Fail(c) PROVE TypeOK'
  BY <1>18 DEF Fail, Raise, Leave, WriteDecision, Outcome, Goto, files, local,
     history, CallSound, Call, Decision
<1> QED
  BY <1>1, <1>2, <1>3, <1>4, <1>5, <1>6, <1>7, <1>8, <1>9, <1>10, <1>11, <1>12, <1>13,
     <1>14, <1>15, <1>16, <1>17, <1>18 DEF Next

(* Records and edges are there for good, and proposals do not change. *)
LEMMA Growth == ASSUME Inv, [Next]_vars PROVE Grown
<1> USE PromotionAssumption, DistinctAssumption DEF Inv, TypeOK, Grown
<1>1. CASE UNCHANGED vars
  BY <1>1 DEF vars, files, local, history
<1>2. ASSUME NEW m \in Mem, Remember(m) PROVE Grown
  BY <1>2 DEF Remember, Goto, files, local, history
<1>3. ASSUME NEW m \in Mem, MapConflict(m) PROVE Grown
  BY <1>3 DEF MapConflict, Goto, files, local, history
<1>4. ASSUME NEW p \in Prop, Deprecate(p) PROVE Grown
  BY <1>4 DEF Deprecate, Goto, files, local, history
<1>5. ASSUME NEW p \in Prop, NEW d \in Draft, Propose(p, d) PROVE Grown
  BY <1>5 DEF Propose, Goto, files, local, history
<1>6. ASSUME NEW c \in Caller, NEW p \in Prop, Promote(c, p) PROVE Grown
  BY <1>6 DEF Promote, BeginCall, Overlap, Goto, files, local, history
<1>7. ASSUME NEW c \in Caller, NEW p \in Prop, Reject(c, p) PROVE Grown
  BY <1>7 DEF Reject, BeginCall, Overlap, Goto, files, local, history
<1>8. ASSUME NEW c \in Caller, NEW p \in Prop, NEW mode \in Mode, Submit(c, p, mode)
   PROVE Grown
  BY <1>8 DEF Submit, BeginCall, Overlap, Goto, files, local, history
<1>9. ASSUME NEW c \in Caller, NEW e \in Ev, NEW m \in Mem, Attach(c, e, m) PROVE
   Grown
  BY <1>9 DEF Attach, BeginCall, Goto, files, local, history
<1>10. ASSUME NEW c \in Caller, Check(c) PROVE Grown
  BY <1>10 DEF Check, Leave, Goto, files, local, history
<1>11. ASSUME NEW c \in Caller, WriteMemory(c) PROVE Grown
  BY <1>11 DEF WriteMemory, Goto, files, local, history
<1>12. ASSUME NEW c \in Caller, LinkEvidence(c) PROVE Grown
  BY <1>12 DEF LinkEvidence, Goto, files, local, history
<1>13. ASSUME NEW c \in Caller, MissEvidence(c) PROVE Grown
  BY <1>13 DEF MissEvidence, Goto, files, local, history
<1>14. ASSUME NEW c \in Caller, WriteEvidence(c) PROVE Grown
  BY <1>14 DEF WriteEvidence, Goto, files, local, history
<1>15. ASSUME NEW c \in Caller, EvidenceExists(c) PROVE Grown
  BY <1>15 DEF EvidenceExists, Raise, Leave, Goto, files, local, history
<1>16. ASSUME NEW c \in Caller, EvidenceDone(c) PROVE Grown
  BY <1>16 DEF EvidenceDone, Leave, Goto, files, local, history
<1>17. ASSUME NEW c \in Caller, Decide(c) PROVE Grown
  BY <1>17 DEF Decide, Leave, WriteDecision, Outcome, Goto, files, local, history
<1>18. ASSUME NEW c \in Caller, Fail(c) PROVE Grown
  BY <1>18 DEF Fail, Raise, Leave, WriteDecision, Outcome, Goto, files, local, history
<1> QED
  BY <1>1, <1>2, <1>3, <1>4, <1>5, <1>6, <1>7, <1>8, <1>9, <1>10, <1>11, <1>12, <1>13,
     <1>14, <1>15, <1>16, <1>17, <1>18 DEF Next

(* A caller's locals go on saying what they say. *)
LEMMA CallStep == ASSUME Inv, [Next]_vars PROVE CallSound'
<1> USE PromotionAssumption, DistinctAssumption, Growth DEF Inv, TypeOK, Grown, CallSound
<1>1. CASE UNCHANGED vars
  BY <1>1 DEF vars, files, local, history
<1>2. ASSUME NEW m \in Mem, Remember(m) PROVE CallSound'
  BY <1>2 DEF Remember, Goto, files, local, history
<1>3. ASSUME NEW m \in Mem, MapConflict(m) PROVE CallSound'
  BY <1>3 DEF MapConflict, Goto, files, local, history
<1>4. ASSUME NEW p \in Prop, Deprecate(p) PROVE CallSound'
  BY <1>4 DEF Deprecate, Goto, files, local, history
<1>5. ASSUME NEW p \in Prop, NEW d \in Draft, Propose(p, d) PROVE CallSound'
  BY <1>5 DEF Propose, Goto, files, local, history
<1>6. ASSUME NEW c \in Caller, NEW p \in Prop, Promote(c, p) PROVE CallSound'
  BY <1>6 DEF Promote, BeginCall, Overlap, Goto, files, local, history, Call,
     MemStatus, Method
<1>7. ASSUME NEW c \in Caller, NEW p \in Prop, Reject(c, p) PROVE CallSound'
  BY <1>7 DEF Reject, BeginCall, Overlap, Goto, files, local, history, Call,
     MemStatus, Method, Pending
<1>8. ASSUME NEW c \in Caller, NEW p \in Prop, NEW mode \in Mode, Submit(c, p, mode)
   PROVE CallSound'
  BY <1>8 DEF Submit, BeginCall, Overlap, Goto, files, local, history, Call,
     MemStatus, Method, StatusFor, MethodOf, Pending
<1>9. ASSUME NEW c \in Caller, NEW e \in Ev, NEW m \in Mem, Attach(c, e, m) PROVE
   CallSound'
  BY <1>9 DEF Attach, BeginCall, Goto, files, local, history, Call, MemStatus, Method
<1>10. ASSUME NEW c \in Caller, Check(c) PROVE CallSound'
  BY <1>10 DEF Check, Leave, Goto, files, local, history, Call
<1>11. ASSUME NEW c \in Caller, WriteMemory(c) PROVE CallSound'
  BY <1>11 DEF WriteMemory, Goto, files, local, history, Call, Memory
<1>12. ASSUME NEW c \in Caller, LinkEvidence(c) PROVE CallSound'
  BY <1>12 DEF LinkEvidence, Goto, files, local, history
<1>13. ASSUME NEW c \in Caller, MissEvidence(c) PROVE CallSound'
  BY <1>13 DEF MissEvidence, Goto, files, local, history
<1>14. ASSUME NEW c \in Caller, WriteEvidence(c) PROVE CallSound'
  BY <1>14 DEF WriteEvidence, Goto, files, local, history
<1>15. ASSUME NEW c \in Caller, EvidenceExists(c) PROVE CallSound'
  BY <1>15 DEF EvidenceExists, Raise, Leave, Goto, files, local, history
<1>16. ASSUME NEW c \in Caller, EvidenceDone(c) PROVE CallSound'
  BY <1>16 DEF EvidenceDone, Leave, Goto, files, local, history, Call
<1>17. ASSUME NEW c \in Caller, Decide(c) PROVE CallSound'
  BY <1>17 DEF Decide, Leave, WriteDecision, Outcome, Goto, files, local, history
<1>18. ASSUME NEW c \in Caller, Fail(c) PROVE CallSound'
  BY <1>18 DEF Fail, Raise, Leave, WriteDecision, Outcome, Goto, files, local, history
<1> QED
  BY <1>1, <1>2, <1>3, <1>4, <1>5, <1>6, <1>7, <1>8, <1>9, <1>10, <1>11, <1>12, <1>13,
     <1>14, <1>15, <1>16, <1>17, <1>18 DEF Next

(* What a promotion has seen to stays in place. *)
LEMMA EvidenceStep == ASSUME Inv, [Next]_vars PROVE EvidenceInPlace'
<1> USE PromotionAssumption, DistinctAssumption, Growth DEF Inv, TypeOK, Grown,
          EvidenceInPlace, CallSound, Supports
<1>1. CASE UNCHANGED vars
  BY <1>1 DEF vars, files, local, history
<1>2. ASSUME NEW m \in Mem, Remember(m) PROVE EvidenceInPlace'
  BY <1>2 DEF Remember, Goto, files, local, history
<1>3. ASSUME NEW m \in Mem, MapConflict(m) PROVE EvidenceInPlace'
  BY <1>3 DEF MapConflict, Goto, files, local, history
<1>4. ASSUME NEW p \in Prop, Deprecate(p) PROVE EvidenceInPlace'
  BY <1>4 DEF Deprecate, Goto, files, local, history
<1>5. ASSUME NEW p \in Prop, NEW d \in Draft, Propose(p, d) PROVE EvidenceInPlace'
  BY <1>5 DEF Propose, Goto, files, local, history
<1>6. ASSUME NEW c \in Caller, NEW p \in Prop, Promote(c, p) PROVE EvidenceInPlace'
  BY <1>6 DEF Promote, BeginCall, Overlap, Goto, files, local, history, Call,
     MemStatus, Method
<1>7. ASSUME NEW c \in Caller, NEW p \in Prop, Reject(c, p) PROVE EvidenceInPlace'
  BY <1>7 DEF Reject, BeginCall, Overlap, Goto, files, local, history, Call,
     MemStatus, Method, Pending
<1>8. ASSUME NEW c \in Caller, NEW p \in Prop, NEW mode \in Mode, Submit(c, p, mode)
   PROVE EvidenceInPlace'
  BY <1>8 DEF Submit, BeginCall, Overlap, Goto, files, local, history, Call,
     MemStatus, Method, StatusFor, MethodOf, Pending
<1>9. ASSUME NEW c \in Caller, NEW e \in Ev, NEW m \in Mem, Attach(c, e, m) PROVE
   EvidenceInPlace'
  BY <1>9 DEF Attach, BeginCall, Goto, files, local, history, Call, MemStatus, Method
<1>10. ASSUME NEW c \in Caller, Check(c) PROVE EvidenceInPlace'
  BY <1>10 DEF Check, Leave, Goto, files, local, history
<1>11. ASSUME NEW c \in Caller, WriteMemory(c) PROVE EvidenceInPlace'
  BY <1>11 DEF WriteMemory, Goto, files, local, history, Call, Memory
<1>12. ASSUME NEW c \in Caller, LinkEvidence(c) PROVE EvidenceInPlace'
  BY <1>12 DEF LinkEvidence, Goto, files, local, history
<1>13. ASSUME NEW c \in Caller, MissEvidence(c) PROVE EvidenceInPlace'
  BY <1>13 DEF MissEvidence, Goto, files, local, history
<1>14. ASSUME NEW c \in Caller, WriteEvidence(c) PROVE EvidenceInPlace'
  BY <1>14 DEF WriteEvidence, Goto, files, local, history
<1>15. ASSUME NEW c \in Caller, EvidenceExists(c) PROVE EvidenceInPlace'
  BY <1>15 DEF EvidenceExists, Raise, Leave, Goto, files, local, history
<1>16. ASSUME NEW c \in Caller, EvidenceDone(c) PROVE EvidenceInPlace'
  BY <1>16 DEF EvidenceDone, Leave, Goto, files, local, history
<1>17. ASSUME NEW c \in Caller, Decide(c) PROVE EvidenceInPlace'
  BY <1>17 DEF Decide, Leave, WriteDecision, Outcome, Goto, files, local, history
<1>18. ASSUME NEW c \in Caller, Fail(c) PROVE EvidenceInPlace'
  BY <1>18 DEF Fail, Raise, Leave, WriteDecision, Outcome, Goto, files, local, history
<1> QED
  BY <1>1, <1>2, <1>3, <1>4, <1>5, <1>6, <1>7, <1>8, <1>9, <1>10, <1>11, <1>12, <1>13,
     <1>14, <1>15, <1>16, <1>17, <1>18 DEF Next

(* A PROMOTED version is written only when all is in place. *)
LEMMA GroundedStep == ASSUME Inv, [Next]_vars PROVE PromotedGrounded'
<1> USE PromotionAssumption, DistinctAssumption, Growth DEF Inv, TypeOK, Grown,
          PromotedGrounded, EvidenceInPlace, CallSound, Supports, Decision
<1>1. CASE UNCHANGED vars
  BY <1>1 DEF vars, files, local, history
<1>2. ASSUME NEW m \in Mem, Remember(m) PROVE PromotedGrounded'
  BY <1>2 DEF Remember, Goto, files, local, history
<1>3. ASSUME NEW m \in Mem, MapConflict(m) PROVE PromotedGrounded'
  BY <1>3 DEF MapConflict, Goto, files, local, history
<1>4. ASSUME NEW p \in Prop, Deprecate(p) PROVE PromotedGrounded'
  BY <1>4 DEF Deprecate, Goto, files, local, history
<1>5. ASSUME NEW p \in Prop, NEW d \in Draft, Propose(p, d) PROVE PromotedGrounded'
  <2>1. \A q \in Prop : \A d2 \in decisions[q] : d2.status = "promoted" => q # p
    BY <1>5 DEF Propose, PolicyChecked
  <2> QED
    BY <1>5, <2>1 DEF Propose, Goto, files, local, history
<1>6. ASSUME NEW c \in Caller, NEW p \in Prop, Promote(c, p) PROVE PromotedGrounded'
  BY <1>6 DEF Promote, BeginCall, Overlap, Goto, files, local, history
<1>7. ASSUME NEW c \in Caller, NEW p \in Prop, Reject(c, p) PROVE PromotedGrounded'
  BY <1>7 DEF Reject, BeginCall, Overlap, Goto, files, local, history
<1>8. ASSUME NEW c \in Caller, NEW p \in Prop, NEW mode \in Mode, Submit(c, p, mode)
   PROVE PromotedGrounded'
  BY <1>8 DEF Submit, BeginCall, Overlap, Goto, files, local, history
<1>9. ASSUME NEW c \in Caller, NEW e \in Ev, NEW m \in Mem, Attach(c, e, m) PROVE
   PromotedGrounded'
  BY <1>9 DEF Attach, BeginCall, Goto, files, local, history
<1>10. ASSUME NEW c \in Caller, Check(c) PROVE PromotedGrounded'
  BY <1>10 DEF Check, Leave, Goto, files, local, history
<1>11. ASSUME NEW c \in Caller, WriteMemory(c) PROVE PromotedGrounded'
  BY <1>11 DEF WriteMemory, Goto, files, local, history
<1>12. ASSUME NEW c \in Caller, LinkEvidence(c) PROVE PromotedGrounded'
  BY <1>12 DEF LinkEvidence, Goto, files, local, history
<1>13. ASSUME NEW c \in Caller, MissEvidence(c) PROVE PromotedGrounded'
  BY <1>13 DEF MissEvidence, Goto, files, local, history
<1>14. ASSUME NEW c \in Caller, WriteEvidence(c) PROVE PromotedGrounded'
  BY <1>14 DEF WriteEvidence, Goto, files, local, history
<1>15. ASSUME NEW c \in Caller, EvidenceExists(c) PROVE PromotedGrounded'
  BY <1>15 DEF EvidenceExists, Raise, Leave, Goto, files, local, history
<1>16. ASSUME NEW c \in Caller, EvidenceDone(c) PROVE PromotedGrounded'
  BY <1>16 DEF EvidenceDone, Leave, Goto, files, local, history
<1>17. ASSUME NEW c \in Caller, Decide(c) PROVE PromotedGrounded'
  BY <1>17 DEF Decide, Leave, WriteDecision, Outcome, Goto, files, local, history
<1>18. ASSUME NEW c \in Caller, Fail(c) PROVE PromotedGrounded'
  BY <1>18 DEF Fail, Raise, Leave, WriteDecision, Outcome, Goto, files, local, history
<1> HIDE PromotionAssumption, DistinctAssumption, Growth
<1> HIDE DEF Inv, TypeOK, Grown, PromotedGrounded, EvidenceInPlace, CallSound, Supports, Decision
<1> QED
  BY <1>1, <1>2, <1>3, <1>4, <1>5, <1>6, <1>7, <1>8, <1>9, <1>10, <1>11, <1>12, <1>13,
     <1>14, <1>15, <1>16, <1>17, <1>18 DEF Next

(* What was promoted by policy satisfies it. *)
LEMMA PolicyStep == ASSUME Inv, [Next]_vars PROVE PolicyChecked'
<1> USE PromotionAssumption, DistinctAssumption, Growth DEF Inv, TypeOK, Grown,
          PolicyChecked, CallSound
<1>1. CASE UNCHANGED vars
  BY <1>1 DEF vars, files, local, history
<1>2. ASSUME NEW m \in Mem, Remember(m) PROVE PolicyChecked'
  BY <1>2 DEF Remember, Goto, files, local, history
<1>3. ASSUME NEW m \in Mem, MapConflict(m) PROVE PolicyChecked'
  BY <1>3 DEF MapConflict, Goto, files, local, history
<1>4. ASSUME NEW p \in Prop, Deprecate(p) PROVE PolicyChecked'
  BY <1>4 DEF Deprecate, Goto, files, local, history
<1>5. ASSUME NEW p \in Prop, NEW d \in Draft, Propose(p, d) PROVE PolicyChecked'
  BY <1>5 DEF Propose, Goto, files, local, history
<1>6. ASSUME NEW c \in Caller, NEW p \in Prop, Promote(c, p) PROVE PolicyChecked'
  BY <1>6 DEF Promote, BeginCall, Overlap, Goto, files, local, history
<1>7. ASSUME NEW c \in Caller, NEW p \in Prop, Reject(c, p) PROVE PolicyChecked'
  BY <1>7 DEF Reject, BeginCall, Overlap, Goto, files, local, history
<1>8. ASSUME NEW c \in Caller, NEW p \in Prop, NEW mode \in Mode, Submit(c, p, mode)
   PROVE PolicyChecked'
  <2>1. Policy(proposal[p], MethodOf(mode), StatusFor(proposal[p].confidence))
    <3>1. CASE mode = "consensus"
      <4>1. Corroborated(proposal[p])
        BY <1>8, <3>1 DEF Submit, Admits
      <4>2. Grounded(proposal[p]) /\ MethodOf(mode) = "consensus"
        BY <3>1, <4>1 DEF Corroborated, MethodOf
      <4>3. Cardinality({author[e] : e \in proposal[p].evidence}) >= ConsensusThreshold
        BY <4>1 DEF Corroborated
      <4> HIDE DEF TypeOK, PolicyChecked, CallSound, Grown
      <4> QED
        BY <4>2, <4>3 DEF Grounded, StatusFor, Policy
    <3>2. CASE mode # "consensus"
      <4>1. Deserving(proposal[p]) /\ MethodOf(mode) = "automatic"
        BY <1>8, <3>2 DEF Submit, Admits, MethodOf
      <4> HIDE DEF TypeOK, PolicyChecked, CallSound, Grown
      <4> QED
        BY <4>1 DEF Deserving, Grounded, StatusFor, Policy
    <3> QED
      BY <3>1, <3>2
  <2>2. call' = [call EXCEPT ![c] = [kind |-> "promote", prop |-> p,
                                     status |-> StatusFor(proposal[p].confidence),
                                     method |-> MethodOf(mode)]]
    BY <1>8 DEF Submit, BeginCall
  <2>3. UNCHANGED <<memory, proposal>>
    BY <1>8 DEF Submit, BeginCall, files
  <2> QED
    BY <2>1, <2>2, <2>3
<1>9. ASSUME NEW c \in Caller, NEW e \in Ev, NEW m \in Mem, Attach(c, e, m) PROVE
   PolicyChecked'
  BY <1>9 DEF Attach, BeginCall, Goto, files, local, history
<1>10. ASSUME NEW c \in Caller, Check(c) PROVE PolicyChecked'
  BY <1>10 DEF Check, Leave, Goto, files, local, history
<1>11. ASSUME NEW c \in Caller, WriteMemory(c) PROVE PolicyChecked'
  BY <1>11 DEF WriteMemory, Goto, files, local, history, Call, Memory
<1>12. ASSUME NEW c \in Caller, LinkEvidence(c) PROVE PolicyChecked'
  BY <1>12 DEF LinkEvidence, Goto, files, local, history
<1>13. ASSUME NEW c \in Caller, MissEvidence(c) PROVE PolicyChecked'
  BY <1>13 DEF MissEvidence, Goto, files, local, history
<1>14. ASSUME NEW c \in Caller, WriteEvidence(c) PROVE PolicyChecked'
  BY <1>14 DEF WriteEvidence, Goto, files, local, history
<1>15. ASSUME NEW c \in Caller, EvidenceExists(c) PROVE PolicyChecked'
  BY <1>15 DEF EvidenceExists, Raise, Leave, Goto, files, local, history
<1>16. ASSUME NEW c \in Caller, EvidenceDone(c) PROVE PolicyChecked'
  BY <1>16 DEF EvidenceDone, Leave, Goto, files, local, history
<1>17. ASSUME NEW c \in Caller, Decide(c) PROVE PolicyChecked'
  BY <1>17 DEF Decide, Leave, WriteDecision, Outcome, Goto, files, local, history
<1>18. ASSUME NEW c \in Caller, Fail(c) PROVE PolicyChecked'
  BY <1>18 DEF Fail, Raise, Leave, WriteDecision, Outcome, Goto, files, local, history
<1> QED
  BY <1>1, <1>2, <1>3, <1>4, <1>5, <1>6, <1>7, <1>8, <1>9, <1>10, <1>11, <1>12, <1>13,
     <1>14, <1>15, <1>16, <1>17, <1>18 DEF Next

(* Callers who do not overlap are alone with their proposal. *)
LEMMA AloneStep == ASSUME Inv, [Next]_vars PROVE Alone'
<1> USE PromotionAssumption, DistinctAssumption, Growth DEF Inv, TypeOK, Grown,
          Alone, On, CallSound
<1>1. CASE UNCHANGED vars
  BY <1>1 DEF vars, files, local, history
<1>2. ASSUME NEW m \in Mem, Remember(m) PROVE Alone'
  BY <1>2 DEF Remember, Goto, files, local, history
<1>3. ASSUME NEW m \in Mem, MapConflict(m) PROVE Alone'
  BY <1>3 DEF MapConflict, Goto, files, local, history
<1>4. ASSUME NEW p \in Prop, Deprecate(p) PROVE Alone'
  BY <1>4 DEF Deprecate, Goto, files, local, history
<1>5. ASSUME NEW p \in Prop, NEW d \in Draft, Propose(p, d) PROVE Alone'
  BY <1>5 DEF Propose, Goto, files, local, history
<1>6. ASSUME NEW c \in Caller, NEW p \in Prop, Promote(c, p) PROVE Alone'
  BY <1>6 DEF Promote, BeginCall, Overlap, Goto, files, local, history
<1>7. ASSUME NEW c \in Caller, NEW p \in Prop, Reject(c, p) PROVE Alone'
  BY <1>7 DEF Reject, BeginCall, Overlap, Goto, files, local, history, Pending
<1>8. ASSUME NEW c \in Caller, NEW p \in Prop, NEW mode \in Mode, Submit(c, p, mode)
   PROVE Alone'
  BY <1>8 DEF Submit, BeginCall, Overlap, Goto, files, local, history, Pending
<1>9. ASSUME NEW c \in Caller, NEW e \in Ev, NEW m \in Mem, Attach(c, e, m) PROVE
   Alone'
  BY <1>9 DEF Attach, BeginCall, Goto, files, local, history
<1>10. ASSUME NEW c \in Caller, Check(c) PROVE Alone'
  BY <1>10 DEF Check, Leave, Goto, files, local, history, Pending
<1>11. ASSUME NEW c \in Caller, WriteMemory(c) PROVE Alone'
  BY <1>11 DEF WriteMemory, Goto, files, local, history
<1>12. ASSUME NEW c \in Caller, LinkEvidence(c) PROVE Alone'
  BY <1>12 DEF LinkEvidence, Goto, files, local, history
<1>13. ASSUME NEW c \in Caller, MissEvidence(c) PROVE Alone'
  BY <1>13 DEF MissEvidence, Goto, files, local, history
<1>14. ASSUME NEW c \in Caller, WriteEvidence(c) PROVE Alone'
  BY <1>14 DEF WriteEvidence, Goto, files, local, history
<1>15. ASSUME NEW c \in Caller, EvidenceExists(c) PROVE Alone'
  BY <1>15 DEF EvidenceExists, Raise, Leave, Goto, files, local, history
<1>16. ASSUME NEW c \in Caller, EvidenceDone(c) PROVE Alone'
  <2>1. CASE call[c].kind = "attach"
    BY <1>16, <2>1 DEF EvidenceDone, Leave, Goto, files, local, history
  <2>2. CASE call[c].kind # "attach"
    BY <1>16, <2>2 DEF EvidenceDone, Goto, files, local, history
  <2> QED
    BY <2>1, <2>2
<1>17. ASSUME NEW c \in Caller, Decide(c) PROVE Alone'
  BY <1>17 DEF Decide, Leave, WriteDecision, Outcome, Goto, files, local, history
<1>18. ASSUME NEW c \in Caller, Fail(c) PROVE Alone'
  BY <1>18 DEF Fail, Raise, Leave, WriteDecision, Outcome, Goto, files, local, history
<1> QED
  BY <1>1, <1>2, <1>3, <1>4, <1>5, <1>6, <1>7, <1>8, <1>9, <1>10, <1>11, <1>12, <1>13,
     <1>14, <1>15, <1>16, <1>17, <1>18 DEF Next

(* An undisturbed proposal has one outcome. *)
LEMMA OutcomeStep == ASSUME Inv, [Next]_vars PROVE OneOutcome'
<1> USE PromotionAssumption, DistinctAssumption, Growth DEF Inv, TypeOK, Grown,
          OneOutcome, Made, Alone, On, CallSound
<1>1. CASE UNCHANGED vars
  BY <1>1 DEF vars, files, local, history
<1>2. ASSUME NEW m \in Mem, Remember(m) PROVE OneOutcome'
  BY <1>2 DEF Remember, Goto, files, local, history
<1>3. ASSUME NEW m \in Mem, MapConflict(m) PROVE OneOutcome'
  BY <1>3 DEF MapConflict, Goto, files, local, history
<1>4. ASSUME NEW p \in Prop, Deprecate(p) PROVE OneOutcome'
  BY <1>4 DEF Deprecate, Goto, files, local, history
<1>5. ASSUME NEW p \in Prop, NEW d \in Draft, Propose(p, d) PROVE OneOutcome'
  BY <1>5 DEF Propose, Goto, files, local, history
<1>6. ASSUME NEW c \in Caller, NEW p \in Prop, Promote(c, p) PROVE OneOutcome'
  BY <1>6 DEF Promote, BeginCall, Overlap, Goto, files, local, history
<1>7. ASSUME NEW c \in Caller, NEW p \in Prop, Reject(c, p) PROVE OneOutcome'
  BY <1>7 DEF Reject, BeginCall, Overlap, Goto, files, local, history
<1>8. ASSUME NEW c \in Caller, NEW p \in Prop, NEW mode \in Mode, Submit(c, p, mode)
   PROVE OneOutcome'
  BY <1>8 DEF Submit, BeginCall, Overlap, Goto, files, local, history
<1>9. ASSUME NEW c \in Caller, NEW e \in Ev, NEW m \in Mem, Attach(c, e, m) PROVE
   OneOutcome'
  BY <1>9 DEF Attach, BeginCall, Goto, files, local, history
<1>10. ASSUME NEW c \in Caller, Check(c) PROVE OneOutcome'
  BY <1>10 DEF Check, Leave, Goto, files, local, history
<1>11. ASSUME NEW c \in Caller, WriteMemory(c) PROVE OneOutcome'
  <2>1. PICK m \in Mem :
          /\ memory[m] = None
          /\ memory' = [memory EXCEPT ![m] = [from |-> call[c].prop, status |-> call[c].status,
                                              method |-> call[c].method]]
          /\ target' = [target EXCEPT ![c] = m]
    BY <1>11 DEF WriteMemory
  <2>2. PICK q \in Prop : q = call[c].prop /\ On(c, q)
    BY <1>11 DEF WriteMemory, Call
  <2>3. q \notin disturbed => Made(q) = {}
    <3>1. SUFFICES ASSUME q \notin disturbed, NEW m1 \in Made(q) PROVE FALSE
      OBVIOUS
    <3>2. head[q] = None /\ target[c] = None
      BY <1>11, <2>2, <3>1 DEF WriteMemory
    <3>3. head[q] # [status |-> "promoted", memory |-> m1]
      BY <3>2 DEF Decision
    <3>4. PICK b \in Caller : On(b, q) /\ target[b] = m1
      BY <3>1, <3>3
    <3> QED
      BY <2>2, <3>1, <3>2, <3>4
  <2>4. [from |-> call[c].prop, status |-> call[c].status, method |-> call[c].method] # None
    BY <1>11, <2>2 DEF Call, Memory
  <2>5. Made(q)' = Made(q) \cup {m}
    <3>1. memory'[m] # None /\ memory'[m].from = q
      BY <2>1, <2>2, <2>4
    <3>2. \A n \in Mem : n # m => memory'[n] = memory[n]
      BY <2>1
    <3> QED
      BY <3>1, <3>2
  <2>6. \A p \in Prop : p # q => Made(p)' = Made(p)
    BY <2>1, <2>2
  <2>7. ASSUME NEW p \in Prop \ disturbed, p = q
        PROVE  /\ \A m1, m2 \in Made(p)' : m1 = m2
               /\ head'[p] = None
               /\ \A m1 \in Made(p)' : On(c, p)' /\ target'[c] = m1
    BY <1>11, <2>1, <2>2, <2>3, <2>5, <2>7 DEF WriteMemory, Goto
  <2>8. ASSUME NEW p \in Prop \ disturbed, p # q
        PROVE  /\ \A m1, m2 \in Made(p)' : m1 = m2
               /\ head'[p] # None /\ head'[p].status = "rejected" => Made(p)' = {}
               /\ \A m1 \in Made(p)' :
                     \/ head'[p] = [status |-> "promoted", memory |-> m1]
                     \/ \E b \in Caller : On(b, p)' /\ target'[b] = m1
    BY <1>11, <2>1, <2>2, <2>6, <2>8 DEF WriteMemory, Goto
  <2>9. disturbed' = disturbed
    BY <1>11 DEF WriteMemory, history
  <2>10. ASSUME NEW p \in Prop \ disturbed'
        PROVE  /\ \A m1, m2 \in Made(p)' : m1 = m2
               /\ head'[p] # None /\ head'[p].status = "rejected" => Made(p)' = {}
               /\ \A m1 \in Made(p)' :
                     \/ head'[p] = [status |-> "promoted", memory |-> m1]
                     \/ \E b \in Caller : On(b, p)' /\ target'[b] = m1
    BY <2>7, <2>8, <2>9, <2>10
  <2> QED
    BY <2>10
<1>12. ASSUME NEW c \in Caller, LinkEvidence(c) PROVE OneOutcome'
  BY <1>12 DEF LinkEvidence, Goto, files, local, history
<1>13. ASSUME NEW c \in Caller, MissEvidence(c) PROVE OneOutcome'
  BY <1>13 DEF MissEvidence, Goto, files, local, history
<1>14. ASSUME NEW c \in Caller, WriteEvidence(c) PROVE OneOutcome'
  BY <1>14 DEF WriteEvidence, Goto, files, local, history
<1>15. ASSUME NEW c \in Caller, EvidenceExists(c) PROVE OneOutcome'
  BY <1>15 DEF EvidenceExists, Raise, Leave, Goto, files, local, history
<1>16. ASSUME NEW c \in Caller, EvidenceDone(c) PROVE OneOutcome'
  <2>1. memory' = memory /\ head' = head /\ disturbed \subseteq disturbed'
    BY <1>16 DEF EvidenceDone, Leave, Goto, files, local, history
  <2>2. ASSUME NEW p \in Prop \ disturbed', NEW b \in Caller, On(b, p)
        PROVE  On(b, p)' /\ target'[b] = target[b]
    BY <1>16, <2>2 DEF EvidenceDone, Leave, Goto, Call, files, local, history
  <2> QED
    BY <2>1, <2>2
<1>17. ASSUME NEW c \in Caller, Decide(c) PROVE OneOutcome'
  <2>1. On(c, call[c].prop) /\ call[c].prop \in Prop /\ Outcome(c) \in Decision
    BY <1>17 DEF Decide, Call, Outcome, Decision
  <2>2. \A p \in Prop : Made(p)' = Made(p)
    BY <1>17 DEF Decide
  <2>3. ASSUME NEW p \in Prop \ disturbed, p = call[c].prop
        PROVE  /\ \A m1, m2 \in Made(p) : m1 = m2
               /\ head'[p].status = "rejected" => Made(p) = {}
               /\ \A m1 \in Made(p) : head'[p] = [status |-> "promoted", memory |-> m1]
    <3>1. head'[p] = Outcome(c) /\ head[p] = None
      BY <1>17, <2>1, <2>3 DEF Decide
    <3>2. ASSUME NEW m1 \in Made(p) PROVE target[c] = m1
      <4>1. head[p] # [status |-> "promoted", memory |-> m1]
        BY <3>1 DEF Decision
      <4>2. PICK b \in Caller : On(b, p) /\ target[b] = m1
        BY <2>3, <4>1
      <4> QED
        BY <2>1, <2>3, <4>2
    <3>3. target[c] # None => call[c].kind = "promote"
      BY <1>17, <2>1 DEF Decide, Call
    <3> QED
      BY <1>17, <2>1, <2>3, <3>1, <3>2, <3>3 DEF Decide, Outcome
  <2>4. ASSUME NEW p \in Prop \ disturbed, p # call[c].prop
        PROVE  /\ head'[p] = head[p]
               /\ \A b \in Caller : On(b, p) => On(b, p)' /\ target'[b] = target[b]
    BY <1>17, <2>1, <2>4 DEF Decide, Leave, Goto
  <2>5. disturbed' = disturbed
    BY <1>17 DEF Decide
  <2>6. ASSUME NEW p \in Prop \ disturbed
        PROVE  /\ \A m1, m2 \in Made(p) : m1 = m2
               /\ head'[p] # None /\ head'[p].status = "rejected" => Made(p) = {}
               /\ \A m1 \in Made(p) :
                     \/ head'[p] = [status |-> "promoted", memory |-> m1]
                     \/ \E b \in Caller : On(b, p)' /\ target'[b] = m1
    BY <2>3, <2>4, <2>6
  <2>7. \A p \in Prop : Made(p) = Made(p)'
    BY <2>2
  <2> QED
    BY ONLY <2>5, <2>6, <2>7 DEF OneOutcome
<1>18. ASSUME NEW c \in Caller, Fail(c) PROVE OneOutcome'
  <2>1. memory' = memory /\ head' = head /\ disturbed \subseteq disturbed'
    BY <1>18 DEF Fail, Raise, Leave, Goto, files, local, history
  <2>2. ASSUME NEW p \in Prop \ disturbed', NEW b \in Caller, On(b, p)
        PROVE  On(b, p)' /\ target'[b] = target[b]
    BY <1>18, <2>2 DEF Fail, Raise, Leave, Goto, Call, files, local, history
  <2> QED
    BY <2>1, <2>2
<1> HIDE PromotionAssumption, DistinctAssumption, Growth
<1> HIDE DEF Inv, TypeOK, Grown, OneOutcome, Made, Alone, On, CallSound
<1> QED
  BY <1>1, <1>2, <1>3, <1>4, <1>5, <1>6, <1>7, <1>8, <1>9, <1>10, <1>11, <1>12, <1>13,
     <1>14, <1>15, <1>16, <1>17, <1>18 DEF Next

(* A decision that returned heads its proposal. *)
LEMMA DecidedStep == ASSUME Inv, [Next]_vars PROVE DecidedHeaded'
<1> USE PromotionAssumption, DistinctAssumption, Growth DEF Inv, TypeOK, Grown,
          DecidedHeaded, CallSound
<1>1. CASE UNCHANGED vars
  BY <1>1 DEF vars, files, local, history
<1>2. ASSUME NEW m \in Mem, Remember(m) PROVE DecidedHeaded'
  BY <1>2 DEF Remember, Goto, files, local, history
<1>3. ASSUME NEW m \in Mem, MapConflict(m) PROVE DecidedHeaded'
  BY <1>3 DEF MapConflict, Goto, files, local, history
<1>4. ASSUME NEW p \in Prop, Deprecate(p) PROVE DecidedHeaded'
  BY <1>4 DEF Deprecate, Goto, files, local, history
<1>5. ASSUME NEW p \in Prop, NEW d \in Draft, Propose(p, d) PROVE DecidedHeaded'
  BY <1>5 DEF Propose, Goto, files, local, history
<1>6. ASSUME NEW c \in Caller, NEW p \in Prop, Promote(c, p) PROVE DecidedHeaded'
  BY <1>6 DEF Promote, BeginCall, Overlap, Goto, files, local, history
<1>7. ASSUME NEW c \in Caller, NEW p \in Prop, Reject(c, p) PROVE DecidedHeaded'
  BY <1>7 DEF Reject, BeginCall, Overlap, Goto, files, local, history
<1>8. ASSUME NEW c \in Caller, NEW p \in Prop, NEW mode \in Mode, Submit(c, p, mode)
   PROVE DecidedHeaded'
  BY <1>8 DEF Submit, BeginCall, Overlap, Goto, files, local, history
<1>9. ASSUME NEW c \in Caller, NEW e \in Ev, NEW m \in Mem, Attach(c, e, m) PROVE
   DecidedHeaded'
  BY <1>9 DEF Attach, BeginCall, Goto, files, local, history
<1>10. ASSUME NEW c \in Caller, Check(c) PROVE DecidedHeaded'
  BY <1>10 DEF Check, Leave, Goto, files, local, history
<1>11. ASSUME NEW c \in Caller, WriteMemory(c) PROVE DecidedHeaded'
  BY <1>11 DEF WriteMemory, Goto, files, local, history
<1>12. ASSUME NEW c \in Caller, LinkEvidence(c) PROVE DecidedHeaded'
  BY <1>12 DEF LinkEvidence, Goto, files, local, history
<1>13. ASSUME NEW c \in Caller, MissEvidence(c) PROVE DecidedHeaded'
  BY <1>13 DEF MissEvidence, Goto, files, local, history
<1>14. ASSUME NEW c \in Caller, WriteEvidence(c) PROVE DecidedHeaded'
  BY <1>14 DEF WriteEvidence, Goto, files, local, history
<1>15. ASSUME NEW c \in Caller, EvidenceExists(c) PROVE DecidedHeaded'
  BY <1>15 DEF EvidenceExists, Raise, Leave, Goto, files, local, history
<1>16. ASSUME NEW c \in Caller, EvidenceDone(c) PROVE DecidedHeaded'
  BY <1>16 DEF EvidenceDone, Leave, Goto, files, local, history
<1>17. ASSUME NEW c \in Caller, Decide(c) PROVE DecidedHeaded'
  <2>1. call[c].prop \in Prop /\ Outcome(c) \in Decision
    BY <1>17 DEF Decide, Call, Outcome, Decision
  <2> QED
    BY <1>17, <2>1 DEF Decide
<1>18. ASSUME NEW c \in Caller, Fail(c) PROVE DecidedHeaded'
  BY <1>18 DEF Fail, Raise, Leave, WriteDecision, Outcome, Goto, files, local, history
<1> QED
  BY <1>1, <1>2, <1>3, <1>4, <1>5, <1>6, <1>7, <1>8, <1>9, <1>10, <1>11, <1>12, <1>13,
     <1>14, <1>15, <1>16, <1>17, <1>18 DEF Next

-----------------------------------------------------------------------------

(* The inductive invariant holds in every reachable state. *)
THEOREM PromotionInvariance == Spec => []Inv
<1>1. Init => Inv
  BY InitInv
<1>2. Inv /\ [Next]_vars => Inv'
  BY TypeStep, CallStep, EvidenceStep, GroundedStep, PolicyStep, AloneStep,
     OutcomeStep, DecidedStep DEF Inv
<1> QED
  BY <1>1, <1>2, PTL DEF Spec

(* The variables keep their types. *)
THEOREM PromotionTypes == Spec => []TypeOK
<1>1. Inv => TypeOK
  BY DEF Inv
<1> QED
  BY <1>1, PromotionInvariance, PTL

(* The memory that a PROMOTED version names was made from that proposal and *)
(* is supported by all of its evidence, whoever races or fails.            *)
THEOREM GroundingOfPromotions == Spec => []PromotedGrounded
<1>1. Inv => PromotedGrounded
  BY DEF Inv
<1> QED
  BY <1>1, PromotionInvariance, PTL

(* No memory that the engine promoted falls short of its policy. *)
THEOREM AdmissionByPolicy == Spec => []AdmittedByPolicy
<1>1. Inv => AdmittedByPolicy
  BY DEF Inv, PolicyChecked, Policy, AdmittedByPolicy
<1> QED
  BY <1>1, PromotionInvariance, PTL

(* A decision that returned is not undone by later calls. *)
THEOREM DecisionsStand == Spec => []DecisionStands
<1>1. Inv => DecisionStands
  BY DEF Inv, TypeOK, DecidedHeaded, DecisionStands, Pending
<1> QED
  BY <1>1, PromotionInvariance, PTL

(* Calls that neither overlap nor fail give a proposal one outcome. *)
THEOREM OneOutcomePerProposal == Spec => []OneOutcome
<1>1. Inv => OneOutcome
  BY DEF Inv
<1> QED
  BY <1>1, PromotionInvariance, PTL

=============================================================================
