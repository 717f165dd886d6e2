----------------------------- MODULE Promotion -----------------------------
(***************************************************************************)
(* Proposals and how they become memories: propose, promote, reject,       *)
(* submit and attach_evidence of EmberDB (embers/db.py) and the routing    *)
(* policy of the PromotionEngine (embers/engine/promotion.py).             *)
(*                                                                         *)
(* A caller is a thread of some handle on the store.  Each store           *)
(* transaction a call makes is a step; between two of them it holds no     *)
(* lock.  Of a transaction what matters here is its publication: one that  *)
(* a recovery publishes late is one whose caller was slow and then failed. *)
(*                                                                         *)
(* Deciding a proposal means update(proposal_id, ...) without a hash: a    *)
(* new version, a decision, is written and the supersession sidecar of the *)
(* proposal's first version is pointed at it, whatever it pointed at.      *)
(***************************************************************************)
EXTENDS Naturals, FiniteSets

CONSTANTS
    Caller, Prop, Mem, Ev, Agent,
    None,                \* no proposal, memory, decision, call
    author,              \* author[e]: agent_id of evidence e
    Draft,               \* what may be proposed
    Trusted,             \* trusted_agents; all agents if none are named
    RequireEvidence, MinEvidence, ConsensusThreshold,
    MinConfidence, VerifiedConfidence, RiskConfidence,
    MaxFaults,           \* bound: crashes and failing operations
    MaxDeprecated,       \* bound: deprecated decisions
    MaxSupports          \* bound: edges in the graph when evidence is attached

Proposal == [evidence : SUBSET Ev, confidence : Nat, agent : Agent,
             source : Mem \cup {None}]

ASSUME PromotionAssumption ==
    /\ None \notin Prop \cup Mem \cup Ev \cup Proposal
    /\ author \in [Ev -> Agent]
    /\ Draft \subseteq Proposal
    /\ Trusted \subseteq Agent
    /\ RequireEvidence \in BOOLEAN
    /\ {MinEvidence, ConsensusThreshold, MinConfidence, VerifiedConfidence,
        RiskConfidence, MaxFaults, MaxDeprecated, MaxSupports} \subseteq Nat

Mode     == {"automatic", "consensus", "human", "hybrid"}
Method   == {"automatic", "consensus", "human"}
MemStatus == {"verified", "provisional", "disputed"}

(* A PROMOTED version names its memory, a REJECTED one names none. *)
Decision == [status : {"promoted"}, memory : Mem] \cup
            [status : {"rejected"}, memory : {None}]

(* A NODE record; one that was not promoted has no proposal. *)
Memory == [from : Prop \cup {None}, status : MemStatus, method : Method]

(* What a caller is doing, and with which proposal. *)
Call  == [kind : {"promote", "reject", "attach"}, prop : Prop \cup {None},
          status : MemStatus, method : Method]
Phase == {"idle", "check", "memory", "evidence", "writeEvidence", "decide"}

ASSUME DistinctAssumption == None \notin Decision \cup Memory \cup Call

VARIABLES
    proposal,      \* proposal[p]: the PROPOSAL record p, its first version
    decisions,     \* decisions[p]: later versions of p that were written
    head,          \* head[p]: the decision the sidecar of p points at
    hidden,        \* proposals whose head has a deprecation sidecar
    memory,        \* memory[m]: the NODE record m
    carrier,       \* carrier[e]: the memory that EVIDENCE record e carries an edge to
    supports,      \* SUPPORTS edges <<e, m>> of the graph index
    contradicted,  \* memories with a CONTRADICTS edge
    phase,         \* phase[c]: the next step of caller c
    call,          \* call[c]: its operation
    target,        \* target[c]: the memory it has written or supports
    left,          \* left[c]: evidence it has still to write
    writing,       \* writing[c]: evidence it found missing and writes next
    decided,       \* history: proposals whose promote() or reject() returned
    disturbed,     \* history: proposals with overlapping or failed calls, or
                   \* with a deprecated decision
    deprecations, faults

files   == <<proposal, decisions, head, hidden, memory, carrier, supports, contradicted>>
local   == <<phase, call, target, left, writing>>
history == <<decided, disturbed, deprecations, faults>>
vars    == <<files, local, history>>

Init ==
    /\ proposal = [p \in Prop |-> None]
    /\ decisions = [p \in Prop |-> {}]
    /\ head = [p \in Prop |-> None]
    /\ memory = [m \in Mem |-> None]
    /\ carrier = [e \in Ev |-> None]
    /\ hidden = {} /\ supports = {} /\ contradicted = {}
    /\ phase = [c \in Caller |-> "idle"]
    /\ call = [c \in Caller |-> None]
    /\ target = [c \in Caller |-> None]
    /\ left = [c \in Caller |-> {}]
    /\ writing = [c \in Caller |-> None]
    /\ decided = {} /\ disturbed = {} /\ deprecations = 0 /\ faults = 0

Goto(c, p) == phase' = [phase EXCEPT ![c] = p]

(* get_proposal: the head, if it is not deprecated, and else the first      *)
(* version, which is pending.                                              *)
Pending(p) == proposal[p] # None /\ (head[p] = None \/ p \in hidden)

(* Caller c is in a call that is about to decide p. *)
On(c, p) == call[c] # None /\ call[c].prop = p

-----------------------------------------------------------------------------
(* PromotionEngine.route.                                                  *)

(* Mutant: an ungrounded proposal passes. *)
GroundedAlways(q) == TRUE

Grounded(q) == RequireEvidence => Cardinality(q.evidence) >= MinEvidence

(* _has_conflicting_memory: a memory it derives from has a mapped conflict. *)
Conflicting(q) == q.source \in contradicted

(* _automatic_gates, without the conflict gate. *)
Deserving(q) == Grounded(q) /\ q.confidence >= MinConfidence /\ q.agent \in Trusted

Corroborated(q) ==
    Grounded(q) /\ Cardinality({author[e] : e \in q.evidence}) >= ConsensusThreshold

Admits(mode, q) ==
    /\ ~Conflicting(q)
    /\ \/ mode = "automatic" /\ Deserving(q)
       \/ mode = "hybrid" /\ Deserving(q) /\ q.confidence > RiskConfidence
       \/ mode = "consensus" /\ Corroborated(q)

MethodOf(mode) == IF mode = "consensus" THEN "consensus" ELSE "automatic"

(* _status_for. *)
StatusFor(confidence) ==
    IF confidence >= VerifiedConfidence THEN "verified" ELSE "provisional"

-----------------------------------------------------------------------------
(* Calls of one transaction.                                               *)

(* propose: the proposal is stored as it is. *)
Propose(p, d) ==
    /\ proposal[p] = None
    /\ proposal' = [proposal EXCEPT ![p] = d]
    /\ UNCHANGED <<decisions, head, hidden, memory, carrier, supports, contradicted,
                   local, history>>

(* A memory written without a proposal. *)
Remember(m) ==
    /\ memory[m] = None
    /\ memory' = [memory EXCEPT ![m] =
                     [from |-> None, status |-> "verified", method |-> "human"]]
    /\ UNCHANGED <<proposal, decisions, head, hidden, carrier, supports, contradicted,
                   local, history>>

(* link(m, other, "contradicts"), for any other memory. *)
MapConflict(m) ==
    /\ memory[m] # None
    /\ contradicted' = contradicted \cup {m}
    /\ UNCHANGED <<proposal, decisions, head, hidden, memory, carrier, supports,
                   local, history>>

(* deprecate(), of the current version of a proposal. *)
Deprecate(p) ==
    /\ head[p] # None /\ p \notin hidden
    /\ deprecations < MaxDeprecated
    /\ deprecations' = deprecations + 1
    /\ hidden' = hidden \cup {p}
    /\ disturbed' = disturbed \cup {p}
    /\ UNCHANGED <<proposal, decisions, head, memory, carrier, supports, contradicted,
                   local, decided, faults>>

-----------------------------------------------------------------------------
(* promote, reject, submit, attach_evidence.                               *)

(* For the history: does a call that begins overlap another one on p? *)
Overlap(p) ==
    disturbed' = IF \E b \in Caller : On(b, p) THEN disturbed \cup {p} ELSE disturbed

BeginCall(c, k, p, s, m, ph) ==
    /\ phase[c] = "idle"
    /\ call' = [call EXCEPT ![c] = [kind |-> k, prop |-> p, status |-> s, method |-> m]]
    /\ Goto(c, ph)
    /\ UNCHANGED <<files, decided, deprecations, faults>>

(* promote() called by somebody who has decided: VERIFIED and HUMAN. *)
Promote(c, p) ==
    /\ proposal[p] # None
    /\ BeginCall(c, "promote", p, "verified", "human", "check")
    /\ Overlap(p)
    /\ UNCHANGED <<target, left, writing>>

(* submit() of a handle in the given mode: route, then promote.  A proposal *)
(* that is held back leaves no trace.                                      *)
Submit(c, p, mode) ==
    /\ Pending(p)
    /\ Admits(mode, proposal[p])
    /\ BeginCall(c, "promote", p, StatusFor(proposal[p].confidence), MethodOf(mode), "check")
    /\ Overlap(p)
    /\ UNCHANGED <<target, left, writing>>

(* reject() reads the status and decides; a decided proposal is refused. *)
Reject(c, p) ==
    /\ Pending(p)
    /\ BeginCall(c, "reject", p, "verified", "human", "decide")
    /\ Overlap(p)
    /\ UNCHANGED <<target, left, writing>>

(* attach_evidence, to a memory only. *)
Attach(c, e, m) ==
    /\ memory[m] # None
    /\ Cardinality(supports) < MaxSupports
    /\ BeginCall(c, "attach", None, "verified", "human", "evidence")
    /\ target' = [target EXCEPT ![c] = m]
    /\ left' = [left EXCEPT ![c] = {e}]
    /\ UNCHANGED <<writing, disturbed>>

(* The call is over. *)
Leave(c) ==
    /\ Goto(c, "idle")
    /\ call' = [call EXCEPT ![c] = None]
    /\ target' = [target EXCEPT ![c] = None]
    /\ left' = [left EXCEPT ![c] = {}]
    /\ writing' = [writing EXCEPT ![c] = None]

(* The call raises half way. *)
Raise(c) ==
    /\ Leave(c)
    /\ disturbed' = IF call[c].prop = None THEN disturbed
                    ELSE disturbed \cup {call[c].prop}
    /\ UNCHANGED <<decided, deprecations>>

(* Mutant: promote() does not look at the status. *)
CheckNothing(c) ==
    /\ phase[c] = "check"
    /\ Goto(c, "memory")
    /\ UNCHANGED <<files, call, target, left, writing, history>>

(* promote() reads the proposal again, and refuses one that is decided. *)
Check(c) ==
    /\ phase[c] = "check"
    /\ IF Pending(call[c].prop)
       THEN Goto(c, "memory") /\ UNCHANGED <<call, target, left, writing>>
       ELSE Leave(c)
    /\ UNCHANGED <<files, history>>

(* 1. The durable memory, with its status and method. *)
WriteMemory(c) ==
    /\ phase[c] = "memory"
    /\ \E m \in Mem :
          /\ memory[m] = None
          /\ memory' = [memory EXCEPT ![m] =
                           [from |-> call[c].prop, status |-> call[c].status,
                            method |-> call[c].method]]
          /\ target' = [target EXCEPT ![c] = m]
    /\ left' = [left EXCEPT ![c] = proposal[call[c].prop].evidence]
    /\ Goto(c, "evidence")
    /\ UNCHANGED <<proposal, decisions, head, hidden, carrier, supports, contradicted,
                   call, writing, history>>

(* 2. _write_evidence_record: evidence that is there already gets an edge   *)
(* in the graph,                                                           *)
LinkEvidence(c) ==
    /\ phase[c] = "evidence"
    /\ \E e \in left[c] :
          /\ carrier[e] # None
          /\ supports' = supports \cup {<<e, target[c]>>}
          /\ left' = [left EXCEPT ![c] = @ \ {e}]
    /\ UNCHANGED <<proposal, decisions, head, hidden, memory, carrier, contradicted,
                   phase, call, target, writing, history>>

(* and other evidence a record of its own that carries the edge; *)
MissEvidence(c) ==
    /\ phase[c] = "evidence"
    /\ \E e \in left[c] :
          /\ carrier[e] = None
          /\ writing' = [writing EXCEPT ![c] = e]
    /\ Goto(c, "writeEvidence")
    /\ UNCHANGED <<files, call, target, left, history>>

(* the callback draws it in the graph, unless it fails and is skipped. *)
WriteEvidence(c) ==
    /\ phase[c] = "writeEvidence"
    /\ carrier[writing[c]] = None
    /\ carrier' = [carrier EXCEPT ![writing[c]] = target[c]]
    /\ \/ supports' = supports \cup {<<writing[c], target[c]>>} /\ UNCHANGED faults
       \/ faults < MaxFaults /\ faults' = faults + 1 /\ UNCHANGED supports
    /\ left' = [left EXCEPT ![c] = @ \ {writing[c]}]
    /\ writing' = [writing EXCEPT ![c] = None]
    /\ Goto(c, "evidence")
    /\ UNCHANGED <<proposal, decisions, head, hidden, memory, contradicted,
                   call, target, decided, disturbed, deprecations>>

(* Somebody else has written that evidence since it was found missing:     *)
(* write() refuses the identifier and the call raises.                     *)
EvidenceExists(c) ==
    /\ phase[c] = "writeEvidence"
    /\ carrier[writing[c]] # None
    /\ Raise(c)
    /\ UNCHANGED <<files, faults>>

(* Mutant: the proposal is decided while evidence is still being written. *)
EvidenceDoneEarly(c) ==
    /\ phase[c] = "evidence"
    /\ IF call[c].kind = "attach" THEN Leave(c)
       ELSE Goto(c, "decide") /\ UNCHANGED <<call, target, left, writing>>
    /\ UNCHANGED <<files, history>>

EvidenceDone(c) ==
    /\ phase[c] = "evidence" /\ left[c] = {}
    /\ IF call[c].kind = "attach" THEN Leave(c)
       ELSE Goto(c, "decide") /\ UNCHANGED <<call, target, left, writing>>
    /\ UNCHANGED <<files, history>>

Outcome(c) ==
    [status |-> IF call[c].kind = "promote" THEN "promoted" ELSE "rejected",
     memory |-> target[c]]

WriteDecision(c) ==
    decisions' = [decisions EXCEPT ![call[c].prop] = @ \cup {Outcome(c)}]

(* Mutant: the decision is written, but does not supersede the proposal. *)
DecideUnlinked(c) ==
    /\ phase[c] = "decide"
    /\ WriteDecision(c)
    /\ decided' = decided \cup {call[c].prop}
    /\ Leave(c)
    /\ UNCHANGED <<proposal, head, hidden, memory, carrier, supports, contradicted,
                   disturbed, deprecations, faults>>

(* 3. update(proposal_id, ...): the decision supersedes the first version. *)
Decide(c) ==
    /\ phase[c] = "decide"
    /\ WriteDecision(c)
    /\ head' = [head EXCEPT ![call[c].prop] = Outcome(c)]
    /\ hidden' = hidden \ {call[c].prop}
    /\ decided' = decided \cup {call[c].prop}
    /\ Leave(c)
    /\ UNCHANGED <<proposal, memory, carrier, supports, contradicted,
                   disturbed, deprecations, faults>>

(* The call dies, or raises, between two steps, or between the record of    *)
(* the decision and the sidecar.                                           *)
Fail(c) ==
    /\ phase[c] # "idle"
    /\ faults < MaxFaults
    /\ faults' = faults + 1
    /\ \/ UNCHANGED decisions
       \/ phase[c] = "decide" /\ WriteDecision(c)
    /\ Raise(c)
    /\ UNCHANGED <<proposal, head, hidden, memory, carrier, supports, contradicted>>

-----------------------------------------------------------------------------
Next ==
    \/ \E m \in Mem : Remember(m) \/ MapConflict(m)
    \/ \E p \in Prop :
          \/ Deprecate(p)
          \/ \E d \in Draft : Propose(p, d)
    \/ \E c \in Caller :
          \/ \E p \in Prop :
                \/ Promote(c, p) \/ Reject(c, p)
                \/ \E mode \in Mode : Submit(c, p, mode)
          \/ \E e \in Ev, m \in Mem : Attach(c, e, m)
          \/ Check(c) \/ WriteMemory(c)
          \/ LinkEvidence(c) \/ MissEvidence(c) \/ WriteEvidence(c)
          \/ EvidenceExists(c) \/ EvidenceDone(c)
          \/ Decide(c) \/ Fail(c)

Spec == Init /\ [][Next]_vars

-----------------------------------------------------------------------------
(* Properties.                                                             *)

TypeOK ==
    /\ proposal \in [Prop -> Proposal \cup {None}]
    /\ decisions \in [Prop -> SUBSET Decision]
    /\ head \in [Prop -> Decision \cup {None}]
    /\ memory \in [Mem -> Memory \cup {None}]
    /\ carrier \in [Ev -> Mem \cup {None}]
    /\ supports \subseteq Ev \X Mem
    /\ contradicted \subseteq Mem
    /\ phase \in [Caller -> Phase]
    /\ call \in [Caller -> Call \cup {None}]
    /\ target \in [Caller -> Mem \cup {None}]
    /\ left \in [Caller -> SUBSET Ev]
    /\ writing \in [Caller -> Ev \cup {None}]
    /\ {hidden, decided, disturbed} \subseteq SUBSET Prop
    /\ {deprecations, faults} \subseteq Nat

(* Where the SUPPORTS edge from e to m can be found: in the graph, or on    *)
(* the evidence record, from which a rebuild draws it.                     *)
Supports(e, m) == carrier[e] = m \/ <<e, m>> \in supports

(* promote(), "the memory's grounding is traceable": every PROMOTED version *)
(* of a proposal, whoever raced or failed, names a memory made from that   *)
(* proposal, and each piece of its evidence is stored and supports it.     *)
PromotedGrounded ==
    \A p \in Prop : \A d \in decisions[p] : d.status = "promoted" =>
        /\ memory[d.memory] # None /\ memory[d.memory].from = p
        /\ \A e \in proposal[p].evidence : carrier[e] # None /\ Supports(e, d.memory)

(* promotion.py, "a bare assertion is not enough" and "promotion is not     *)
(* true": a memory that no human promoted had the evidence and confidence  *)
(* (or the corroboration) its policy asks for, and is VERIFIED only above  *)
(* verified_confidence.                                                    *)
AdmittedByPolicy ==
    \A m \in Mem :
        memory[m] # None /\ memory[m].method # "human" =>
            LET q == proposal[memory[m].from] IN
            /\ Cardinality(q.evidence) >= MinEvidence \/ ~RequireEvidence
            /\ memory[m].method = "automatic" =>
                  q.confidence >= MinConfidence /\ q.agent \in Trusted
            /\ memory[m].method = "consensus" =>
                  Cardinality({author[e] : e \in q.evidence}) >= ConsensusThreshold
            /\ memory[m].status = "verified" => q.confidence >= VerifiedConfidence

(* A decision that returned stands: the proposal is not pending again, as   *)
(* long as nobody deprecates the version that holds the decision.          *)
DecisionStands ==
    \A p \in decided \ hidden : ~Pending(p)

Made(p) == {m \in Mem : memory[m] # None /\ memory[m].from = p}

(* What promote() and reject() mean to ensure, "only a pending proposal can *)
(* be promoted" and "never becomes a memory", is so when the calls on a     *)
(* proposal neither overlap nor fail and its decision is not deprecated:   *)
(* it has one memory at most, none if it is rejected, and a memory is      *)
(* named by the decision or about to be.                                   *)
OneOutcome ==
    \A p \in Prop \ disturbed :
        /\ \A m, n \in Made(p) : m = n
        /\ head[p] # None /\ head[p].status = "rejected" => Made(p) = {}
        /\ \A m \in Made(p) :
              \/ head[p] = [status |-> "promoted", memory |-> m]
              \/ \E c \in Caller : On(c, p) /\ target[c] = m

(* reject(), "It is never deleted and never becomes a memory": there is no  *)
(* memory made from a proposal that reads as rejected, once nobody is in a *)
(* call on it.                                                             *)
RejectedNeverMemory ==
    \A p \in Prop :
        /\ head[p] # None /\ head[p].status = "rejected"
        /\ \A c \in Caller : ~On(c, p)
        => Made(p) = {}

=============================================================================
