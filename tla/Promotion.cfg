SPECIFICATION Spec
CONSTANTS
    c1 = c1
    c2 = c2
    p1 = p1
    m1 = m1
    m2 = m2
    e1 = e1
    e2 = e2
    alice = alice
    bob = bob
    Caller = {c1, c2}
    Prop = {p1}
    Mem = {m1, m2}
    Ev = {e1, e2}
    Agent = {alice, bob}
    None = None
    author <- MCAuthor
    Draft <- MCDraft
    Trusted = {alice}
    RequireEvidence = TRUE
    MinEvidence = 1
    ConsensusThreshold = 2
    MinConfidence = 2
    VerifiedConfidence = 3
    RiskConfidence = 1
    MaxFaults = 1
    MaxDeprecated = 1
    MaxSupports = 1
SYMMETRY Symmetry
INVARIANTS
    PromotedGrounded
    AdmittedByPolicy
    DecisionStands
    OneOutcome
