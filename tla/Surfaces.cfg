SPECIFICATION PartSpec
CONSTANTS
    Handle = {h1, h2}
    Caller = {c1, c2}
    Pair = {p1}
    Conflict = {k1, k2}
    None = None
    MaxTransitions = 3
    Closed = {"resolved"}
    MaxFaults = 1
    Process = {q1, q2}
    Nothing = Nothing
    Session = {s1}
    Item = {1, 2}
    Agent = {a1, a2}
    NoSpace = NoSpace
    MaxChanges = 1
    MaxTears = 0
    MaxGrants = 1
    MaxCalls = 2
SYMMETRY Symmetry
CHECK_DEADLOCK FALSE
INVARIANTS
    OneLiveConflict
    ChainsLegal
    DecisionsKept
    MappedIsLinked
    AccessHeld
    ErrorsExplained
