SPECIFICATION Spec
CONSTANTS
    Caller = {c1, c2}
    Session = {s1, s2}
    Item = {1, 2}
    Post = {p1, p2}
    Board = {b1, b2}
    Topic = {t1}
    None = None
    agentOf <- Itself
    MaxAgents = 2
    MaxItems = 2
    MaxCalls = 2
    MaxMoves = 4
    MaxFaults = 1
SYMMETRY Symmetry
CHECK_DEADLOCK FALSE
INVARIANTS
    FailuresKept
    MarksAreStored
    AccountKept

