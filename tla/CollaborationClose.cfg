SPECIFICATION Spec
CONSTANTS
    Caller = {c1}
    Session = {s1, s2}
    Item = {1, 2}
    Post = {p1, p2}
    Board = {b1}
    Topic = {t1}
    None = None
    agentOf <- Itself
    MaxAgents = 2
    MaxItems = 2
    MaxCalls = 2
    MaxMoves = 4
    MaxFaults = 0
SYMMETRY Symmetry
CHECK_DEADLOCK FALSE
INVARIANT FailuresFlushed
