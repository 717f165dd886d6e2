SPECIFICATION Spec
CONSTANTS
    h1 = h1
    h2 = h2
    r1 = r1
    r2 = r2
    r3 = r3
    Handle = {h1, h2}
    Rec = {r1, r2}
    NoRec = NoRec
    NoHandle = NoHandle
    MaxConnects = 3
    MaxFaults = 1
    MaxDeprecated = 1
    MaxCheckpoints = 2
CHECK_DEADLOCK FALSE
SYMMETRY Symmetry
INVARIANTS
    IndexNeverAhead
    OwnWritesIndexed
    RebuildIsComplete
