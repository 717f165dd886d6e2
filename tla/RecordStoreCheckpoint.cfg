SPECIFICATION Spec
CONSTANTS
    h1 = h1
    h2 = h2
    i1 = i1
    i2 = i2
    c1 = c1
    c2 = c2
    w1 = w1
    w2 = w2
    w3 = w3
    Handle = {h1, h2}
    Id = {i1, i2}
    Content = {c1, c2}
    WalId = {w1, w2}
    NoContent = NoContent
    NoHandle = NoHandle
    NoEntry = NoEntry
    MaxRecords = 0
    MaxFaults = 1
    TornAppends = FALSE
    Checkpoints = TRUE
INVARIANT LoggedRecoverable
