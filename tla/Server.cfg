SPECIFICATION ServerSpec
CONSTANTS
    h1 = h1
    h2 = h2
    i1 = i1
    i2 = i2
    c1 = c1
    c2 = c2
    w1 = w1
    w2 = w2
    w3 = w3
    Handle = {h1, h2}
    Id = {i1, i2}
    Content = {c1, c2}
    WalId = {w1, w2, w3}
    NoContent = NoContent
    NoHandle = NoHandle
    NoEntry = NoEntry
    MaxRecords = 1
    MaxFaults = 2
    TornAppends = FALSE
    Checkpoints = FALSE
    Session = {s1, s2, s3}
    Item = {1}
    Post = {p1}
    None = None
    Board = {b1, b2}
    Topic = {t1}
    agentOf <- TwoAgents
    MaxAgents = 2
    Process = {q1, q2}
    Agent = {a1, a2}
    NoSpace = NoSpace
    MaxChanges = 3
    MaxTears = 1
    Subscription = {u1}
    QueueSize = 2
    MaxEvents = 5
    Keeper = {k1}
    Outside = Outside
    Tag = {t1}
    NoTag = NoTag
    Fade = 1
    Cooldown = 2
    Limit = 2
    Threshold = 2
    MaxTime = 5
    MaxMemories = 3
    MaxTouched = 2
    MaxFailures = 1
CHECK_DEADLOCK FALSE
INVARIANTS
    SeatsAgree
    RegistryFollows
    LossIsFlagged
    LoggedRecoverable
    AckedWithinQuota
    UpkeepNeverRepeats
PROPERTIES
    NewestArrives
    HandlesSettle
    FadingNoted
