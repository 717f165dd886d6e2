SPECIFICATION Spec
CONSTANTS
    Node = {1, 2, 3, 4}
    Root = 1
    MaxDepth = 3
    MaxEdges = 4
    MaxVersions = 5
    Evidence = {e1}
    MaxAudited = 3
    MaxFacts = 1
    TopK = 1
    MaxMemories = 3
    MaxOpened = 1
    Records = 4
    MaxEpisode = 2
    MaxRuns = 2
CHECK_DEADLOCK FALSE
INVARIANTS
    SearchExact
    LineageConsistent
    AuditTells
    RecallExact
    EpisodesPartition
