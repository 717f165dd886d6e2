SPECIFICATION Spec
CONSTANTS
    h1 = h1
    h2 = h2
    v1 = v1
    v2 = v2
    v3 = v3
    v4 = v4
    Handle = {h1, h2}
    Version = {v1, v2, v3, v4}
    NoVersion = NoVersion
    NoHandle = NoHandle
    MaxDeprecated = 1
    MaxFaults = 1
SYMMETRY Symmetry
INVARIANTS
    LinksSound
    AckedCasExclusive
    AckedStaysLinked
PROPERTY CasNeverRedirects
