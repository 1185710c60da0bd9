SPECIFICATION AgreedFairSpec
PROPERTIES
    FailuresHaveCauses
    MigrationEnds
CONSTANTS
    Source = src
    Target = tgt
    Others = {n1}
    NoNode = NoNode
    Slots = {s1, s2}
    FullCoverage = FALSE
    PerReconcile = 2
    MaxKeys = 1
    MaxFaults = 2
CHECK_DEADLOCK FALSE
