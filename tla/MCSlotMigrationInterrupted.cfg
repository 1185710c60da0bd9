SPECIFICATION OwnedFairSpec
PROPERTIES
    InterruptedMigrationEnds
CONSTANTS
    Source = src
    Target = tgt
    Others = {n1}
    NoNode = NoNode
    Slots = {s1}
    FullCoverage = TRUE
    PerReconcile = 2
    MaxKeys = 1
    MaxFaults = 1
CHECK_DEADLOCK FALSE
