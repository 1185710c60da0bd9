SPECIFICATION Spec
INVARIANTS
    TypeOK
    OneClaimant
    RedirectsServed
    CompletedMeansMoved
CONSTANTS
    Source = src
    Target = tgt
    Others = {n1, n2}
    NoNode = NoNode
    Slots = {s1, s2}
    FullCoverage = TRUE
    PerReconcile = 2
    MaxKeys = 1
    MaxFaults = 2
SYMMETRY Symmetry
CHECK_DEADLOCK FALSE
