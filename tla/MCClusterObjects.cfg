SPECIFICATION FairSpec
INVARIANTS
    TypeOK
    ReadyNodesAreConfigured
PROPERTIES
    FailuresHaveCauses
    OthersAreKept
    DeletionEnds
CONSTANTS
    NoPod = NoPod
    MaxImages = 2
    MaxFaults = 2
CHECK_DEADLOCK FALSE
