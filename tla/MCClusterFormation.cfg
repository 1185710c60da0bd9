SPECIFICATION FairSpec
INVARIANTS
    TypeOK
    ReplicasBeforeSlots
    VerifiedViewsAgree
    EndsHaveCauses
PROPERTIES
    CreationEnds
CONSTANTS
    a = a
    r1 = r1
    r2 = r2
    Nodes <- MCNodes
    Ordinal <- MCOrdinal
    NoNode = NoNode
    Slots = {1, 2}
    Plans <- MCPlans
    Shards = 1
    ReplicasPerShard = 2
    BatchSize = 1
    MaxFaults = 1
CHECK_DEADLOCK FALSE
