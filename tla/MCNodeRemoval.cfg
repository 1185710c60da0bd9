SPECIFICATION MCSpec
INVARIANTS
    TypeOK
    SlotOwnersStay
    LastReplicaStays
    FailuresHaveCauses
PROPERTIES
    RemovalEnds
CONSTANTS
    Members = {a, b, t}
    Target = t
    First = a
    Second = b
    Leftovers = {l}
    Strangers = {}
    NoNode = NoNode
    MaxFaults = 1
CHECK_DEADLOCK FALSE
