SPECIFICATION Spec
CONSTANTS
    Pods = {p0, p1}
    Ghosts = {g0}
    Slots = {s1, s2}
    NoKey = NoKey
    OpenSlots = TRUE
SYMMETRY PodSymmetry
INVARIANTS
    TypeOK
    OwnerIndexExact
    OwnersAreMemberMasters
    AcceptedClusterIsWhole
PROPERTY
    SlotsMoveToReplicatedMasters
CHECK_DEADLOCK FALSE
