SPECIFICATION ScalingSpec
CONSTANTS
    Pods = {p0, p1, p2}
    Ghosts = {}
    Slots = {s1}
    NoKey = NoKey
    OpenSlots = FALSE
PROPERTY
    OwnersKeepReplicas
CHECK_DEADLOCK FALSE
