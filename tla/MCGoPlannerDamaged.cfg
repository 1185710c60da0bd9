SPECIFICATION DamagedSpec
CONSTANTS
    Pods = {0, 1, 2, 3, 4}
    Observed = {0, 1, 2}
    Ghosts = {g0}
    Slots = {0, 1}
    NoKey = NoKey
    OpenSlots = FALSE
    MaxShards = 2
    MaxReplicas = 1
INVARIANTS
    AcceptedPlansFinish
    NothingIsCreatedTwice
CHECK_DEADLOCK FALSE
