SPECIFICATION IntactSpec
CONSTANTS
    Pods = {0, 1, 2, 3, 4, 5, 6, 7, 8}
    Observed = {0, 1, 2, 3}
    Ghosts = {}
    Slots = {0, 1, 2, 3, 4}
    NoKey = NoKey
    OpenSlots = FALSE
    MaxShards = 3
    MaxReplicas = 2
INVARIANTS
    SlotsAreBalanced
    OneShardReplacedAtATime
PROPERTIES
    OneChangeIsAccepted
    RedundancyKept
CHECK_DEADLOCK FALSE
