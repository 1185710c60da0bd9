SPECIFICATION WorkerSpec
CONSTANTS
    NumSteps = 2
    Ordinals = {0, 2}
    Int32Span = 8
    NoPlan = NoPlan
    MaxGeneration = 2
    MaxPlans = 3
    MaxFaults = 1
INVARIANTS
    TypeOK
    NoLostWakeup
    EnsuredBelowNext
PROPERTIES
    StepsRunInOrder
    NoStepRunsBackwards
    ImplementsPlanStatus
    EventuallySettled
    OutdatedPlansAreDropped
CHECK_DEADLOCK FALSE
