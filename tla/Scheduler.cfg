SPECIFICATION Spec
CONSTANTS
    MaxId = 2
    MaxTime = 2
    MaxFault = 1
    Delays = {1}
    LockWait = 1
    Capacity = 1
INVARIANTS NoScheduleIsForgotten OneShotsAreSettledOnce OccurrencesAreTimely
PROPERTY OneShotsAreSettled
CHECK_DEADLOCK FALSE
