SPECIFICATION FairSpec
CONSTANTS
    Messages = {m1}
    Workers = {w1, w2}
    NoMessage = NoMessage
    MaxAttempts = 2
    RetryDelay <- MCRetryDelay
    Lease = 3
    CycleTimeout = 2
    BatchSize = 1
    MaxCopies = 2
    MaxFaults = 2
CHECK_DEADLOCK FALSE
INVARIANTS
    ExclusiveDispatch
PROPERTIES
    DeliveryNeverRegresses
    EveryMessageSettles
    KnownIdsResolve
    KeepsPromise
