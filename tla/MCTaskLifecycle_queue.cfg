SPECIFICATION LifecycleSpec
CONSTANTS
    a = a
    b = b
    c = c
    shared = shared
    other = other
    NoTask = NoTask
    Tasks = {a, b, c}
    BaseName <- OwnNames
    QueueOf <- TwoQueues
    QueueMax <- SharedHoldsOne
    Limits = {2, 3}
    InitialLimits = {2}
    MaxRetries = 1
    Ops = {"pause", "cancel", "limit", "delete"}
    MaxCalls = 1
    Errors = {"failed"}
    LateReports = FALSE
    SlowExit = TRUE
INVARIANT NoIdleSlot
PROPERTY StartsWithinLimits
PROPERTY QueueMoves
CHECK_DEADLOCK FALSE
