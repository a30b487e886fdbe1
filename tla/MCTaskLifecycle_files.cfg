SPECIFICATION LifecycleSpec
CONSTANTS
    a = a
    b = b
    c = c
    shared = shared
    other = other
    NoTask = NoTask
    Tasks = {a, b}
    BaseName <- SameName
    QueueOf <- OneQueue
    QueueMax <- SharedHoldsOne
    Limits = {1, 2}
    InitialLimits = {1, 2}
    MaxRetries = 0
    Ops = {"pause", "resume", "delete", "restart", "boost", "crash", "later"}
    MaxCalls = 2
    Errors = {"failed", "rejected"}
    LateReports = TRUE
    SlowExit = FALSE
INVARIANT QueueIsSound
INVARIANT SlotsAreLive
INVARIANT ReservationsExact
PROPERTY BoostEndsWithItsRun
PROPERTY EntriesLeaveWithTheirRun
CHECK_DEADLOCK FALSE
