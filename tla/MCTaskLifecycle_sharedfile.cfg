SPECIFICATION LifecycleSpec
CONSTANTS
    a = a
    b = b
    c = c
    shared = shared
    other = other
    NoTask = NoTask
    Tasks = {a, b}
    BaseName <- SameName
    QueueOf <- OneQueue
    QueueMax <- SharedHoldsOne
    Limits = {1}
    InitialLimits = {1}
    MaxRetries = 0
    Ops = {"pause", "resume"}
    MaxCalls = 2
    Errors = {"failed"}
    LateReports = FALSE
    SlowExit = FALSE
INVARIANT OneWriterPerFile
CHECK_DEADLOCK FALSE
