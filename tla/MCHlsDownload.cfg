SPECIFICATION HlsSpec
CONSTANTS
    Count = 2
    Concurrency = 1
    DbFaults = FALSE
    MaxEdition = 2
    MaxFaults = 1
    MaxCrashes = 1
    MaxRuns = 2
CHECK_DEADLOCK FALSE
INVARIANTS
    
    MarkIsBoundary
PROPERTIES
    HlsRunEnds
