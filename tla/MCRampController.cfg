SPECIFICATION RampSpec
CONSTANTS
    TTL = 1
    HintCeiling = 4
    Plans = {1, 3}
    FirstWorkers = 1
    ShrinkStrikes = 2
    Cooldown = 1
    MaxAttempts = 2
    ProbeBudget = 2
    MaxExpansions = 1
    Elsewhere = {1, 2}
    MaxRuns = 1
    MaxEvents = 1
    MaxClock = 1
INVARIANT RampTypeOK
INVARIANT SoftNeverCreeps
PROPERTY StartsUnderRefusals
PROPERTY HardNeverGrows
CHECK_DEADLOCK FALSE
