SPECIFICATION CoordSpec
CONSTANTS
  MinSplit = 2
  MaxSegments = 3
  Workers = {1, 2}
  MaxTotal = 3
  MaxChunk = 2
  Drift = 1
  Pinned = FALSE
  DbFaults = TRUE
  MaxFaults = 0
  Starts <- ProbedOnly
  InitialTotal = 2
  Probes = {3}
  Plan = 2
  MaxAllowed = 2
  MaxExpansions = 0
  RampRace = FALSE
  LateStatements = TRUE
  MayPause = TRUE
  MaxRestarts = 1
INVARIANTS
  
  RowsRecoverable
  ValidationIsExact
