SPECIFICATION CoordSpec
CONSTANTS
  MinSplit = 2
  MaxSegments = 3
  Workers = {1, 2}
  MaxTotal = 4
  MaxChunk = 2
  Drift = 0
  Pinned = TRUE
  DbFaults = FALSE
  MaxFaults = 2
  Starts <- ProbedOrHint
  InitialTotal = 3
  Probes = {}
  Plan = 2
  MaxAllowed = 2
  MaxExpansions = 1
  RampRace = FALSE
  LateStatements = FALSE
  MayPause = FALSE
  MaxRestarts = 0
INVARIANTS
  Layout
  CompletedMeansWritten
  RowsTrustworthy
