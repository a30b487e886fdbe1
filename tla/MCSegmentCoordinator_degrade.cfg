SPECIFICATION CoordSpec
CONSTANTS
  MinSplit = 2
  MaxSegments = 3
  Workers = {1, 2, 3}
  MaxTotal = 3
  MaxChunk = 2
  Drift = 0
  Pinned = FALSE
  DbFaults = FALSE
  MaxFaults = 1
  Starts <- ProbedOnly
  InitialTotal = 3
  Probes = {}
  Plan = 3
  MaxAllowed = 3
  MaxExpansions = 0
  RampRace = TRUE
  LateStatements = FALSE
  MayPause = FALSE
  MaxRestarts = 0
INVARIANTS
  OneOwner
PROPERTIES
  SerialMeansAlone
  RunEnds
