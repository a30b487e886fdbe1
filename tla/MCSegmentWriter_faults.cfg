SPECIFICATION WriterSpec
CONSTANTS
  w1 = w1
  w2 = w2
  Workers <- MCWorkers
  MinSyncGap = 2
  MaxOffset = 2
  MaxTime = 3
  SyncFaults = TRUE
  FlushFaults = FALSE
  DbFaults = TRUE
  MaxFails = 0
  MaxRestarts = 0
INVARIANTS
  WatermarksAreDurable
  
  AnswerCoversSnapshot
  CoveringAnswerIsFresh
PROPERTIES
  EveryCallReturns
