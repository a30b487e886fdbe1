SPECIFICATION WriterSpec
CONSTANTS
  w1 = w1
  w2 = w2
  Workers <- MCWorkers
  MinSyncGap = 2
  MaxOffset = 2
  MaxTime = 3
  SyncFaults = FALSE
  FlushFaults = TRUE
  DbFaults = FALSE
  MaxFails = 1
  MaxRestarts = 1
SYMMETRY Symmetry
INVARIANTS
  DbNotAheadOfDisk
  
PROPERTIES
  ImplementsDurableProgress
