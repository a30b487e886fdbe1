SPECIFICATION LinkSpec
CONSTANTS
  a = a
  b = b
  c1 = c1
  c2 = c2
  NoCode = NoCode
  Devices <- MCDevices
  Codes <- MCCodes
  CodeTtl = 2
  Window = 1
  SessionTtl = 3
  MaxPending = 1
  DbFaults = TRUE
  MaxClock = 4
  MaxCrashes = 1
SYMMETRY Symmetry
INVARIANTS
  LinkTypeOK
  PairedByBoth
  SecretsAgree
CHECK_DEADLOCK FALSE
