SPECIFICATION HttpSpec
CONSTANTS
  p1 = p1
  p2 = p2
  Sys = Sys
  Proxy = Proxy
  Pinned <- MCPinned
  KickStreak = 2
  Starts <- Usual
  MaxVersion = 3
  MaxFaults = 2
  MaxStops = 1
SYMMETRY Symmetry
INVARIANTS
  HttpTypeOK
  DoneMeansOneVersion
  
PROPERTIES
  FlagMeansFailures
  
CHECK_DEADLOCK FALSE
