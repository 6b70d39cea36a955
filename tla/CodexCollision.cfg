\* Two containers write the request for one board at the same time.
CONSTANTS
  Caller <- MCCaller
  Asks <- MCAsks
  Timeout <- MCTimeout
  LastContext <- MCLastContext
  LastMinute = 3
  Stale = 1
  MaxFaults = 1
SPECIFICATION Spec
INVARIANT WritesDoNotCollide
CHECK_DEADLOCK FALSE
