\* A plan cached before the kickoff of a starter, validated after it.
CONSTANTS
  Caller <- MCCaller
  Asks <- MCAsks
  Timeout <- MCTimeout
  LastContext <- MCLastContext
  LastMinute = 3
  Stale = 1
  MaxFaults = 1
SPECIFICATION Spec
INVARIANT CachedPlanIsUsable
CHECK_DEADLOCK FALSE
