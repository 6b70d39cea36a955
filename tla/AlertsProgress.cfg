SPECIFICATION FairSpec
CONSTANTS
  alert = alert
  other = other
  card = card
  sync = sync
  w1 = w1
  w2 = w2
  none = none
  Operational = {alert, other}
  Trash = {}
  WithImage = {}
  Event = {sync}
  Priority <- MCPriority
  Worker = {w1}
  Nothing = none
  AttemptLimit = 2
  BackoffCap = 2
  DailyLimit = 1
  DayTicks = 2
  MaxNow = 2
  MaxCrashes = 1
  Lossy = TRUE
INVARIANTS RepeatsOnlyTheUnrecorded DailyLimitHolds AttemptsAreCounted
PROPERTIES AlertsSettle
CHECK_DEADLOCK FALSE
