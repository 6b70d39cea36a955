\* The evidence of decisions and writes, its schedule, and the projection quota.
SPECIFICATION MCSpec
CONSTANTS
  \* evidence
  Syncer = {scheduler, operator}
  Roster = {r1, r2}
  LastWeek = 2
  SleeperAge = 0
  NflverseAge = 1
  BrowserAge = 0
  PeriodCache = 0
  JobTime = 1
  MaxNow = 2
  \* schedule
  Every <- MCEvery
  MaxAge <- MCMaxAge
  ExpertRetry = 1
  ExpertTime = 1
  MaxClock = 8
  \* quota
  DailyLimit = 2
  Reserve = 1
  PerSync = 2
  Window = 3
  Slack = 1
  CacheAge = 1
  Cooldown = 2
  LastHour = 4
SYMMETRY MCSymmetry
INVARIANTS AllowsOnlyTheCurrentState AllowsOnlyFreshReports SourcesRecover QuotaHolds
CHECK_DEADLOCK FALSE
