SPECIFICATION FeedSpec
CONSTANTS
  m1 = m1
  a = a
  b = b
  w1 = w1
  none = none
  nobody = nobody
  Operational = {}
  Trash <- MCTrash
  WithImage <- MCImage
  Event = {}
  Priority <- MCPriority
  Worker = {w1}
  Nothing = none
  AttemptLimit = 1
  BackoffCap = 2
  DailyLimit = 1
  DayTicks = 3
  MaxNow = 4
  MaxCrashes = 0
  Lossy = FALSE
  Matchup = {m1}
  Team <- MCTeam
  Fact <- MCFact
  FactTarget <- MCFactTarget
  NoTeam = nobody
  Quality <- MCQuality
  StableTicks = 1
  Cooldown = 1
  FeedDaily = 2
  FeedWeekly = 3
  TargetWeekly = 2
  WeekDays = 2
  Quiet = {2}
  AutoPost = TRUE
INVARIANTS FeedWithinLimits LeadIsHeld
PROPERTIES QueuedWithConsent
CHECK_DEADLOCK FALSE
