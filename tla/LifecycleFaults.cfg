SPECIFICATION Spec
CONSTANTS
  add = add
  claim = claim
  NoCommand = NoCommand
  Command = {add, claim}
  Waiver = {claim}
  Decisions <- Single
  ExpiresAt <- Window1
  Grace = 1
  LeaseTicks = 1
  RetryLimit = 2
  MaxNow = 2
  Troubles = {{"faults", "profiles"}, {"retries"}}
INVARIANTS
  AnnouncedBeforeReported
  CompletionIsTrue
PROPERTIES
  InFlightIsNewer
  OnlyRetriedInFlight
CHECK_DEADLOCK FALSE
