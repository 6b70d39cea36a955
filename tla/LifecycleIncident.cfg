SPECIFICATION Spec
CONSTANTS
  add = add
  claim = claim
  NoCommand = NoCommand
  Command = {add, claim}
  Waiver = {claim}
  Decisions <- Single
  ExpiresAt <- Window2
  Grace = 2
  LeaseTicks = 1
  RetryLimit = 3
  MaxNow = 3
  Troubles = {{"retries"}}
INVARIANT IncidentIsAboutWrites
CHECK_DEADLOCK FALSE
