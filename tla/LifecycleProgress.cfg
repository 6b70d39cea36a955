SPECIFICATION FairSpec
CONSTANTS
  add = add
  claim = claim
  NoCommand = NoCommand
  Command = {add, claim}
  Waiver = {claim}
  Decisions <- Single
  ExpiresAt <- Window2
  Grace = 2
  LeaseTicks = 1
  RetryLimit = 1
  MaxNow = 3
  Troubles = {{}}
PROPERTIES
  UncertainWriteSettles
  OutcomeReachesManager
CHECK_DEADLOCK FALSE
