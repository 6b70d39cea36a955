SPECIFICATION FairSpec
CONSTANTS
  pick = pick
  claim = claim
  add = add
  loop = loop
  script = script
  mac = mac
  NoId = NoId
  NoCommand = NoCommand
  Command = {pick, add}
  Agent = {loop}
  AgentIds = {mac}
  IdOf <- MCSharedId
  Planned = {add}
  Acquisition = {add}
  FreeAgentAdd = {add}
  Retryable = {add}
  NeedsApproval = {pick}
  NotBefore <- MCStart
  ExpiresAt <- MCEarlyEnd
  LeaseTicks = 1
  RetryLimit = 2
  MaxNow = 3
  Faults = FALSE
PROPERTIES HeldCommandSettles
CHECK_DEADLOCK FALSE
