SPECIFICATION FairSpec
CONSTANTS
  pick = pick
  claim = claim
  add = add
  loop = loop
  script = script
  mac = mac
  NoId = NoId
  NoCommand = NoCommand
  Command = {add}
  Agent = {loop}
  AgentIds = {mac}
  IdOf <- MCSharedId
  Planned = {add}
  Acquisition = {add}
  FreeAgentAdd = {add}
  Retryable = {add}
  NeedsApproval = {}
  NotBefore <- MCStart
  ExpiresAt <- MCEarlyEnd
  LeaseTicks = 1
  RetryLimit = 2
  MaxNow = 2
  Faults = FALSE
PROPERTIES FreeAgentAddSettles
CHECK_DEADLOCK FALSE
