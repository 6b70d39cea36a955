SPECIFICATION HistorySpec
CONSTANTS
  pick = pick
  claim = claim
  add = add
  loop = loop
  script = script
  mac = mac
  NoId = NoId
  NoCommand = NoCommand
  Command = {claim}
  Agent = {loop}
  AgentIds = {mac}
  IdOf <- MCSharedId
  Planned = {claim}
  Acquisition = {claim}
  FreeAgentAdd = {}
  Retryable = {claim}
  NeedsApproval = {}
  NotBefore <- MCStart
  ExpiresAt <- MCEarlyEnd
  LeaseTicks = 1
  RetryLimit = 2
  MaxNow = 3
  Faults = FALSE
PROPERTIES SupersededIsNotClicked
CHECK_DEADLOCK FALSE
