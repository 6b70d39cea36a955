SPECIFICATION Spec
CONSTANTS
  pick = pick
  claim = claim
  add = add
  loop = loop
  script = script
  mac = mac
  NoId = NoId
  NoCommand = NoCommand
  Command = {claim}
  Agent = {loop, script}
  AgentIds = {mac}
  IdOf <- MCSharedId
  Planned = {claim}
  Acquisition = {claim}
  FreeAgentAdd = {}
  Retryable = {claim}
  NeedsApproval = {}
  NotBefore <- MCStart
  ExpiresAt <- MCEnd
  LeaseTicks = 1
  RetryLimit = 2
  MaxNow = 2
  Faults = FALSE
INVARIANTS BlockedProofIsTrue
CHECK_DEADLOCK FALSE
