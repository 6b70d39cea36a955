SPECIFICATION Spec
CONSTANTS
  pick = pick
  claim = claim
  add = add
  loop = loop
  script = script
  mac = mac
  NoId = NoId
  NoCommand = NoCommand
  Command = {claim}
  Agent = {loop}
  AgentIds = {mac}
  IdOf <- MCSharedId
  Planned = {claim}
  Acquisition = {claim}
  FreeAgentAdd = {}
  Retryable = {claim}
  NeedsApproval = {}
  NotBefore <- MCStart
  ExpiresAt <- MCEnd
  LeaseTicks = 1
  RetryLimit = 3
  MaxNow = 3
  Faults = TRUE
INVARIANTS AtMostOneClick BlockedProofIsTrue HolderIsCurrent ActionMirrorsCommand
PROPERTIES ImplementsWriteOnce
CHECK_DEADLOCK FALSE
