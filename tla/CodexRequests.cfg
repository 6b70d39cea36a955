\* Two callers, two boards, three minutes, two deaths or stalls, fairness.
CONSTANTS
  Caller <- MCCaller
  Asks <- MCDrafting
  Timeout <- MCDraftTimeout
  LastContext <- MCBoards
  LastMinute = 3
  Stale = 1
  MaxFaults = 2
SPECIFICATION FairSpec
INVARIANTS RunsAgainOnlyAfterLoss OneAnswerPerBoard
PROPERTIES OnlyStalledRunsAreKilled RequestsAreAnswered
CHECK_DEADLOCK FALSE
