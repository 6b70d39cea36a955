\* A swap retained from an older plan is carried out before the swaps it relies on.
SPECIFICATION MCSpec
CONSTANTS
  \* reserve
  Athlete = {1, 2, 3}
  Injury = {"IR", "OUT", "SUS", "ACTIVE"}
  Flagged = {"OUT", "SUS"}
  Capacity = 1
  MaxTurns = 1
  \* pending claims
  Wanted = {"x", "z"}
  Given = {"y"}
  NoDrop = "none"
  AgentMade <- MCAgentMade
  Unresolved <- MCUnresolved
  MaxQueue = 3
  MaxEdits = 1
  MaxRows = 1
  \* trades
  Us = "us"
  Rival = {"a", "b"}
  Held0 <- MCHeld0
  Swap <- MCSwap
  MaxPerWeek = 2
  MaxTradeRows = 2
  MaxTradeTurns = 1
  \* lineup
  Slots <- MCSlots
  Positions <- MCPositions
  FirstLineup <- MCFirstLineup
  Playing = {"d"}
  MaxSwapRows = 2
  MaxLineupTurns = 1
  \* acquisitions
  FirstSquad = {"p"}
  Pool = {"x", "y"}
  Mechanism0 <- MCMechanism0
  NobodyOut = "nobody"
  SquadSize = 2
  Churn = {"p"}
  Wordings = {1, 2}
  MaxAcqRows = 2
  MaxAcqTurns = 1
PROPERTY ScheduledPlanIsCarriedOut
CHECK_DEADLOCK FALSE
