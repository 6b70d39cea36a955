\* The monitor and the scheduler.
CONSTANTS
  Room = {monitor, scheduler}
  Player = {a, b, c}
  NoPlayer = NoPlayer
  Teams = 2
  Rounds = 2
  LastPick = 3
  OwnerSlot = 2
  Timer = 3
  SubmitRemaining = 2
  Safety = 1
SPECIFICATION Spec
SYMMETRY Symmetry
INVARIANTS OneDraftPerBoard StalePickOnlyAfterRelease DraftsInTheLastSeconds
CHECK_DEADLOCK FALSE
