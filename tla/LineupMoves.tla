----------------------------- MODULE LineupMoves -----------------------------
(***************************************************************************)
(* The lineup: the expert names a complete target, the compiler reduces it *)
(* to single swaps whose starter arrays form a chain, one synchronisation  *)
(* puts them into the outbox and the browser agent clicks them one by one, *)
(* each only when the public starters are the ones its swap starts from.   *)
(* Meanwhile the owner changes the lineup or cancels a swap, and kickoffs  *)
(* close the window.                                                       *)
(***************************************************************************)
EXTENDS Integers, Sequences, SequencesExt

CONSTANTS
  Slots,           \* the league's starter_slots
  Positions,       \* the positions of every player of our roster
  FirstLineup,     \* the starters at the beginning
  Playing,         \* the players whose games start during a behaviour
  MaxSwapRows,     \* bound: commands after which the expert is no longer asked
  MaxLineupTurns   \* bound: acts of the owner

Squad == DOMAIN Positions
Lineups == {l \in [DOMAIN Slots -> Squad] : IsInjective(l)}

ASSUME LineupAssumption ==
  /\ Slots \in Seq(STRING) /\ Slots # <<>>
  /\ Positions \in [Squad -> SUBSET STRING]
  /\ FirstLineup \in Lineups /\ Playing \subseteq Squad
  /\ {MaxSwapRows, MaxLineupTurns} \subseteq Nat

VARIABLES
  lineup,       \* the starters at Sleeper
  knownLineup,  \* the starters in the manager's context
  closing,      \* players whose game starts within five minutes, or has
  kickedOff,    \* players whose game has started: Sleeper locks them
  swapPlan,     \* what the running pass compiled; FALSE between two passes
  swapRows,     \* the SET_LINEUP commands, oldest first
  setter,       \* the browser agent
  promise,      \* the plan last reported scheduled, while nobody interferes
  lineupTurns

lineupVars == <<lineup, knownLineup, closing, kickedOff, swapPlan, swapRows, setter, promise, lineupTurns>>

NoPass == [on |-> FALSE]
NoPromise == [swaps |-> {}, fresh |-> FALSE, quiet |-> FALSE]
SetterIdle == [stage |-> "idle"]

\* _eligible_for_slot
EligibleFor(p, slot) ==
  IF slot = "FLEX" THEN Positions[p] \cap {"RB", "WR", "TE"} # {} ELSE slot \in Positions[p]

LegalLineup(l) == \A i \in DOMAIN Slots : EligibleFor(l[i], Slots[i])

PlaceOf(l, p) == {i \in DOMAIN l : l[i] = p}

\* The lineup with p in slot i; the player it replaces takes p's old place.
SwappedIn(l, i, p) == [j \in DOMAIN l |-> IF j = i THEN p ELSE IF l[j] = p THEN l[i] ELSE l[j]]

LineupInit ==
  /\ lineup = FirstLineup /\ knownLineup = FirstLineup
  /\ closing = {} /\ kickedOff = {}
  /\ swapPlan = NoPass /\ swapRows = <<>> /\ setter = SetterIdle
  /\ promise = NoPromise
  /\ lineupTurns = 0

-----------------------------------------------------------------------------
(* The manager.                                                            *)

SwapAt(now, i, p) ==
  [into |-> i, out |-> now[i], in |-> p,
   label |-> IF PlaceOf(now, p) = {} THEN "BN" ELSE Slots[CHOOSE j \in PlaceOf(now, p) : TRUE],
   before |-> now, after |-> SwappedIn(now, i, p)]

\* Mutant: a slot that is right already gets its swap as well.
AlreadyRightNever(now, target, i) == FALSE

AlreadyRight(now, target, i) == now[i] = target[i]

\* compile_lineup_swaps: slot by slot, each swap on the lineup the previous
\* one leaves.
CompileSwaps(current, target) ==
  LET step(acc, i) ==
        IF AlreadyRight(acc.now, target, i) THEN acc
        ELSE [now |-> SwappedIn(acc.now, i, target[i]),
              swaps |-> Append(acc.swaps, SwapAt(acc.now, i, target[i]))]
  IN FoldLeft(step, [now |-> current, swaps |-> <<>>], [i \in DOMAIN Slots |-> i]).swaps

\* validate_decision: a complete legal lineup that moves no locked player.
LineupPass ==
  /\ ~swapPlan.on /\ Len(swapRows) < MaxSwapRows
  /\ \E target \in Lineups :
       /\ LegalLineup(target)
       /\ \A i \in DOMAIN Slots : knownLineup[i] \in kickedOff => target[i] = knownLineup[i]
       /\ \A i \in DOMAIN Slots : target[i] \in kickedOff => target[i] = knownLineup[i]
       /\ swapPlan' = [on |-> TRUE, from |-> knownLineup, target |-> target, swaps |-> CompileSwaps(knownLineup, target)]
  /\ UNCHANGED <<lineup, knownLineup, closing, kickedOff, swapRows, setter, promise, lineupTurns>>

SwapPlanned(swap) == \E k \in DOMAIN swapPlan.swaps : swapPlan.swaps[k] = swap
RowsOf(swap) == {n \in DOMAIN swapRows : swapRows[n].swap = swap}
StatusIn(swap, statuses) == \E n \in RowsOf(swap) : swapRows[n].status \in statuses

Touched(swaps) == UNION {{swaps[k].out, swaps[k].in} : k \in DOMAIN swaps}

\* Untouched swaps that the new plan does not contain, all of them on a hold.
WithdrawSwaps ==
  [n \in DOMAIN swapRows |->
    IF swapRows[n].status = "ready" /\ ~SwapPlanned(swapRows[n].swap)
    THEN [swapRows[n] EXCEPT !.status = "blocked"] ELSE swapRows[n]]

\* The swaps before the first one whose command has already been decided: the
\* loop returns there, and what it queued before is committed.
Queueable ==
  LET new == SelectSeq(swapPlan.swaps, LAMBDA s : ~StatusIn(s, {"ready"}))
      used == {k \in DOMAIN new : RowsOf(new[k]) # {}}
  IN IF used = {} THEN new ELSE SubSeq(new, 1, (CHOOSE k \in used : \A j \in used : k <= j) - 1)

QueuedAs(swap) == [swap |-> swap, status |-> "ready", window |-> Touched(swapPlan.swaps)]
\* Mutant: the last swap is queued first.
NewSwapRowsReversed == [k \in DOMAIN Queueable |-> QueuedAs(Reverse(Queueable)[k])]
NewSwapRows == [k \in DOMAIN Queueable |-> QueuedAs(Queueable[k])]

LineupScheduled == \A k \in DOMAIN swapPlan.swaps : StatusIn(swapPlan.swaps[k], {"ready"}) \/ RowsOf(swapPlan.swaps[k]) = {}

LegalThroughout == \A k \in DOMAIN swapPlan.swaps : LegalLineup(swapPlan.swaps[k].after)

\* synchronize_lineup_actions; a swap counts as being executed between its
\* lease and its first report only.
SynchroniseLineup ==
  /\ swapPlan.on
  /\ swapPlan' = NoPass
  /\ LET busy == \E n \in DOMAIN swapRows : swapRows[n].status = "leased"
         cancelled == \E k \in DOMAIN swapPlan.swaps : StatusIn(swapPlan.swaps[k], {"cancelled"})
         closed == Touched(swapPlan.swaps) \cap closing # {}
     IN IF busy \/ cancelled THEN UNCHANGED <<swapRows, promise>>
        ELSE IF closed THEN swapRows' = WithdrawSwaps /\ promise' = NoPromise
        ELSE /\ swapRows' = WithdrawSwaps \o NewSwapRows
             /\ promise' = IF LineupScheduled /\ lineup = swapPlan.from /\ LegalThroughout
                           THEN [swaps |-> ToSet(swapPlan.swaps), fresh |-> Queueable = swapPlan.swaps, quiet |-> setter = SetterIdle]
                           ELSE NoPromise
  /\ UNCHANGED <<lineup, knownLineup, closing, kickedOff, setter, lineupTurns>>

LineupRefresh ==
  /\ knownLineup' = lineup
  /\ UNCHANGED <<lineup, closing, kickedOff, swapPlan, swapRows, setter, promise, lineupTurns>>

-----------------------------------------------------------------------------
(* The browser agent.                                                      *)

LeaseSwap ==
  /\ setter = SetterIdle
  /\ \E n \in DOMAIN swapRows :
       LET open(m) == swapRows[m].status = "ready" /\ swapRows[m].window \cap closing = {} IN
       /\ open(n) /\ \A m \in DOMAIN swapRows : m < n => ~open(m)
       /\ swapRows' = [swapRows EXCEPT ![n].status = "leased"]
       /\ setter' = [stage |-> "leased", row |-> n]
  /\ UNCHANGED <<lineup, knownLineup, closing, kickedOff, swapPlan, promise, lineupTurns>>

\* The report the loop sends before it looks at anything.
AnnounceSwap ==
  /\ setter.stage = "leased"
  /\ swapRows' = [swapRows EXCEPT ![setter.row].status = "preflight"]
  /\ setter' = [setter EXCEPT !.stage = "preflight"]
  /\ UNCHANGED <<lineup, knownLineup, closing, kickedOff, swapPlan, promise, lineupTurns>>

Swap1 == swapRows[setter.row].swap
SettleSwap(status) ==
  /\ swapRows' = [swapRows EXCEPT ![setter.row].status = status]
  /\ setter' = SetterIdle

PreflightLineup ==
  /\ setter.stage = "preflight"
  /\ IF lineup = Swap1.after THEN SettleSwap("verified")
     ELSE IF lineup # Swap1.before THEN SettleSwap("blocked")
     ELSE setter' = [setter EXCEPT !.stage = "seen"] /\ UNCHANGED swapRows
  /\ UNCHANGED <<lineup, knownLineup, closing, kickedOff, swapPlan, promise, lineupTurns>>

\* A control is named for the player and the kind of slot, not for its place.
ControlThere(p, label) ==
  IF label = "BN" THEN PlaceOf(lineup, p) = {} ELSE \E i \in PlaceOf(lineup, p) : Slots[i] = label

\* setLineup and the verification; Sleeper refuses a locked player and a slot
\* the player may not take.
SetLineup ==
  /\ setter.stage = "seen"
  /\ LET i == CHOOSE i \in PlaceOf(lineup, Swap1.out) : TRUE
         found == ControlThere(Swap1.in, Swap1.label) /\ ControlThere(Swap1.out, Slots[Swap1.into])
         taken == found /\ {Swap1.in, Swap1.out} \cap kickedOff = {} /\ LegalLineup(SwappedIn(lineup, i, Swap1.in))
     IN /\ lineup' = IF taken THEN SwappedIn(lineup, i, Swap1.in) ELSE lineup
        /\ SettleSwap(IF lineup' = Swap1.after THEN "verified" ELSE "unverified")
  /\ UNCHANGED <<knownLineup, closing, kickedOff, swapPlan, promise, lineupTurns>>

-----------------------------------------------------------------------------
(* The owner and the kickoffs.                                             *)
LineupTurn == lineupTurns < MaxLineupTurns /\ lineupTurns' = lineupTurns + 1

OwnerSwaps ==
  /\ LineupTurn
  /\ \E i \in DOMAIN Slots, p \in Squad :
       /\ p # lineup[i] /\ {p, lineup[i]} \cap kickedOff = {}
       /\ LegalLineup(SwappedIn(lineup, i, p))
       /\ lineup' = SwappedIn(lineup, i, p)
  /\ promise' = NoPromise
  /\ UNCHANGED <<knownLineup, closing, kickedOff, swapPlan, swapRows, setter>>

OwnerCancels ==
  /\ LineupTurn
  /\ \E n \in DOMAIN swapRows :
       swapRows[n].status = "ready" /\ swapRows' = [swapRows EXCEPT ![n].status = "cancelled"]
  /\ promise' = NoPromise
  /\ UNCHANGED <<lineup, knownLineup, closing, kickedOff, swapPlan, setter>>

KickoffNears ==
  /\ \E p \in Playing \ closing : closing' = closing \cup {p}
  /\ promise' = NoPromise
  /\ UNCHANGED <<lineup, knownLineup, kickedOff, swapPlan, swapRows, setter, lineupTurns>>

GameStarts ==
  /\ \E p \in closing \ kickedOff : kickedOff' = kickedOff \cup {p}
  /\ UNCHANGED <<lineup, knownLineup, closing, swapPlan, swapRows, setter, promise, lineupTurns>>

LineupNext ==
  \/ LineupPass \/ SynchroniseLineup \/ LineupRefresh
  \/ LeaseSwap \/ AnnounceSwap \/ PreflightLineup \/ SetLineup
  \/ OwnerSwaps \/ OwnerCancels \/ KickoffNears \/ GameStarts

LineupSpec == LineupInit /\ [][LineupNext]_lineupVars

-----------------------------------------------------------------------------
(* What a shortest way is: the lineups one, two, ... swaps away.           *)
WithinSwaps(from, n) ==
  LET around[k \in 0 .. n] ==
        IF k = 0 THEN {from}
        ELSE UNION {{SwappedIn(l, i, p) : i \in DOMAIN Slots, p \in Squad} : l \in around[k - 1]}
  IN around[n]

(* "The lineup compiler displays the minimum exact swap sequence"          *)
(* (architecture.md): the swaps lead to the target, and no shorter         *)
(* sequence of swaps does.                                                 *)
MinimumSequence ==
  [][swapPlan'.on /\ ~swapPlan.on =>
       LET n == Len(swapPlan'.swaps) IN
       /\ n = 0 \/ swapPlan'.swaps[n].after = swapPlan'.target
       /\ n > 0 => swapPlan'.target \notin WithinSwaps(knownLineup, n - 1)]_lineupVars

SwapRefused == setter.stage = "preflight" /\ swapRows'[setter.row].status = "blocked"

(* "Every step carries full expected starter arrays before and after the   *)
(* click, refuses changed state" (in-season-data-plan.md).  A step must    *)
(* not refuse what its own predecessors changed: while only the agent      *)
(* touches the lineup, no swap of a plan that was queued for the actual    *)
(* lineup, and while no swap was executed, is refused at its preflight; an *)
(* exchange of two starters may put a player into a slot that only the     *)
(* next swap makes right, and is left out here.                            *)
FreshPlanIsCarriedOut ==
  [][SwapRefused => ~(promise.fresh /\ promise.quiet /\ Swap1 \in promise.swaps)]_lineupVars

(* "A lineup command is already being executed"                            *)
(* (in_season_execution.py) is the reason not to queue a plan: no swap of  *)
(* a new plan is refused because it was queued while the swap of an older  *)
(* one was being executed.                                                 *)
PlanAwaitsTheExecution ==
  [][SwapRefused => ~(promise.fresh /\ Swap1 \in promise.swaps)]_lineupVars

(* "The backend compiles a target lineup into ordered, single-swap         *)
(* commands" (README.md): the same of every plan reported as scheduled,    *)
(* also when some of its swaps are retained from an older plan.            *)
ScheduledPlanIsCarriedOut ==
  [][SwapRefused => ~(promise.quiet /\ Swap1 \in promise.swaps)]_lineupVars
=============================================================================
