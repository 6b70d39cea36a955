---------------------------- MODULE ReserveMoves ----------------------------
(***************************************************************************)
(* Injured reserve: the planner computes an exact chain of reserve arrays  *)
(* from the manager context, the synchronisation puts one command per link *)
(* into the outbox, and the browser agent carries them out one by one,     *)
(* each only when the public roster is the one the link starts from.  In   *)
(* between the owner moves players by hand and injury reports change.      *)
(*                                                                         *)
(* Leases, lost reports and cancellations are CommandOutbox's.  Between    *)
(* the server's answer and the click nobody else acts.                     *)
(***************************************************************************)
EXTENDS Integers, Sequences, FiniteSets, SequencesExt

CONSTANTS
  Athlete,   \* our players, numbered by overall_rank
  Injury,    \* the statuses an injury report can give
  Flagged,   \* what the league's reserve_allow_* settings admit
  Capacity,  \* reserve slots
  MaxTurns   \* bound: changes of the world during a behaviour

ASSUME ReserveAssumption ==
  /\ Athlete \subseteq Nat /\ Flagged \subseteq Injury
  /\ Capacity \in Nat \ {0} /\ MaxTurns \in Nat

VARIABLES
  sleeper,  \* the league as Sleeper and the injury reports have it
  context,  \* the league in the manager's reports
  reservePlan,  \* the actions of the running manager pass
  moves,    \* the MOVE_TO_IR and REMOVE_FROM_IR rows, by their action
  mover,    \* the browser agent
  turns     \* changes so far

reserveVars == <<sleeper, context, reservePlan, moves, mover, turns>>

Base == {"IR", "PUP", "NFI"}
\* What the outbox policy, the browser contract and the write boundary admit.
Supported == {"IR", "PUP", "NFI", "OUT"}

League == [roster : SUBSET Athlete, reserve : Seq(Athlete), injury : [Athlete -> Injury], locked : SUBSET Athlete]

Healthy(c) == {p \in Athlete : c.injury[p] \notin Base \cup Flagged}
OnReserve(c) == ToSet(c.reserve)

\* IR before PUP before the rest, then by rank.
Class(c, p) == CASE c.injury[p] = "IR" -> 0 [] c.injury[p] = "PUP" -> 1 [] OTHER -> 2
Before(c, p, q) == Class(c, p) < Class(c, q) \/ (Class(c, p) = Class(c, q) /\ p < q)

\* One link of the chain; the reserve before and after it are compared as sets.
Link(c, chain, type, player, after) ==
  [working |-> after,
   actions |-> Append(chain.actions,
     [type |-> type, player |-> player, observed |-> c.injury[player], players |-> c.roster,
      before |-> chain.working, after |-> after])]

\* The players that leave, in the order of the reserve; locked ones stay.
Leaver(c, chain, p) ==
  IF p \in Healthy(c) /\ p \notin c.locked THEN Link(c, chain, "REMOVE_FROM_IR", p, chain.working \ {p}) ELSE chain

\* The best candidate, while a slot is free.
Filler(c, chain) ==
  LET left == c.roster \ (chain.working \cup Healthy(c) \cup c.locked)
      best == CHOOSE p \in left : \A q \in left : q = p \/ Before(c, p, q)
  IN IF left # {} /\ Cardinality(chain.working) < Capacity
     THEN Link(c, chain, "MOVE_TO_IR", best, chain.working \cup {best}) ELSE chain

\* The two loops: over the reserve as it was, then over the slots.
BuildIrPlan(c) ==
  LET rounds == Len(c.reserve) + Capacity
      chain[k \in 0 .. rounds] ==
        IF k = 0 THEN [working |-> OnReserve(c), actions |-> <<>>]
        ELSE IF k <= Len(c.reserve) THEN Leaver(c, chain[k - 1], c.reserve[k]) ELSE Filler(c, chain[k - 1])
  IN chain[rounds].actions

Agent == [stage |-> "idle"]

\* A reserve that p has left.
Off(reserve, p) ==
  IF p \in ToSet(reserve) THEN RemoveAt(reserve, CHOOSE i \in DOMAIN reserve : reserve[i] = p) ELSE reserve

ReserveInit ==
  /\ \E onReserve \in Athlete, injury \in [Athlete -> Injury] :
       sleeper = [roster |-> Athlete, reserve |-> <<onReserve>>, injury |-> injury, locked |-> {}]
  /\ context = sleeper
  /\ reservePlan = <<>>
  /\ moves = [row \in {} |-> "none"]
  /\ mover = Agent
  /\ turns = 0

-----------------------------------------------------------------------------
(* The manager.                                                            *)

\* A pass reads the reports, and thinks for minutes before it synchronises.
Decide ==
  /\ reservePlan = <<>>
  /\ BuildIrPlan(context) # <<>>
  /\ reservePlan' = BuildIrPlan(context)
  /\ UNCHANGED <<sleeper, context, moves, mover, turns>>

\* _validate_ir; the planner's chain satisfies the rest of it.
Valid(action) == action.type = "MOVE_TO_IR" => action.observed \in Supported

\* The dedupe key is the content of the action: a row of any status answers
\* it.  Untouched rows of another plan are withdrawn.
Rows == DOMAIN moves
Planned == {reservePlan[k] : k \in DOMAIN reservePlan}
KeptRow(row) == IF moves[row].status = "ready" /\ row \notin Planned THEN [moves[row] EXCEPT !.status = "blocked"] ELSE moves[row]
NewRow(action) ==
  [status |-> "ready", batch |-> Cardinality(Rows), link |-> CHOOSE k \in DOMAIN reservePlan : reservePlan[k] = action]
Queued == [row \in Rows \cup Planned |-> IF row \in Rows THEN KeptRow(row) ELSE NewRow(row)]

\* synchronize_ir_actions: nothing between a lease and its first report; an
\* action the policy refuses raises, and the transaction leaves nothing behind.
Synchronise ==
  /\ reservePlan # <<>>
  /\ reservePlan' = <<>>
  /\ moves' =
       IF (\E row \in Rows : moves[row].status = "leased") \/ (\E action \in Planned : ~Valid(action))
         THEN moves ELSE Queued
  /\ UNCHANGED <<sleeper, context, mover, turns>>

Ingest ==
  /\ context # sleeper
  /\ context' = sleeper
  /\ UNCHANGED <<sleeper, reservePlan, moves, mover, turns>>

-----------------------------------------------------------------------------
(* The browser agent.                                                      *)

Older(row, other) ==
  \/ moves[row].batch < moves[other].batch
  \/ moves[row].batch = moves[other].batch /\ moves[row].link < moves[other].link

LeaseMove ==
  /\ mover = Agent
  /\ \E row \in Rows :
       /\ moves[row].status = "ready"
       /\ \A other \in Rows : Older(other, row) => moves[other].status # "ready"
       /\ moves' = [moves EXCEPT ![row].status = "leased"]
       /\ mover' = [stage |-> "leased", action |-> row]
  /\ UNCHANGED <<sleeper, context, reservePlan, turns>>

Held == mover.action
SettleMove(status) ==
  /\ moves' = [moves EXCEPT ![Held].status = status]
  /\ mover' = Agent

\* The report the loop sends before it looks at anything.
AnnounceMove ==
  /\ mover.stage = "leased"
  /\ moves' = [moves EXCEPT ![Held].status = "preflight"]
  /\ mover' = [mover EXCEPT !.stage = "preflight"]
  /\ UNCHANGED <<sleeper, context, reservePlan, turns>>

\* Mutant: only the player is compared.
SameReserveUnchecked(action) == action.type = "MOVE_TO_IR" => action.player \notin OnReserve(sleeper)

\* exactIdSet of the reserve against expected_reserve_before.
SameReserve(action) == OnReserve(sleeper) = action.before

\* preflightIr on the public roster.
PreflightIr ==
  /\ mover.stage = "preflight"
  /\ IF sleeper.roster # Held.players THEN SettleMove("blocked")
     ELSE IF OnReserve(sleeper) = Held.after THEN SettleMove("verified")
     ELSE IF ~SameReserve(Held) THEN SettleMove("blocked")
     ELSE mover' = [stage |-> "seen", action |-> Held, saw |-> OnReserve(sleeper)] /\ UNCHANGED moves
  /\ UNCHANGED <<sleeper, context, reservePlan, turns>>

\* _ir_state_blockers, on the manager's context and not on Sleeper.
IrStateBlocked(action) ==
  \/ context.roster # action.players
  \/ OnReserve(context) # action.before
  \/ action.player \notin context.roster \ context.locked
  \/ action.type = "MOVE_TO_IR" /\ context.injury[action.player] \notin Supported

\* The server's answer, the click and the verification.  The row control of a
\* player that is not where the command wants it is not there.
WriteIr ==
  /\ mover.stage = "seen"
  /\ LET p == Held.player
         possible == p \in sleeper.roster /\ (Held.type = "MOVE_TO_IR" <=> p \notin OnReserve(sleeper))
     IN IF IrStateBlocked(Held)
          THEN SettleMove("blocked") /\ UNCHANGED sleeper
        ELSE IF ~possible
          THEN SettleMove("unverified") /\ UNCHANGED sleeper
        ELSE /\ sleeper' = [sleeper EXCEPT !.reserve =
                  IF Held.type = "MOVE_TO_IR" THEN Append(@, p) ELSE Off(@, p)]
             /\ SettleMove(IF OnReserve(sleeper') = Held.after THEN "verified" ELSE "unverified")
  /\ UNCHANGED <<context, reservePlan, turns>>

-----------------------------------------------------------------------------
(* The world: the owner, the injury reports, kickoffs.                     *)

Turn == turns < MaxTurns /\ turns' = turns + 1

OwnerMoves ==
  /\ Turn
  /\ \E p \in sleeper.roster :
       sleeper' = [sleeper EXCEPT !.reserve =
         IF p \in OnReserve(sleeper) THEN Off(@, p)
         ELSE IF Len(@) < Capacity THEN Append(@, p) ELSE @]
  /\ UNCHANGED <<context, reservePlan, moves, mover>>

OwnerDrops ==
  /\ Turn
  /\ \E p \in sleeper.roster :
       sleeper' = [sleeper EXCEPT !.roster = @ \ {p}, !.reserve = Off(@, p)]
  /\ UNCHANGED <<context, reservePlan, moves, mover>>

ReportChanges ==
  /\ Turn
  /\ \E p \in sleeper.roster, s \in Injury : sleeper' = [sleeper EXCEPT !.injury[p] = s]
  /\ UNCHANGED <<context, reservePlan, moves, mover>>

Kickoff ==
  /\ Turn
  /\ \E p \in sleeper.roster : sleeper' = [sleeper EXCEPT !.locked = @ \cup {p}]
  /\ UNCHANGED <<context, reservePlan, moves, mover>>

ReserveNext ==
  \/ Decide \/ Synchronise \/ Ingest
  \/ LeaseMove \/ AnnounceMove \/ PreflightIr \/ WriteIr
  \/ OwnerMoves \/ OwnerDrops \/ ReportChanges \/ Kickoff

ReserveSpec == ReserveInit /\ [][ReserveNext]_reserveVars

-----------------------------------------------------------------------------
(* A plan removes before it fills, so that a full reserve can be turned    *)
(* over, and the commands of one plan can fail one by one: a locked leaver *)
(* keeps its slot, a refused removal leaves the moves behind it in the     *)
(* outbox.  The agent nevertheless never moves a player into a reserve it  *)
(* has just seen full.                                                     *)
NeverIntoAFullReserve ==
  mover.stage = "seen" /\ Held.type = "MOVE_TO_IR" => Cardinality(mover.saw) < Capacity
=============================================================================
