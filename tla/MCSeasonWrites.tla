---------------------------- MODULE MCSeasonWrites ----------------------------
(***************************************************************************)
(* The five families of in-season writes on small leagues.  They share     *)
(* nothing but the outbox, whose races CommandOutbox has, so a behaviour   *)
(* follows one of them and the others stay as they start.                  *)
(***************************************************************************)
EXTENDS ReserveMoves, PendingClaims, TradeOffers, LineupMoves, AcquisitionPlans, TLC

\* The agent's claim without a drop fits every row of its player.
MCAgentMade == {[add |-> "z", drop |-> NoDrop]}
MCUnresolved == {}

MCHeld0 == 1 :> "us" @@ 2 :> "us" @@ 3 :> "a" @@ 4 :> "b"
MCSwap == {[rival |-> "a", send |-> 1, receive |-> 3], [rival |-> "b", send |-> 2, receive |-> 4]}

MCSlots == <<"RB", "WR", "FLEX">>
MCPositions == "a" :> {"RB"} @@ "b" :> {"RB", "WR"} @@ "c" :> {"WR"} @@ "d" :> {"RB", "WR"}
MCFirstLineup == <<"a", "b", "c">>

MCMechanism0 == "x" :> "waiver" @@ "y" :> "free_agent"

VARIABLE family
vars == <<family, reserveVars, pendingVars, tradeVars, lineupVars, acqVars>>

MCInit ==
  /\ family \in {"reserve", "pending", "trade", "lineup", "acquisition"}
  /\ IF family = "reserve" THEN ReserveInit
     ELSE sleeper = FALSE /\ context = FALSE /\ reservePlan = <<>> /\ moves = [row \in {} |-> "none"] /\ mover = Agent /\ turns = 0
  /\ PendingInit /\ (family # "pending" => queue = <<>>)
  /\ TradeInit /\ (family # "trade" => offers = {})
  /\ LineupInit
  /\ AcquisitionInit

MCNext ==
  /\ UNCHANGED family
  /\ \/ family = "reserve" /\ ReserveNext /\ UNCHANGED <<pendingVars, tradeVars, lineupVars, acqVars>>
     \/ family = "pending" /\ PendingNext /\ UNCHANGED <<reserveVars, tradeVars, lineupVars, acqVars>>
     \/ family = "trade" /\ TradeNext /\ UNCHANGED <<reserveVars, pendingVars, lineupVars, acqVars>>
     \/ family = "lineup" /\ LineupNext /\ UNCHANGED <<reserveVars, pendingVars, tradeVars, acqVars>>
     \/ family = "acquisition" /\ AcquisitionNext /\ UNCHANGED <<reserveVars, pendingVars, tradeVars, lineupVars>>

MCSpec == MCInit /\ [][MCNext]_vars
=============================================================================
