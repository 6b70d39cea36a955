-------------------------- MODULE SeasonWritesProofs --------------------------
(***************************************************************************)
(* What holds of the families of in-season writes for every league, every  *)
(* roster and every length of a behaviour.                                 *)
(***************************************************************************)
EXTENDS ReserveMoves, PendingClaims, TradeOffers, AcquisitionPlans,
        FiniteSetTheorems, WellFoundedInduction, TLAPS

\* Every nonempty set of natural numbers has a least one.
LEMMA LeastNumber ==
  ASSUME NEW S \in SUBSET Nat, S # {}
  PROVE  \E n \in S : \A m \in S : n <= m
<1>1. \A x, y : <<y, x>> \in OpToRel(<, Nat) <=> x \in Nat /\ y \in Nat /\ y < x
  <2>1. OpToRel(<, Nat) = {ss \in Nat \X Nat : ss[1] < ss[2]}
    BY Zenon DEF OpToRel
  <2> QED BY <2>1, Zenon
<1>2. IsWellFoundedOn(OpToRel(<, Nat), Nat)
  BY NatLessThanWellFounded
<1>3. PICK n \in S : \A m \in S : ~(<<m, n>> \in OpToRel(<, Nat))
  BY <1>2, WFMin
<1>4. \A m \in S : ~(m < n)
  BY <1>1, <1>3, Zenon
<1> QED BY <1>4

-----------------------------------------------------------------------------
(* Trades.                                                                 *)

TradeStages == {"leased", "checked", "staged", "cleared", "verifying"}

\* The agent is idle or holds the copy of one command.
TraderTyped ==
  \/ trader = TradeIdle
  \/ trader \in [stage : TradeStages, row : {trader.row}, action : {trader.action}, undisturbed : BOOLEAN]

AgentOffers == {o \in offers : o.by = "agent"}

\* A proposal is staged only in a dialog that shows no active offer, and only
\* the agent adds offers of its own.
NoneBesideTheProposal ==
  trader.stage \in {"staged", "cleared"} /\ Trade.type = "PROPOSE" => AgentOffers = {}

AtMostOneOffer == \A o, x \in AgentOffers : o = x

\* Behind the preflight the rosters are those of the command, unless somebody
\* else has acted since.
RostersAsDecided ==
  trader.stage \in {"checked", "staged", "cleared"} /\ trader.undisturbed => SameRosters(Trade)

TradeInv == TraderTyped /\ NoneBesideTheProposal /\ AtMostOneOffer /\ RostersAsDecided

LEMMA TradeInitInv == TradeInit => TradeInv
<1> SUFFICES ASSUME TradeInit PROVE TradeInv
  OBVIOUS
<1>1. trader = [stage |-> "idle"]
  BY DEF TradeInit, TradeIdle
<1>2. AgentOffers = {}
  <2>1. \A o \in offers : o.by = "rival"
    BY DEF TradeInit, Offer
  <2> QED BY <2>1 DEF AgentOffers
<1> QED
  BY <1>1, <1>2 DEF TradeInv, TraderTyped, TradeIdle, NoneBesideTheProposal, AtMostOneOffer, RostersAsDecided

\* A step that neither the agent takes nor the league is about.
LEMMA TradeAside ==
  ASSUME TradeInv, UNCHANGED <<holds, offers, trader>>
  PROVE  TradeInv'
BY DEF TradeInv, TraderTyped, TradeStages, TradeIdle, NoneBesideTheProposal, AtMostOneOffer, AgentOffers, Trade,
       RostersAsDecided, SameRosters, RosterOf

\* The end of a command leaves the agent idle.
LEMMA TradeSettled ==
  ASSUME TradeInv, trader' = TradeIdle, UNCHANGED <<holds, offers>>
  PROVE  TradeInv'
BY DEF TradeInv, TraderTyped, TradeIdle, NoneBesideTheProposal, AtMostOneOffer, AgentOffers, RostersAsDecided

\* Somebody else changes the league; the agent's own offers can only go.
LEMMA TradeDisturbed ==
  ASSUME TradeInv, Disturb, AgentOffers' \subseteq AgentOffers
  PROVE  TradeInv'
<1>1. CASE trader = TradeIdle
  BY <1>1 DEF TradeInv, TraderTyped, TradeIdle, Disturb, NoneBesideTheProposal, AtMostOneOffer, RostersAsDecided
<1>2. CASE trader # TradeIdle
  <2>1. trader' = [trader EXCEPT !.undisturbed = FALSE]
    BY <1>2 DEF Disturb
  <2>2. trader \in [stage : TradeStages, row : {trader.row}, action : {trader.action}, undisturbed : BOOLEAN]
    BY <1>2 DEF TradeInv, TraderTyped
  <2>3. /\ trader' \in [stage : TradeStages, row : {trader'.row}, action : {trader'.action}, undisturbed : BOOLEAN]
        /\ trader'.stage = trader.stage /\ trader'.action = trader.action /\ ~trader'.undisturbed
    BY <2>1, <2>2
  <2> QED
    BY <2>3 DEF TradeInv, TraderTyped, NoneBesideTheProposal, AtMostOneOffer, RostersAsDecided, Trade
<1> QED BY <1>1, <1>2

LEMMA TradeStepInv == TradeInv /\ [TradeNext]_tradeVars => TradeInv'
<1> SUFFICES ASSUME TradeInv, [TradeNext]_tradeVars PROVE TradeInv'
  OBVIOUS
<1> DEFINE Same == UNCHANGED <<holds, offers, trader>>
<1>1. CASE TradePass \/ SynchroniseTrades \/ IngestRosters \/ TradeHeartbeat \/ InboxLapses \/ RowExpires \/ NewWeek
           \/ UNCHANGED tradeVars
  <2>1. Same
    BY <1>1 DEF TradePass, SynchroniseTrades, IngestRosters, TradeHeartbeat, InboxLapses, RowExpires, NewWeek, tradeVars
  <2> QED BY <2>1, TradeAside
<1>2. CASE LeaseTrade
  <2>1. PICK n \in DOMAIN tradeRows :
          trader' = [stage |-> "leased", row |-> n, action |-> tradeRows[n].action, undisturbed |-> TRUE]
    BY <1>2 DEF LeaseTrade
  <2>2. UNCHANGED offers
    BY <1>2 DEF LeaseTrade
  <2>3. TraderTyped'
    BY <2>1 DEF TraderTyped, TradeStages
  <2> QED
    BY <2>1, <2>2, <2>3 DEF TradeInv, NoneBesideTheProposal, AtMostOneOffer, AgentOffers, RostersAsDecided
<1>3. CASE PreflightTrade
  <2>1. UNCHANGED <<holds, offers>>
    BY <1>3 DEF PreflightTrade
  <2>2. CASE \E status \in {"verified", "blocked"} : SettleTrade(status)
    BY <2>1, <2>2, TradeSettled DEF SettleTrade
  <2>3. CASE SameRosters(Trade) /\ trader' = [trader EXCEPT !.stage = "checked", !.undisturbed = TRUE]
    <3>1. trader \in [stage : TradeStages, row : {trader.row}, action : {trader.action}, undisturbed : BOOLEAN]
      BY <1>3 DEF TradeInv, TraderTyped, TradeIdle, PreflightTrade
    <3>2. /\ trader' \in [stage : TradeStages, row : {trader'.row}, action : {trader'.action}, undisturbed : BOOLEAN]
          /\ trader'.stage = "checked" /\ trader'.action = trader.action
      BY <2>3, <3>1 DEF TradeStages
    <3>3. SameRosters(Trade)'
      BY <2>1, <2>3, <3>2 DEF SameRosters, RosterOf, Trade
    <3> QED
      BY <2>1, <3>2, <3>3 DEF TradeInv, TraderTyped, NoneBesideTheProposal, AtMostOneOffer, AgentOffers, RostersAsDecided
  <2> QED BY <1>3, <2>2, <2>3 DEF PreflightTrade
<1>4. CASE StageTrade
  <2>1. UNCHANGED <<holds, offers>>
    BY <1>4 DEF StageTrade
  <2>2. CASE SettleTrade("blocked")
    BY <2>1, <2>2, TradeSettled DEF SettleTrade
  <2>3. CASE Proceed("staged") /\ (Trade.type = "PROPOSE" => BuilderOpen)
    <3>1. trader \in [stage : TradeStages, row : {trader.row}, action : {trader.action}, undisturbed : BOOLEAN]
      BY <1>4 DEF TradeInv, TraderTyped, TradeIdle, StageTrade
    <3>2. /\ trader' \in [stage : TradeStages, row : {trader'.row}, action : {trader'.action}, undisturbed : BOOLEAN]
          /\ trader'.stage = "staged" /\ trader'.action = trader.action /\ trader'.undisturbed = trader.undisturbed
      BY <2>3, <3>1 DEF TradeStages, Proceed, Stage
    <3>3. NoneBesideTheProposal'
      BY <2>1, <2>3, <3>2 DEF NoneBesideTheProposal, Trade, BuilderOpen, AgentOffers
    <3>4. RostersAsDecided'
      BY <1>4, <2>1, <3>2 DEF TradeInv, RostersAsDecided, StageTrade, SameRosters, RosterOf, Trade
    <3> QED
      BY <2>1, <3>2, <3>3, <3>4 DEF TradeInv, TraderTyped, AtMostOneOffer, AgentOffers
  <2> QED BY <1>4, <2>2, <2>3 DEF StageTrade
<1>5. CASE WriteTrade
  <2>1. UNCHANGED <<holds, offers>>
    BY <1>5 DEF WriteTrade
  <2>2. CASE SettleTrade("blocked")
    BY <2>1, <2>2, TradeSettled DEF SettleTrade
  <2>3. CASE Proceed("cleared")
    <3>1. trader \in [stage : TradeStages, row : {trader.row}, action : {trader.action}, undisturbed : BOOLEAN]
      BY <1>5 DEF TradeInv, TraderTyped, TradeIdle, WriteTrade
    <3>2. /\ trader' \in [stage : TradeStages, row : {trader'.row}, action : {trader'.action}, undisturbed : BOOLEAN]
          /\ trader'.stage = "cleared" /\ trader'.action = trader.action /\ trader'.undisturbed = trader.undisturbed
      BY <2>3, <3>1 DEF TradeStages, Proceed, Stage
    <3>3. NoneBesideTheProposal'
      BY <1>5, <2>1, <3>2 DEF TradeInv, NoneBesideTheProposal, WriteTrade, Trade, AgentOffers
    <3>4. RostersAsDecided'
      BY <1>5, <2>1, <3>2 DEF TradeInv, RostersAsDecided, WriteTrade, SameRosters, RosterOf, Trade
    <3> QED
      BY <2>1, <3>2, <3>3, <3>4 DEF TradeInv, TraderTyped, AtMostOneOffer, AgentOffers
  <2> QED BY <1>5, <2>2, <2>3 DEF WriteTrade
<1>6. CASE ClickTrade
  <2>1. trader \in [stage : TradeStages, row : {trader.row}, action : {trader.action}, undisturbed : BOOLEAN]
    BY <1>6 DEF TradeInv, TraderTyped, TradeIdle, ClickTrade
  <2>2. /\ trader' \in [stage : TradeStages, row : {trader'.row}, action : {trader'.action}, undisturbed : BOOLEAN]
        /\ trader'.stage = "verifying"
    BY <1>6, <2>1 DEF TradeStages, ClickTrade, Proceed, Stage
  <2>3. AtMostOneOffer'
    <3>1. CASE AgentOffers' \subseteq AgentOffers
      BY <3>1 DEF TradeInv, AtMostOneOffer
    <3>2. CASE Trade.type = "PROPOSE" /\ offers' = offers \cup {Offer(Trade.swap, "agent")}
      <4>1. AgentOffers = {}
        BY <1>6, <3>2 DEF TradeInv, NoneBesideTheProposal, ClickTrade
      <4> QED BY <3>2, <4>1 DEF AtMostOneOffer, AgentOffers
    <3> QED BY <1>6, <3>1, <3>2 DEF ClickTrade, AgentOffers
  <2> QED
    BY <2>2, <2>3 DEF TradeInv, TraderTyped, NoneBesideTheProposal, RostersAsDecided
<1>7. CASE VerifyTrade
  <2>1. UNCHANGED <<holds, offers>> /\ trader' = TradeIdle
    BY <1>7 DEF VerifyTrade, SettleTrade
  <2> QED BY <2>1, TradeSettled
<1>8. CASE OfferMade \/ OfferEnds \/ OfferAccepted
  <2>1. Disturb
    BY <1>8 DEF OfferMade, OfferEnds, OfferAccepted
  <2>2. AgentOffers' \subseteq AgentOffers
    <3>1. CASE OfferMade
      <4>1. PICK t \in Swap, by \in {"rival", "owner"} : offers' = offers \cup {Offer(t, by)}
        BY <3>1 DEF OfferMade
      <4>2. Offer(t, by).by # "agent"
        BY DEF Offer
      <4> QED BY <4>1, <4>2 DEF AgentOffers
    <3>2. CASE OfferEnds \/ OfferAccepted
      BY <3>2 DEF OfferEnds, OfferAccepted, AgentOffers
    <3> QED BY <1>8, <3>1, <3>2
  <2> QED BY <2>1, <2>2, TradeDisturbed
<1> QED
  BY <1>1, <1>2, <1>3, <1>4, <1>5, <1>6, <1>7, <1>8 DEF TradeNext

LEMMA TradeInvariant == TradeSpec => []TradeInv
<1>1. TradeInit => TradeInv
  BY TradeInitInv
<1>2. TradeInv /\ [TradeNext]_tradeVars => TradeInv'
  BY TradeStepInv
<1> QED BY <1>1, <1>2, PTL DEF TradeSpec

(* "Outbound offers are limited to one per week, one active at a time":    *)
(* for every league, whatever the backend knows of the offers, the agent   *)
(* never has two offers of its own open.  The inductive part is that the   *)
(* dialog shows no offer when a proposal is staged, and that nobody but    *)
(* the agent makes offers for it until it clicks.                          *)
THEOREM AgentHasOneOffer == TradeSpec => []OneOfferAtATime
<1>1. TradeInv => OneOfferAtATime
  <2> SUFFICES ASSUME AtMostOneOffer PROVE Cardinality(AgentOffers) <= 1
    BY DEF TradeInv, OneOfferAtATime, AgentOffers
  <2>1. CASE AgentOffers = {}
    BY <2>1, FS_EmptySet
  <2>2. CASE AgentOffers # {}
    <3>1. PICK o \in AgentOffers : TRUE
      BY <2>2
    <3>2. AgentOffers = {o}
      BY <3>1 DEF AtMostOneOffer
    <3> QED BY <3>2, FS_Singleton
  <2> QED BY <2>1, <2>2
<1> QED BY <1>1, TradeInvariant, PTL

(* "The browser and backend bind both full rosters and exact assets        *)
(* immediately before clicking": an acceptance is carried out on the       *)
(* rosters it was decided for, unless somebody else acted between the      *)
(* preflight and the click.                                                *)
THEOREM AcceptsOnlyOnDecidedRosters == TradeSpec => AcceptsOnDecidedRosters
<1>1. TradeInv /\ [TradeNext]_tradeVars =>
        [trader.stage = "cleared" /\ holds' # holds /\ trader.undisturbed =>
           RosterOf(holds, Us) = Trade.ours /\ RosterOf(holds, Trade.swap.rival) = Trade.theirs]_tradeVars
  BY DEF TradeInv, RostersAsDecided, SameRosters
<1> QED BY <1>1, TradeInvariant, PTL DEF TradeSpec, AcceptsOnDecidedRosters

-----------------------------------------------------------------------------
(* Acquisitions: no claim twice.                                           *)

BuyerStages == {"leased", "preflight", "staged", "allowed"}

BuyerTyped ==
  \/ buyer = BuyerIdle
  \/ buyer \in [stage : BuyerStages, row : {buyer.row}, action : {buyer.action}]

\* My Waivers holds bare pairs of players, the agent's among them.
WaiversTyped ==
  /\ \A c \in myWaivers : c = Pair(c)
  /\ agentClaims \subseteq myWaivers

\* Behind the look at My Waivers only the owner adds claims.
NotYetClaimed ==
  buyer.stage \in {"staged", "allowed"} /\ Buying.kind = "waiver" /\ Buying.drop # NobodyOut =>
    Pair(Buying) \notin agentClaims

ClaimInv == BuyerTyped /\ WaiversTyped /\ NotYetClaimed

LEMMA ClaimInitInv == AcquisitionInit => ClaimInv
BY DEF AcquisitionInit, ClaimInv, BuyerTyped, BuyerIdle, WaiversTyped, NotYetClaimed

\* One row of My Waivers fits a claim with a drop when that claim is there.
LEMMA ShownWhenClaimed ==
  ASSUME WaiversTyped, NEW a, a.drop # NobodyOut, Pair(a) \in myWaivers
  PROVE  Shown(a, myWaivers)
<1> DEFINE fit == {c \in myWaivers : c.add = a.add /\ (a.drop # NobodyOut => c.drop = a.drop)}
<1>1. \A c \in fit : c = Pair(a)
  BY DEF WaiversTyped, Pair
<1>2. Pair(a) \in fit
  BY DEF Pair
<1>3. fit = {Pair(a)}
  BY <1>1, <1>2
<1>4. Cardinality(fit) = 1
  BY <1>3, FS_Singleton
<1> QED BY <1>4 DEF Shown

LEMMA ClaimStepInv == ClaimInv /\ [AcquisitionNext]_acqVars => ClaimInv'
<1> SUFFICES ASSUME ClaimInv, [AcquisitionNext]_acqVars PROVE ClaimInv'
  OBVIOUS
<1> USE DEF sleeperVars
<1>1. CASE AcquisitionPass \/ SynchroniseAcquisitions \/ IngestSquad \/ ObservePlayers \/ ObservationLapses \/ Reconcile
           \/ OwnerAdds \/ OwnerCancelsRow \/ RivalTakes \/ WindowShuts \/ UNCHANGED acqVars
  <2>1. UNCHANGED <<myWaivers, agentClaims, buyer>>
    BY <1>1 DEF AcquisitionPass, SynchroniseAcquisitions, IngestSquad, ObservePlayers, ObservationLapses, Reconcile,
                OwnerAdds, OwnerCancelsRow, RivalTakes, WindowShuts, acqVars
  <2> QED BY <2>1 DEF ClaimInv, BuyerTyped, BuyerIdle, WaiversTyped, NotYetClaimed, Buying
<1>2. CASE LeaseAcquisition
  <2>1. PICK n \in DOMAIN acqRows : buyer' = [stage |-> "leased", row |-> n, action |-> acqRows[n].action]
    BY <1>2 DEF LeaseAcquisition
  <2>2. UNCHANGED <<myWaivers, agentClaims>>
    BY <1>2 DEF LeaseAcquisition
  <2> QED BY <2>1, <2>2 DEF ClaimInv, BuyerTyped, BuyerStages, WaiversTyped, NotYetClaimed
<1>2a. CASE AnnounceAcquisition
  <2>1. UNCHANGED <<myWaivers, agentClaims>> /\ buyer' = [buyer EXCEPT !.stage = "preflight"]
    BY <1>2a DEF AnnounceAcquisition
  <2>2. buyer \in [stage : BuyerStages, row : {buyer.row}, action : {buyer.action}]
    BY <1>2a DEF ClaimInv, BuyerTyped, BuyerIdle, AnnounceAcquisition
  <2>3. BuyerTyped' /\ buyer'.stage = "preflight"
    BY <2>1, <2>2 DEF BuyerTyped, BuyerStages
  <2> QED BY <2>1, <2>3 DEF ClaimInv, WaiversTyped, NotYetClaimed
<1>3. CASE PreflightAcquisition
  <2>1. UNCHANGED <<myWaivers, agentClaims>>
    BY <1>3 DEF PreflightAcquisition
  <2>2. CASE buyer' = BuyerIdle
    BY <2>1, <2>2 DEF ClaimInv, BuyerTyped, BuyerIdle, WaiversTyped, NotYetClaimed
  <2>3. CASE ~(Buying.kind = "waiver" /\ Shown(Buying, myWaivers)) /\ buyer' = [buyer EXCEPT !.stage = "staged"]
    <3>1. buyer \in [stage : BuyerStages, row : {buyer.row}, action : {buyer.action}]
      BY <1>3 DEF ClaimInv, BuyerTyped, BuyerIdle, PreflightAcquisition
    <3>2. BuyerTyped' /\ Buying' = Buying
      BY <2>3, <3>1 DEF BuyerTyped, BuyerStages, Buying
    <3>3. NotYetClaimed'
      BY <2>1, <2>3, <3>2, ShownWhenClaimed DEF ClaimInv, WaiversTyped, NotYetClaimed
    <3> QED BY <2>1, <3>2, <3>3 DEF ClaimInv, WaiversTyped
  <2> QED BY <1>3, <2>2, <2>3 DEF PreflightAcquisition, SettleAcquisition
<1>4. CASE AskBoundary
  <2>1. UNCHANGED <<myWaivers, agentClaims>>
    BY <1>4 DEF AskBoundary
  <2>2. CASE buyer' = BuyerIdle
    BY <2>1, <2>2 DEF ClaimInv, BuyerTyped, BuyerIdle, WaiversTyped, NotYetClaimed
  <2>3. CASE buyer' = [buyer EXCEPT !.stage = "allowed"]
    <3>1. buyer \in [stage : BuyerStages, row : {buyer.row}, action : {buyer.action}]
      BY <1>4 DEF ClaimInv, BuyerTyped, BuyerIdle, AskBoundary
    <3>2. BuyerTyped' /\ Buying' = Buying
      BY <2>3, <3>1 DEF BuyerTyped, BuyerStages, Buying
    <3> QED BY <1>4, <2>1, <3>2 DEF ClaimInv, WaiversTyped, NotYetClaimed, AskBoundary
  <2> QED BY <1>4, <2>2, <2>3 DEF AskBoundary, SettleAcquisition
<1>5. CASE Submit
  <2>1. buyer' = BuyerIdle
    BY <1>5 DEF Submit, SettleAcquisition
  <2>2. WaiversTyped'
    <3>1. CASE UNCHANGED <<myWaivers, agentClaims>>
      BY <3>1 DEF ClaimInv, WaiversTyped
    <3>2. CASE myWaivers' = myWaivers \cup {Pair(Buying)} /\ agentClaims' = agentClaims \cup {Pair(Buying)}
      BY <3>2 DEF ClaimInv, WaiversTyped, Pair
    <3> QED BY <1>5, <3>1, <3>2 DEF Submit
  <2> QED BY <2>1, <2>2 DEF ClaimInv, BuyerTyped, BuyerIdle, NotYetClaimed
<1>6. CASE OwnerClaims
  <2>1. PICK c \in AddDrop : myWaivers' = myWaivers \cup {c}
    BY <1>6 DEF OwnerClaims
  <2>2. c = Pair(c)
    BY DEF AddDrop, Pair
  <2>3. UNCHANGED <<agentClaims, buyer>>
    BY <1>6 DEF OwnerClaims
  <2> QED BY <2>1, <2>2, <2>3 DEF ClaimInv, BuyerTyped, BuyerIdle, WaiversTyped, NotYetClaimed, Buying
<1>7. CASE WaiversRun
  <2>1. myWaivers' = {} /\ agentClaims' = {} /\ UNCHANGED buyer
    BY <1>7 DEF WaiversRun
  <2> QED BY <2>1 DEF ClaimInv, BuyerTyped, BuyerIdle, WaiversTyped, NotYetClaimed, Buying
<1> QED
  BY <1>1, <1>2, <1>2a, <1>3, <1>4, <1>5, <1>6, <1>7 DEF AcquisitionNext

LEMMA ClaimInvariant == AcquisitionSpec => []ClaimInv
<1>1. AcquisitionInit => ClaimInv
  BY ClaimInitInv
<1>2. ClaimInv /\ [AcquisitionNext]_acqVars => ClaimInv'
  BY ClaimStepInv
<1> QED BY <1>1, <1>2, PTL DEF AcquisitionSpec

(* "An already pending exact claim is treated idempotently rather than     *)
(* submitted twice": a claim with a drop the agent has submitted and       *)
(* Sleeper has not decided is never submitted again, however old the       *)
(* reports are and however a new plan words it.                            *)
THEOREM ClaimsOnce == AcquisitionSpec => NeverClaimedTwice
<1>1. ClaimInv /\ [AcquisitionNext]_acqVars =>
        [buyer.stage = "allowed" /\ buyer' = BuyerIdle /\ Buying.kind = "waiver" /\ Buying.drop # NobodyOut =>
           Pair(Buying) \notin agentClaims]_acqVars
  BY DEF ClaimInv, NotYetClaimed
<1> QED BY <1>1, ClaimInvariant, PTL DEF AcquisitionSpec, NeverClaimedTwice

-----------------------------------------------------------------------------
(* Acquisitions: the compiled chain.  The two loops, of the compiler and   *)
(* of the independent proof, are functions of the number of turns; that    *)
(* they take one more turn for one more element follows from the least     *)
(* number of turns for which they would not.                               *)

LEMMA FrontOfSeq ==
  ASSUME NEW S, NEW s \in Seq(S), NEW m \in Nat, m < Len(s)
  PROVE  /\ SubSeq(s, 1, m) \in Seq(S)
         /\ Len(SubSeq(s, 1, m)) = m
         /\ \A k \in 1 .. m : SubSeq(s, 1, m)[k] = s[k]
<1>1. \A k \in 1 .. m : s[k] \in S
  OBVIOUS
<1>2. SubSeq(s, 1, m) \in Seq(S)
  BY <1>1, SMT
<1>3. Len(SubSeq(s, 1, m)) = m
  BY SMT
<1>4. \A k \in 1 .. m : SubSeq(s, 1, m)[k] = s[k]
  BY SMT
<1> QED BY <1>2, <1>3, <1>4

CompilesTo(claims, n, f) ==
  f = [k \in 0 .. n |-> IF k = 0 THEN NothingCompiled ELSE CompileOne(f[k - 1], claims[k])]

LEMMA CompileTurns ==
  ASSUME NEW S, NEW claims \in Seq(S)
  PROVE  \A n \in 0 .. Len(claims) : \E f : CompilesTo(claims, n, f)
<1> DEFINE bad == {n \in 0 .. Len(claims) : ~\E f : CompilesTo(claims, n, f)}
<1>1. ASSUME bad # {} PROVE FALSE
  <2>0. bad \in SUBSET Nat
    OBVIOUS
  <2> HIDE DEF bad
  <2>1. PICK n \in bad : \A m \in bad : n <= m
    BY <1>1, <2>0, LeastNumber
  <2> USE DEF bad
  <2>2. CASE n = 0
    <3>1. CompilesTo(claims, 0, [k \in 0 .. 0 |-> NothingCompiled])
      BY DEF CompilesTo
    <3> QED BY <2>1, <2>2, <3>1
  <2>3. CASE n # 0
    <3>1. n - 1 \in 0 .. Len(claims) /\ n - 1 \notin bad
      BY <2>1, <2>3
    <3>2. PICK f : CompilesTo(claims, n - 1, f)
      BY <3>1
    <3> DEFINE g == [k \in 0 .. n |-> IF k = n THEN CompileOne(f[n - 1], claims[n]) ELSE f[k]]
    <3>3. \A k \in 0 .. n - 1 : f[k] = IF k = 0 THEN NothingCompiled ELSE CompileOne(f[k - 1], claims[k])
      BY <3>1, <3>2 DEF CompilesTo
    <3>4. \A k \in 0 .. n : g[k] = IF k = 0 THEN NothingCompiled ELSE CompileOne(g[k - 1], claims[k])
      BY <2>1, <2>3, <3>3
    <3>5. CompilesTo(claims, n, g)
      BY <3>4 DEF CompilesTo
    <3> QED BY <2>1, <3>5
  <2> QED BY <2>2, <2>3
<1> QED BY <1>1

\* Two runs of the loop over sequences that agree, agree.
LEMMA CompileTurnsAgree ==
  ASSUME NEW n \in Nat, NEW claims, NEW others, NEW f, NEW g, NEW m \in Nat, n <= m,
         \A k \in 1 .. n : claims[k] = others[k], CompilesTo(claims, n, f), CompilesTo(others, m, g)
  PROVE  \A k \in 0 .. n : f[k] = g[k]
<1> DEFINE bad == {k \in 0 .. n : f[k] # g[k]}
<1>1. ASSUME bad # {} PROVE FALSE
  <2>0. bad \in SUBSET Nat
    OBVIOUS
  <2> HIDE DEF bad
  <2>1. PICK k \in bad : \A i \in bad : k <= i
    BY <1>1, <2>0, LeastNumber
  <2> USE DEF bad
  <2>2. f[k] = IF k = 0 THEN NothingCompiled ELSE CompileOne(f[k - 1], claims[k])
    BY <2>1 DEF CompilesTo
  <2>3. g[k] = IF k = 0 THEN NothingCompiled ELSE CompileOne(g[k - 1], others[k])
    BY <2>1 DEF CompilesTo
  <2>4. CASE k = 0
    BY <2>1, <2>2, <2>3, <2>4
  <2>5. CASE k # 0
    <3>1. k - 1 \in 0 .. n /\ k - 1 \notin bad /\ k \in 1 .. n
      BY <2>1, <2>5
    <3>2. f[k - 1] = g[k - 1]
      BY <3>1
    <3> QED BY <2>1, <2>2, <2>3, <2>5, <3>1, <3>2
  <2> QED BY <2>4, <2>5
<1> QED BY <1>1

LEMMA CompileRun ==
  ASSUME NEW S, NEW claims \in Seq(S)
  PROVE  \E f : CompilesTo(claims, Len(claims), f) /\ CompileClaims(claims) = f[Len(claims)]
<1> DEFINE h == CHOOSE f : CompilesTo(claims, Len(claims), f)
<1>1. \E f : CompilesTo(claims, Len(claims), f)
  BY CompileTurns
<1>2. CompilesTo(claims, Len(claims), h)
  BY <1>1
<1>3. CompileClaims(claims) = h[Len(claims)]
  BY DEF CompileClaims, CompilesTo
<1> HIDE DEF h
<1> QED BY <1>2, <1>3

\* One more claim is one more turn.
LEMMA CompileNext ==
  ASSUME NEW S, NEW claims \in Seq(S)
  PROVE  /\ claims = <<>> => CompileClaims(claims) = NothingCompiled
         /\ claims # <<>> =>
              CompileClaims(claims) =
                CompileOne(CompileClaims(SubSeq(claims, 1, Len(claims) - 1)), claims[Len(claims)])
<1>1. PICK f : CompilesTo(claims, Len(claims), f) /\ CompileClaims(claims) = f[Len(claims)]
  BY CompileRun
<1>2. CASE claims = <<>>
  BY <1>1, <1>2 DEF CompilesTo
<1>3. CASE claims # <<>>
  <2> DEFINE n == Len(claims)
             front == SubSeq(claims, 1, n - 1)
  <2>0. n \in Nat /\ n # 0
    BY <1>3
  <2>1. front \in Seq(S) /\ Len(front) = n - 1 /\ \A k \in 1 .. n - 1 : front[k] = claims[k]
    <3>1. n - 1 \in Nat /\ n - 1 < Len(claims)
      BY <2>0
    <3> HIDE DEF n
    <3> QED BY <3>1, FrontOfSeq
  <2> HIDE DEF front, n
  <2>2. PICK g : CompilesTo(front, n - 1, g) /\ CompileClaims(front) = g[n - 1]
    BY <2>1, CompileRun
  <2>3. \A k \in 0 .. n - 1 : g[k] = f[k]
    <3>1. CompilesTo(claims, n, f)
      BY <1>1 DEF n
    <3>2. n - 1 \in Nat /\ n - 1 <= n
      BY <2>0
    <3> QED BY <2>0, <2>1, <2>2, <3>1, <3>2, CompileTurnsAgree
  <2>4. f[n] = CompileOne(f[n - 1], claims[n])
    <3>1. f = [k \in 0 .. n |-> IF k = 0 THEN NothingCompiled ELSE CompileOne(f[k - 1], claims[k])]
      BY <1>1 DEF CompilesTo, n
    <3>2. n \in 0 .. n
      BY <2>0
    <3> QED BY <2>0, <3>1, <3>2
  <2>5. f[n - 1] = CompileClaims(front)
    BY <2>0, <2>1, <2>2, <2>3
  <2> QED BY <1>1, <1>3, <2>4, <2>5 DEF front, n
<1> QED BY <1>2, <1>3

ProvesTo(actions, players, n, f) ==
  f = [k \in 0 .. n |-> IF k = 0 THEN NothingProved(players) ELSE ProvedStep(f[k - 1], actions[k])]

LEMMA ProofTurns ==
  ASSUME NEW players, NEW S, NEW actions \in Seq(S)
  PROVE  \A n \in 0 .. Len(actions) : \E f : ProvesTo(actions, players, n, f)
<1> DEFINE bad == {n \in 0 .. Len(actions) : ~\E f : ProvesTo(actions, players, n, f)}
<1>1. ASSUME bad # {} PROVE FALSE
  <2>0. bad \in SUBSET Nat
    OBVIOUS
  <2> HIDE DEF bad
  <2>1. PICK n \in bad : \A m \in bad : n <= m
    BY <1>1, <2>0, LeastNumber
  <2> USE DEF bad
  <2>2. CASE n = 0
    <3>1. ProvesTo(actions, players, 0, [k \in 0 .. 0 |-> NothingProved(players)])
      BY DEF ProvesTo
    <3> QED BY <2>1, <2>2, <3>1
  <2>3. CASE n # 0
    <3>1. n - 1 \in 0 .. Len(actions) /\ n - 1 \notin bad
      BY <2>1, <2>3
    <3>2. PICK f : ProvesTo(actions, players, n - 1, f)
      BY <3>1
    <3> DEFINE g == [k \in 0 .. n |-> IF k = n THEN ProvedStep(f[n - 1], actions[n]) ELSE f[k]]
    <3>3. \A k \in 0 .. n - 1 : f[k] = IF k = 0 THEN NothingProved(players) ELSE ProvedStep(f[k - 1], actions[k])
      BY <3>1, <3>2 DEF ProvesTo
    <3>4. \A k \in 0 .. n : g[k] = IF k = 0 THEN NothingProved(players) ELSE ProvedStep(g[k - 1], actions[k])
      BY <2>1, <2>3, <3>3
    <3>5. ProvesTo(actions, players, n, g)
      BY <3>4 DEF ProvesTo
    <3> QED BY <2>1, <3>5
  <2> QED BY <2>2, <2>3
<1> QED BY <1>1

LEMMA ProofRun ==
  ASSUME NEW players, NEW S, NEW actions \in Seq(S)
  PROVE  \E f : ProvesTo(actions, players, Len(actions), f) /\ Proof(actions, players) = f[Len(actions)]
<1> DEFINE h == CHOOSE f : ProvesTo(actions, players, Len(actions), f)
<1>1. \E f : ProvesTo(actions, players, Len(actions), f)
  <2>1. Len(actions) \in 0 .. Len(actions)
    OBVIOUS
  <2> QED BY <2>1, ProofTurns
<1>2. ProvesTo(actions, players, Len(actions), h)
  BY <1>1
<1>3. Proof(actions, players) = h[Len(actions)]
  BY DEF Proof, ProvesTo
<1> HIDE DEF h
<1> QED BY <1>2, <1>3

\* One more action is one more turn.
LEMMA ProofNext ==
  ASSUME NEW players, NEW S, NEW actions \in Seq(S)
  PROVE  /\ actions = <<>> => Proof(actions, players) = NothingProved(players)
         /\ actions # <<>> =>
              Proof(actions, players) =
                ProvedStep(Proof(SubSeq(actions, 1, Len(actions) - 1), players), actions[Len(actions)])
<1>1. PICK f : ProvesTo(actions, players, Len(actions), f) /\ Proof(actions, players) = f[Len(actions)]
  BY ProofRun
<1>2. CASE actions = <<>>
  BY <1>1, <1>2 DEF ProvesTo
<1>3. CASE actions # <<>>
  <2> DEFINE n == Len(actions)
             front == SubSeq(actions, 1, n - 1)
  <2>0. n \in Nat /\ n # 0
    BY <1>3
  <2>1. front \in Seq(S) /\ Len(front) = n - 1 /\ \A k \in 1 .. n - 1 : front[k] = actions[k]
    <3>1. n - 1 \in Nat /\ n - 1 < Len(actions)
      BY <2>0
    <3> HIDE DEF n
    <3> QED BY <3>1, FrontOfSeq
  <2> HIDE DEF front, n
  <2>2. PICK g : ProvesTo(front, players, n - 1, g) /\ Proof(front, players) = g[n - 1]
    BY <2>1, ProofRun
  <2>3. \A k \in 0 .. n - 1 : g[k] = f[k]
    <3>2. n - 1 \in Nat /\ n - 1 <= n
      BY <2>0
    <3>3. ProvesTo(front, players, n - 1, g)
      BY <2>2
    <3>4. \A k \in 1 .. n - 1 : front[k] = actions[k]
      BY <2>1
    <3>5. ProvesTo(actions, players, n, f)
      BY <1>1 DEF n
    <3> DEFINE p == n - 1
    <3>6. p \in Nat /\ p <= n /\ ProvesTo(front, players, p, g) /\ \A k \in 1 .. p : front[k] = actions[k]
      BY <3>2, <3>3, <3>4
    <3> HIDE DEF p
    <3> DEFINE bad == {k \in 0 .. p : g[k] # f[k]}
    <3>7. ASSUME bad # {} PROVE FALSE
      <4>0. bad \in SUBSET Nat
        BY <3>6
      <4> HIDE DEF bad
      <4>1. PICK k \in bad : \A i \in bad : k <= i
        BY <3>7, <4>0, LeastNumber
      <4> USE DEF bad
      <4>2. k \in 0 .. p /\ k \in 0 .. n
        BY <2>0, <3>6, <4>1
      <4>3. f[k] = IF k = 0 THEN NothingProved(players) ELSE ProvedStep(f[k - 1], actions[k])
        BY <3>5, <4>2 DEF ProvesTo
      <4>4. g[k] = IF k = 0 THEN NothingProved(players) ELSE ProvedStep(g[k - 1], front[k])
        BY <3>6, <4>2 DEF ProvesTo
      <4>5. CASE k = 0
        BY <4>1, <4>3, <4>4, <4>5
      <4>6. CASE k # 0
        <5>1. k - 1 \in 0 .. p /\ k - 1 \notin bad /\ k \in 1 .. p
          BY <3>6, <4>1, <4>2, <4>6
        <5>2. f[k - 1] = g[k - 1] /\ front[k] = actions[k]
          BY <3>6, <5>1
        <5> QED BY <4>1, <4>3, <4>4, <4>6, <5>2
      <4> QED BY <4>5, <4>6
    <3> QED BY <3>7 DEF p
  <2>4. f[n] = ProvedStep(f[n - 1], actions[n])
    <3>1. f = [k \in 0 .. n |-> IF k = 0 THEN NothingProved(players) ELSE ProvedStep(f[k - 1], actions[k])]
      BY <1>1 DEF ProvesTo, n
    <3>2. n \in 0 .. n
      BY <2>0
    <3> QED BY <2>0, <3>1, <3>2
  <2>5. f[n - 1] = Proof(front, players)
    BY <2>0, <2>1, <2>2, <2>3
  <2> QED BY <1>1, <1>3, <2>4, <2>5 DEF front, n
<1> QED BY <1>2, <1>3

LEMMA AppendedSeq ==
  ASSUME NEW S, NEW s \in Seq(S), NEW x
  PROVE  /\ Append(s, x) \in Seq(S \cup {x}) /\ Append(s, x) # <<>>
         /\ SubSeq(Append(s, x), 1, Len(Append(s, x)) - 1) = s
         /\ Append(s, x)[Len(Append(s, x))] = x
         /\ DOMAIN s \subseteq DOMAIN Append(s, x) /\ \A k \in DOMAIN s : Append(s, x)[k] = s[k]
<1> DEFINE t == Append(s, x)
<1>1. t \in Seq(S \cup {x}) /\ Len(t) = Len(s) + 1 /\ Len(s) \in Nat /\ t[Len(t)] = x
      /\ \A k \in 1 .. Len(s) : t[k] = s[k]
  OBVIOUS
<1>2. t # <<>>
  BY <1>1
<1>3. SubSeq(t, 1, Len(t) - 1) = s
  BY <1>1
<1>4. DOMAIN s = 1 .. Len(s) /\ DOMAIN t = 1 .. Len(t)
  BY <1>1
<1> QED BY <1>1, <1>2, <1>3, <1>4

\* What the proof of a plan has seen, when the compiler has let it through.
InStep(compiled) ==
  /\ \E S : compiled.actions \in Seq(S)
  /\ compiled = [raised |-> compiled.raised, squad |-> compiled.squad, adds |-> compiled.adds,
                 drops |-> compiled.drops, actions |-> compiled.actions]
  /\ ~compiled.raised /\ Kinds(compiled.actions) \subseteq {"free_agent"} =>
       LET proof == Proof(compiled.actions, context0.squad) IN
       /\ proof.ok /\ proof.now = compiled.squad /\ proof.adds = compiled.adds
       /\ proof.drops \subseteq compiled.drops \cup {NobodyOut}

LEMMA InStepAtFirst == InStep(NothingCompiled)
<1>1. NothingCompiled.actions = <<>> /\ <<>> \in Seq({})
  BY DEF NothingCompiled
<1>2. Proof(<<>>, context0.squad) = NothingProved(context0.squad)
  BY <1>1, ProofNext
<1> QED BY <1>1, <1>2 DEF InStep, NothingCompiled, NothingProved

LEMMA InStepAfterOne ==
  ASSUME NEW acc, InStep(acc), NEW c
  PROVE  InStep(CompileOne(acc, c))
<1> DEFINE kind == context0.mechanism[c.add]
           before == StartsAt(kind, acc.squad)
           after == WithMove(before, c)
           raises == kind = "free_agent" /\
             \/ c.add \in acc.adds \cup before
             \/ c.drop # NobodyOut /\ (c.drop \in acc.drops \/ c.drop \notin before)
             \/ Cardinality(after) > SquadSize
           action == [kind |-> kind, add |-> c.add, drop |-> c.drop, text |-> c.text, before |-> before, after |-> after]
           next == CompileOne(acc, c)
<1>0. next = IF acc.raised \/ raises THEN [acc EXCEPT !.raised = TRUE]
             ELSE IF kind = "free_agent"
               THEN [raised |-> FALSE, squad |-> after, adds |-> acc.adds \cup {c.add},
                     drops |-> acc.drops \cup ({c.drop} \ {NobodyOut}), actions |-> Append(acc.actions, action)]
               ELSE [acc EXCEPT !.actions = Append(acc.actions, action)]
  BY DEF CompileOne
<1>a. acc = [raised |-> acc.raised, squad |-> acc.squad, adds |-> acc.adds, drops |-> acc.drops, actions |-> acc.actions]
  BY DEF InStep
<1>b. PICK S : acc.actions \in Seq(S)
  BY DEF InStep
<1> HIDE DEF next
<1>1. CASE acc.raised \/ raises
  <2>1. next = [raised |-> TRUE, squad |-> acc.squad, adds |-> acc.adds, drops |-> acc.drops, actions |-> acc.actions]
    <3>1. next = [acc EXCEPT !.raised = TRUE]
      BY <1>0, <1>1
    <3> QED BY <1>a, <3>1
  <2>2. InStep(next)
    BY <1>b, <2>1 DEF InStep
  <2> QED BY <2>2 DEF next
<1>2. CASE ~(acc.raised \/ raises)
  <2> DEFINE appended == Append(acc.actions, action)
  <2>1. next.actions = appended /\ next = [raised |-> next.raised, squad |-> next.squad, adds |-> next.adds,
                                           drops |-> next.drops, actions |-> next.actions]
    <3> HIDE DEF action, raises, kind, after
    <3>1. CASE kind = "free_agent"
      BY <1>0, <1>2, <3>1
    <3>2. CASE kind # "free_agent"
      <4>1. next = [acc EXCEPT !.actions = Append(acc.actions, action)]
        BY <1>0, <1>2, <3>2
      <4>2. next = [raised |-> acc.raised, squad |-> acc.squad, adds |-> acc.adds, drops |-> acc.drops, actions |-> appended]
        BY <1>a, <4>1
      <4> QED BY <4>2
    <3> QED BY <3>1, <3>2
  <2>2. /\ appended \in Seq(S \cup {action}) /\ appended # <<>>
        /\ SubSeq(appended, 1, Len(appended) - 1) = acc.actions
        /\ appended[Len(appended)] = action
        /\ DOMAIN acc.actions \subseteq DOMAIN appended /\ \A k \in DOMAIN acc.actions : appended[k] = acc.actions[k]
    <3> HIDE DEF action
    <3> QED BY <1>b, AppendedSeq
  <2>3. ASSUME Kinds(appended) \subseteq {"free_agent"}
        PROVE  LET proof == Proof(appended, context0.squad) IN
               /\ proof.ok /\ proof.now = next.squad /\ proof.adds = next.adds
               /\ proof.drops \subseteq next.drops \cup {NobodyOut}
    <3> DEFINE was == Proof(acc.actions, context0.squad)
    <3>1. Kinds(acc.actions) \subseteq {"free_agent"}
      <4> HIDE DEF appended
      <4> QED BY <2>2, <2>3 DEF Kinds
    <3>2. kind = "free_agent"
      <4>1. Len(appended) \in DOMAIN appended
        <5> HIDE DEF action, appended
        <5> QED BY <2>2
      <4>2. action.kind \in Kinds(appended)
        <5> HIDE DEF action, appended
        <5> QED BY <2>2, <4>1 DEF Kinds
      <4> QED BY <2>3, <4>2
    <3>3. was.ok /\ was.now = acc.squad /\ was.adds = acc.adds /\ was.drops \subseteq acc.drops \cup {NobodyOut}
      BY <1>2, <3>1 DEF InStep
    <3>4. Proof(appended, context0.squad) = ProvedStep(was, action)
      <4> HIDE DEF action, appended
      <4>1. Proof(appended, context0.squad) =
              ProvedStep(Proof(SubSeq(appended, 1, Len(appended) - 1), context0.squad), appended[Len(appended)])
        BY <2>2, ProofNext
      <4> QED BY <2>2, <4>1
    <3>5. next = [raised |-> FALSE, squad |-> after, adds |-> acc.adds \cup {c.add},
                  drops |-> acc.drops \cup ({c.drop} \ {NobodyOut}), actions |-> appended]
      <4> HIDE DEF action, raises, after, kind
      <4> QED BY <1>0, <1>2, <3>2
    <3>6. before = acc.squad
      BY <3>2 DEF StartsAt
    <3>7. c.add \notin acc.adds \cup before /\ (c.drop # NobodyOut => c.drop \in before \ acc.drops)
      <4> HIDE DEF kind, before, after
      <4> QED BY <1>2, <3>2
    <3>8. WithMove(was.now, action) = after
      BY <3>3, <3>6 DEF WithMove
    <3> HIDE DEF was, before, after, kind
    <3>9. ProvedStep(was, action) =
            [ok |-> TRUE, now |-> after, adds |-> acc.adds \cup {c.add}, drops |-> was.drops \cup {c.drop}]
      BY <3>3, <3>6, <3>7, <3>8 DEF ProvedStep
    <3> HIDE DEF action, appended
    <3> QED BY <3>3, <3>4, <3>5, <3>9
  <2>4. InStep(next)
    <3> HIDE DEF action, appended, raises, kind, before, after
    <3> QED BY <2>1, <2>2, <2>3 DEF InStep
  <2> QED BY <2>4 DEF next
<1> QED BY <1>1, <1>2

\* By the least length for which it would not hold.
LEMMA CompiledInStep ==
  ASSUME NEW S, NEW claims \in Seq(S)
  PROVE  InStep(CompileClaims(claims))
<1> DEFINE bad == {n \in Nat : \E s \in Seq(S) : Len(s) = n /\ ~InStep(CompileClaims(s))}
<1>1. ASSUME bad # {} PROVE FALSE
  <2>0. bad \in SUBSET Nat
    OBVIOUS
  <2> HIDE DEF bad
  <2>1. PICK n \in bad : \A m \in bad : n <= m
    BY <1>1, <2>0, LeastNumber
  <2>2. PICK s \in Seq(S) : Len(s) = n /\ ~InStep(CompileClaims(s)) /\ n \in Nat
    BY <2>1 DEF bad
  <2>3. CASE s = <<>>
    BY <2>2, <2>3, CompileNext, InStepAtFirst
  <2>4. CASE s # <<>>
    <3> DEFINE front == SubSeq(s, 1, n - 1)
    <3>1. n # 0 /\ n - 1 \in Nat /\ n - 1 < Len(s)
      BY <2>2, <2>4
    <3>2. front \in Seq(S) /\ Len(front) = n - 1
      BY <2>2, <3>1, FrontOfSeq
    <3>3. CompileClaims(s) = CompileOne(CompileClaims(front), s[n])
      BY <2>2, <2>4, CompileNext
    <3> HIDE DEF front
    <3>4. InStep(CompileClaims(front))
      <4>1. n - 1 \notin bad
        BY <2>1, <2>2, <3>1
      <4> QED BY <3>1, <3>2, <4>1 DEF bad
    <3> QED BY <2>2, <3>3, <3>4, InStepAfterOne
  <2> QED BY <2>3, <2>4
<1>2. Len(claims) \in Nat
  OBVIOUS
<1> QED BY <1>1, <1>2

(* "Immediate multi-move plans are compiled as chained roster states": for *)
(* every roster and every list of claims, whatever its length, a plan of   *)
(* immediate adds the compiler lets through is one the independent proof   *)
(* of the synchronisation accepts.                                         *)
THEOREM EveryCompiledChainIsProved == AcquisitionSpec => []CompiledChainIsProved
<1>1. AcquisitionInit => CompiledChainIsProved
  BY DEF AcquisitionInit, NoPlan, CompiledChainIsProved
<1>2. CompiledChainIsProved /\ [AcquisitionNext]_acqVars => CompiledChainIsProved'
  <2> SUFFICES ASSUME CompiledChainIsProved, [AcquisitionNext]_acqVars PROVE CompiledChainIsProved'
    OBVIOUS
  <2>1. CASE UNCHANGED acqPlan
    BY <2>1 DEF CompiledChainIsProved
  <2>2. CASE acqPlan' = NoPlan
    BY <2>2 DEF CompiledChainIsProved, NoPlan
  <2>3. CASE AcquisitionPass
    <3>1. PICK text \in Wordings : \E claims \in SeqOf(Admissible(text), 2) :
            LET compiled == CompileClaims(claims) IN
            /\ ~compiled.raised
            /\ acqPlan' = [on |-> TRUE, actions |-> compiled.actions, squad |-> context0.squad, claims |-> context0.claims]
      BY <2>3 DEF AcquisitionPass
    <3>2. PICK claims \in SeqOf(Admissible(text), 2) :
            /\ ~CompileClaims(claims).raised
            /\ acqPlan' = [on |-> TRUE, actions |-> CompileClaims(claims).actions, squad |-> context0.squad, claims |-> context0.claims]
      BY <3>1
    <3>3. claims \in Seq(Admissible(text))
      <4>1. PICK m \in 0 .. 2 : claims \in [1 .. m -> Admissible(text)]
        BY <3>2 DEF SeqOf
      <4> QED BY <4>1
    <3>4. InStep(CompileClaims(claims))
      BY <3>3, CompiledInStep
    <3> DEFINE compiled == CompileClaims(claims)
    <3>5. Kinds(compiled.actions) = {"free_agent"} => Proof(compiled.actions, context0.squad).ok
      BY <3>2, <3>4 DEF InStep
    <3> HIDE DEF compiled
    <3>6. acqPlan'.actions = compiled.actions /\ acqPlan'.squad = context0.squad
      BY <3>2 DEF compiled
    <3>7. Kinds(compiled.actions) = {"free_agent"} => Proved(acqPlan'.actions, acqPlan'.squad)
      BY <3>5, <3>6 DEF Proved
    <3> QED BY <3>6, <3>7 DEF CompiledChainIsProved
  <2> QED
    BY <2>1, <2>2, <2>3 DEF AcquisitionNext, SynchroniseAcquisitions, IngestSquad, ObservePlayers, ObservationLapses,
       Reconcile, LeaseAcquisition, AnnounceAcquisition, PreflightAcquisition, AskBoundary, Submit, OwnerAdds, OwnerClaims, OwnerCancelsRow,
       WaiversRun, RivalTakes, WindowShuts, acqVars
<1> QED BY <1>1, <1>2, PTL DEF AcquisitionSpec

-----------------------------------------------------------------------------
(* Pending claims: the decided one is cancelled.                           *)

QueueTyped == queue \in Seq(Claim)

\* The agent is idle, holds the copy of a command, or has prepared it.
EditorTyped ==
  \/ editor = [stage |-> "idle"]
  \/ editor \in [stage : {"leased", "preflight"}, row : {editor.row}, edit : {editor.edit}]
  \/ editor \in [stage : {editor.stage}, row : {editor.row}, edit : {editor.edit},
                 saw : {editor.saw}, calm : BOOLEAN, index : Nat \ {0}]

\* While it prepares and cancels, the agent remembers the queue it saw and the
\* place of the one row that fits the claim.
PlaceRemembered ==
  editor.stage \in {"prepared", "CANCEL"} =>
    /\ editor.stage = "CANCEL" => Edit.type = "CANCEL"
    /\ Edit.type = "CANCEL" /\ editor.calm =>
         queue = editor.saw /\ MatchingRows(Edit.claim) = {editor.index}

EditInv == QueueTyped /\ EditorTyped /\ PlaceRemembered

LEMMA RemoveKeepsType ==
  ASSUME NEW S, NEW q \in Seq(S), NEW i \in DOMAIN q
  PROVE  RemoveAt(q, i) \in Seq(S) /\ Len(RemoveAt(q, i)) = Len(q) - 1
BY DEF RemoveAt

LEMMA InsertKeepsType ==
  ASSUME NEW S, NEW q \in Seq(S), NEW i \in 1 .. Len(q) + 1, NEW x \in S
  PROVE  InsertAt(q, i, x) \in Seq(S)
BY DEF InsertAt

LEMMA QueuesTyped == Queues \subseteq Seq(Claim)
<1>1. MaxQueue \in Nat
  BY PendingAssumption
<1> QED BY <1>1 DEF Queues, SeqOf

LEMMA FirstOfRows ==
  ASSUME QueueTyped, NEW claim, MatchingRows(claim) # {}
  PROVE  FirstOf(MatchingRows(claim)) \in DOMAIN queue
<1>1. MatchingRows(claim) \in SUBSET Nat
  BY DEF MatchingRows, QueueTyped
<1>2. FirstOf(MatchingRows(claim)) \in MatchingRows(claim)
  BY <1>1, LeastNumber DEF FirstOf
<1> QED BY <1>2 DEF MatchingRows

LEMMA PendingInitInv == PendingInit => EditInv
BY QueuesTyped DEF PendingInit, EditInv, QueueTyped, EditorTyped, PlaceRemembered

LEMMA PendingStepInv == EditInv /\ [PendingNext]_pendingVars => EditInv'
<1> SUFFICES ASSUME EditInv, [PendingNext]_pendingVars PROVE EditInv'
  OBVIOUS
<1>a. QueueTyped /\ EditorTyped /\ PlaceRemembered
  BY DEF EditInv
<1>1. CASE ManagePending \/ SynchronisePending \/ Heartbeat \/ SnapshotLapses \/ UNCHANGED pendingVars
  <2>1. UNCHANGED <<queue, editor>>
    BY <1>1 DEF ManagePending, SynchronisePending, Heartbeat, SnapshotLapses, pendingVars
  <2> QED BY <1>a, <2>1 DEF EditInv, QueueTyped, EditorTyped, PlaceRemembered, Edit, MatchingRows
<1>2. CASE LeaseEdit
  <2>1. PICK n \in EditRows : editor' = [stage |-> "leased", row |-> n, edit |-> edits[n].edit]
    BY <1>2 DEF LeaseEdit
  <2>2. UNCHANGED queue
    BY <1>2 DEF LeaseEdit
  <2> QED BY <1>a, <2>1, <2>2 DEF EditInv, QueueTyped, EditorTyped, PlaceRemembered
<1>2a. CASE AnnounceEdit
  <2>1. UNCHANGED queue /\ editor' = [editor EXCEPT !.stage = "preflight"]
    BY <1>2a DEF AnnounceEdit
  <2>2. EditorTyped' /\ editor'.stage = "preflight"
    <3>1. CASE editor \in [stage : {"leased", "preflight"}, row : {editor.row}, edit : {editor.edit}]
      BY <2>1, <3>1 DEF EditorTyped
    <3>2. CASE editor \in [stage : {editor.stage}, row : {editor.row}, edit : {editor.edit},
                           saw : {editor.saw}, calm : BOOLEAN, index : Nat \ {0}]
      BY <2>1, <3>2 DEF EditorTyped
    <3> QED BY <1>a, <1>2a, <3>1, <3>2 DEF EditorTyped, AnnounceEdit
  <2> QED BY <1>a, <2>1, <2>2 DEF EditInv, QueueTyped, PlaceRemembered
<1>3. ASSUME editor' = [stage |-> "idle"], UNCHANGED queue PROVE EditInv'
  BY <1>a, <1>3 DEF EditInv, QueueTyped, EditorTyped, PlaceRemembered
<1>4. CASE PreflightPending
  <2>1. UNCHANGED queue
    BY <1>4 DEF PreflightPending
  <2>2. CASE \E status \in {"verified", "blocked"} : SettleEdit(status)
    BY <1>3, <2>1, <2>2 DEF SettleEdit
  <2>3. CASE Edit.type = "CANCEL" /\ UniqueMatch(Edit.claim) /\ Prepared(FirstOf(MatchingRows(Edit.claim)))
    <3>1. PICK i \in DOMAIN queue : MatchingRows(Edit.claim) = {i}
      BY <2>3 DEF UniqueMatch
    <3>2. FirstOf({i}) = i
      BY <1>a DEF FirstOf, QueueTyped
    <3>3. i \in Nat \ {0}
      BY <1>a DEF QueueTyped
    <3>4. editor' = [stage |-> "prepared", row |-> editor.row, edit |-> Edit, saw |-> queue, calm |-> TRUE, index |-> i]
      BY <2>3, <3>1, <3>2 DEF Prepared
    <3>5. MatchingRows(Edit.claim)' = {i}
      BY <2>1, <3>1, <3>4 DEF MatchingRows, Edit
    <3> QED BY <1>a, <2>1, <3>3, <3>4, <3>5 DEF EditInv, QueueTyped, EditorTyped, PlaceRemembered
  <2>4. CASE Edit.type # "CANCEL" /\ Prepared(1)
    <3>1. editor' = [stage |-> "prepared", row |-> editor.row, edit |-> Edit, saw |-> queue, calm |-> TRUE, index |-> 1]
      BY <2>4 DEF Prepared
    <3> QED BY <1>a, <2>1, <2>4, <3>1 DEF EditInv, QueueTyped, EditorTyped, PlaceRemembered, Edit
  <2> QED BY <1>4, <2>2, <2>3, <2>4 DEF PreflightPending
<1>5. CASE WritePending
  <2>1. UNCHANGED queue
    BY <1>5 DEF WritePending
  <2>2. CASE \E status \in {"blocked", "unverified"} : SettleEdit(status)
    BY <1>3, <2>1, <2>2 DEF SettleEdit
  <2>3. CASE editor' = [editor EXCEPT !.stage = Edit.type]
    <3>1. editor \in [stage : {editor.stage}, row : {editor.row}, edit : {editor.edit},
                      saw : {editor.saw}, calm : BOOLEAN, index : Nat \ {0}]
      BY <1>a, <1>5 DEF EditorTyped, WritePending
    <3>2. /\ EditorTyped'
          /\ editor'.stage = Edit.type /\ Edit' = Edit /\ editor'.calm = editor.calm
          /\ editor'.saw = editor.saw /\ editor'.index = editor.index
      BY <2>3, <3>1 DEF EditorTyped, Edit
    <3>3. MatchingRows(Edit.claim)' = MatchingRows(Edit.claim)
      BY <2>1, <3>2 DEF MatchingRows
    <3> QED BY <1>a, <1>5, <2>1, <3>2, <3>3 DEF EditInv, QueueTyped, PlaceRemembered, WritePending
  <2> QED BY <1>5, <2>2, <2>3 DEF WritePending
<1>6. CASE CancelClaim
  <2>1. editor \in [stage : {editor.stage}, row : {editor.row}, edit : {editor.edit},
                    saw : {editor.saw}, calm : BOOLEAN, index : Nat \ {0}]
    BY <1>a, <1>6 DEF EditorTyped, CancelClaim
  <2>2. EditorTyped' /\ editor'.stage = "verifying"
    BY <1>6, <2>1 DEF EditorTyped, CancelClaim
  <2>3. QueueTyped'
    <3>1. CASE editor.index <= Len(queue)
      <4>1. editor.index \in DOMAIN queue
        BY <1>a, <2>1, <3>1 DEF QueueTyped
      <4> QED BY <1>6, <1>a, <3>1, <4>1, RemoveKeepsType DEF CancelClaim, QueueTyped
    <3>2. CASE ~(editor.index <= Len(queue))
      BY <1>6, <1>a, <3>2 DEF CancelClaim, QueueTyped
    <3> QED BY <3>1, <3>2
  <2> QED BY <2>2, <2>3 DEF EditInv, PlaceRemembered
<1>7. CASE DragClaim
  <2>1. CASE SettleEdit("unverified") /\ UNCHANGED queue
    BY <1>3, <2>1 DEF SettleEdit
  <2> DEFINE desired == Edit.after[editor.index]
  <2>2. CASE /\ MatchingRows(desired) # {}
             /\ queue' = IF editor.index <= Len(queue) THEN Dragged(queue, SourceOf(desired), editor.index) ELSE queue
             /\ editor' = [editor EXCEPT !.index = @ + 1,
                             !.stage = IF editor.index = Len(Edit.after) THEN "verifying" ELSE "REORDER"]
    <3>1. editor \in [stage : {editor.stage}, row : {editor.row}, edit : {editor.edit},
                      saw : {editor.saw}, calm : BOOLEAN, index : Nat \ {0}]
      BY <1>a, <1>7 DEF EditorTyped, DragClaim
    <3>2. EditorTyped' /\ editor'.stage \in {"verifying", "REORDER"}
      <4> DEFINE next == IF editor.index = Len(Edit.after) THEN "verifying" ELSE "REORDER"
                 place == editor.index + 1
      <4>1. next \in {"verifying", "REORDER"} /\ place \in Nat \ {0}
        BY <3>1
      <4>2. editor' = [editor EXCEPT !.index = place, !.stage = next]
        BY <2>2
      <4> HIDE DEF next, place
      <4>3. editor' = [stage |-> next, row |-> editor.row, edit |-> editor.edit,
                       saw |-> editor.saw, calm |-> editor.calm, index |-> place]
        BY <3>1, <4>2
      <4> QED BY <3>1, <4>1, <4>3 DEF EditorTyped
    <3>3. QueueTyped'
      <4>1. CASE editor.index <= Len(queue)
        <5> DEFINE source == SourceOf(desired)
        <5>1. source \in DOMAIN queue
          BY <1>a, <2>2, FirstOfRows DEF SourceOf
        <5>2. queue \in Seq(Claim) /\ queue[source] \in Claim
          BY <1>a, <5>1 DEF QueueTyped
        <5>3. RemoveAt(queue, source) \in Seq(Claim) /\ Len(RemoveAt(queue, source)) = Len(queue) - 1
          BY <5>1, <5>2, RemoveKeepsType
        <5>4. editor.index \in 1 .. Len(RemoveAt(queue, source)) + 1
          BY <3>1, <4>1, <5>2, <5>3
        <5>5. InsertAt(RemoveAt(queue, source), editor.index, queue[source]) \in Seq(Claim)
          BY <5>2, <5>3, <5>4, InsertKeepsType
        <5> QED BY <2>2, <4>1, <5>5 DEF QueueTyped, Dragged
      <4>2. CASE ~(editor.index <= Len(queue))
        BY <1>a, <2>2, <4>2 DEF QueueTyped
      <4> QED BY <4>1, <4>2
    <3> QED BY <3>2, <3>3 DEF EditInv, PlaceRemembered
  <2> QED BY <1>7, <2>1, <2>2 DEF DragClaim
<1>8. CASE VerifyPending
  BY <1>3, <1>8 DEF VerifyPending, SettleEdit
<1>9. CASE OwnerEdits
  <2>1. QueueTyped'
    BY <1>9, QueuesTyped DEF OwnerEdits, QueueTyped
  <2>2. CASE editor' = editor /\ "calm" \notin DOMAIN editor
    <3>1. editor.stage \notin {"prepared", "CANCEL"} \/ editor \in [stage : {"leased", "preflight"}, row : {editor.row}, edit : {editor.edit}]
      BY <1>a, <2>2 DEF EditorTyped
    <3> QED BY <1>a, <2>1, <2>2, <3>1 DEF EditInv, EditorTyped, PlaceRemembered
  <2>3. CASE editor' = [editor EXCEPT !.calm = FALSE] /\ "calm" \in DOMAIN editor
    <3>1. editor \in [stage : {editor.stage}, row : {editor.row}, edit : {editor.edit},
                      saw : {editor.saw}, calm : BOOLEAN, index : Nat \ {0}]
      BY <1>a, <2>3 DEF EditorTyped
    <3>2. EditorTyped' /\ editor'.stage = editor.stage /\ Edit' = Edit /\ ~editor'.calm
      BY <2>3, <3>1 DEF EditorTyped, Edit
    <3> QED BY <1>a, <2>1, <3>2 DEF EditInv, PlaceRemembered
  <2> QED BY <1>9, <2>2, <2>3 DEF OwnerEdits
<1> QED
  BY <1>1, <1>2, <1>2a, <1>4, <1>5, <1>6, <1>7, <1>8, <1>9 DEF PendingNext

LEMMA EditInvariant == PendingSpec => []EditInv
<1>1. PendingInit => EditInv
  BY PendingInitInv
<1>2. EditInv /\ [PendingNext]_pendingVars => EditInv'
  BY PendingStepInv
<1> QED BY <1>1, <1>2, PTL DEF PendingSpec

(* "Exact cancellations run bottom-up": while nobody else edits the queue  *)
(* the agent prepared for, the row it cancels is that of the claim it was  *)
(* decided for, if that claim is there or names a drop; two rows the panel *)
(* cannot tell apart are left alone.                                       *)
THEOREM CancelsOnlyTheDecidedClaim == PendingSpec => CancelsTheDecidedClaim
<1> DEFINE A == editor.stage = "CANCEL" /\ editor'.stage = "verifying" /\ editor.calm
                  /\ (Edit.claim \in ToSet(queue) \/ Edit.claim.drop # NoDrop) =>
                \E i \in DOMAIN queue : Exactly(queue[i], Edit.claim) /\ queue' = RemoveAt(queue, i)
<1>1. EditInv /\ [PendingNext]_pendingVars => [A]_pendingVars
  <2> SUFFICES ASSUME EditInv, PendingNext, editor.stage = "CANCEL", editor'.stage = "verifying", editor.calm,
                      Edit.claim \in ToSet(queue) \/ Edit.claim.drop # NoDrop
               PROVE  \E i \in DOMAIN queue : Exactly(queue[i], Edit.claim) /\ queue' = RemoveAt(queue, i)
    OBVIOUS
  <2> DEFINE i == editor.index
  <2>1. MatchingRows(Edit.claim) = {i}
    BY DEF EditInv, PlaceRemembered
  <2>2. i \in DOMAIN queue /\ Fits(queue[i], Edit.claim)
    BY <2>1 DEF MatchingRows
  <2>3. Exactly(queue[i], Edit.claim)
    <3>1. CASE Edit.claim.drop # NoDrop
      BY <2>2, <3>1 DEF Fits, Exactly
    <3>2. CASE Edit.claim \in ToSet(queue)
      <4>1. PICK j \in DOMAIN queue : queue[j] = Edit.claim
        BY <3>2 DEF ToSet
      <4>2. j \in MatchingRows(Edit.claim)
        BY <4>1 DEF MatchingRows, Fits
      <4> QED BY <2>1, <4>1, <4>2 DEF Exactly
    <3> QED BY <3>1, <3>2
  <2>4. CancelClaim
    <3>1. CASE OwnerEdits
      <4>1. editor.stage = editor'.stage
        BY <3>1 DEF EditInv, EditorTyped, OwnerEdits
      <4> QED BY <4>1
    <3>2. CASE ~OwnerEdits
      BY <3>2 DEF PendingNext, ManagePending, SynchronisePending, Heartbeat, SnapshotLapses, LeaseEdit, AnnounceEdit, PreflightPending,
                  WritePending, DragClaim, VerifyPending
    <3> QED BY <3>1, <3>2
  <2>5. queue' = RemoveAt(queue, i)
    BY <2>2, <2>4 DEF EditInv, QueueTyped, CancelClaim
  <2> QED BY <2>2, <2>3, <2>5
<1> QED BY <1>1, EditInvariant, PTL DEF PendingSpec, CancelsTheDecidedClaim

-----------------------------------------------------------------------------
(* Injured reserve.                                                        *)

\* A move into the reserve is decided for a reserve with a free slot.
Sized(action) == action.type = "MOVE_TO_IR" => Cardinality(action.before) < Capacity

AllSized(actions) == (\E S : actions \in Seq(S)) /\ \A k \in DOMAIN actions : Sized(actions[k])

ChainsTo(c, n, f) ==
  f = [k \in 0 .. n |->
         IF k = 0 THEN [working |-> OnReserve(c), actions |-> <<>>]
         ELSE IF k <= Len(c.reserve) THEN Leaver(c, f[k - 1], c.reserve[k]) ELSE Filler(c, f[k - 1])]

LEMMA ChainTurns ==
  ASSUME NEW c, NEW m \in Nat
  PROVE  \A n \in 0 .. m : \E f : ChainsTo(c, n, f)
<1> DEFINE bad == {n \in 0 .. m : ~\E f : ChainsTo(c, n, f)}
           NextLink(k, chain) == IF k <= Len(c.reserve) THEN Leaver(c, chain, c.reserve[k]) ELSE Filler(c, chain)
<1>1. ASSUME bad # {} PROVE FALSE
  <2>0. bad \in SUBSET Nat
    OBVIOUS
  <2> HIDE DEF bad
  <2>1. PICK n \in bad : \A i \in bad : n <= i
    BY <1>1, <2>0, LeastNumber
  <2> USE DEF bad
  <2>2. CASE n = 0
    <3>1. ChainsTo(c, 0, [k \in 0 .. 0 |-> [working |-> OnReserve(c), actions |-> <<>>]])
      BY DEF ChainsTo
    <3> QED BY <2>1, <2>2, <3>1
  <2>3. CASE n # 0
    <3>1. n - 1 \in 0 .. m /\ n - 1 \notin bad
      BY <2>1, <2>3
    <3>2. PICK f : ChainsTo(c, n - 1, f)
      BY <3>1
    <3> DEFINE g == [k \in 0 .. n |-> IF k = n THEN NextLink(n, f[n - 1]) ELSE f[k]]
    <3>3. \A k \in 0 .. n - 1 : f[k] = IF k = 0 THEN [working |-> OnReserve(c), actions |-> <<>>] ELSE NextLink(k, f[k - 1])
      BY <3>1, <3>2 DEF ChainsTo
    <3> HIDE DEF NextLink
    <3>4. \A k \in 0 .. n : g[k] = IF k = 0 THEN [working |-> OnReserve(c), actions |-> <<>>] ELSE NextLink(k, g[k - 1])
      <4>1. n \in Nat \ {0} /\ n - 1 \in 0 .. n
        BY <2>1, <2>3
      <4>2. g[n] = NextLink(n, f[n - 1])
        BY <4>1
      <4>3. \A k \in 0 .. n - 1 : g[k] = f[k]
        BY <4>1
      <4> HIDE DEF g
      <4>4. ASSUME NEW k \in 0 .. n, k = n PROVE g[k] = NextLink(k, g[k - 1])
        BY <4>1, <4>2, <4>3, <4>4
      <4>5. ASSUME NEW k \in 0 .. n - 1, k # 0 PROVE g[k] = NextLink(k, g[k - 1])
        <5>1. k - 1 \in 0 .. n - 1
          BY <4>1, <4>5
        <5> QED BY <3>3, <4>3, <4>5, <5>1
      <4>6. g[0] = [working |-> OnReserve(c), actions |-> <<>>]
        BY <3>3, <4>1, <4>3
      <4> QED BY <4>1, <4>4, <4>5, <4>6
    <3>5. ChainsTo(c, n, g)
      BY <3>4 DEF ChainsTo, NextLink
    <3> QED BY <2>1, <3>5
  <2> QED BY <2>2, <2>3
<1> QED BY <1>1

LEMMA LinkSized ==
  ASSUME NEW c, NEW chain, AllSized(chain.actions), NEW type, NEW player, NEW after,
         type = "MOVE_TO_IR" => Cardinality(chain.working) < Capacity
  PROVE  AllSized(Link(c, chain, type, player, after).actions)
<1> DEFINE action == [type |-> type, player |-> player, observed |-> c.injury[player], players |-> c.roster,
                      before |-> chain.working, after |-> after]
<1>1. Link(c, chain, type, player, after).actions = Append(chain.actions, action)
  BY DEF Link
<1>2. Sized(action)
  BY DEF Sized
<1>3. PICK S : chain.actions \in Seq(S)
  BY DEF AllSized
<1> HIDE DEF action
<1>4. Append(chain.actions, action) \in Seq(S \cup {action})
  BY <1>3, AppendedSeq
<1>5. \A k \in DOMAIN Append(chain.actions, action) : Append(chain.actions, action)[k] = action \/
        (k \in DOMAIN chain.actions /\ Append(chain.actions, action)[k] = chain.actions[k])
  BY <1>3
<1> QED BY <1>1, <1>2, <1>4, <1>5 DEF AllSized

LEMMA PlanSized ==
  ASSUME NEW c, c \in League
  PROVE  AllSized(BuildIrPlan(c))
<1> DEFINE rounds == Len(c.reserve) + Capacity
           h == CHOOSE f : ChainsTo(c, rounds, f)
<1>1. rounds \in Nat
  BY ReserveAssumption DEF League
<1>2. BuildIrPlan(c) = h[rounds].actions
  BY DEF BuildIrPlan, ChainsTo
<1>3. ChainsTo(c, rounds, h)
  <2> HIDE DEF rounds
  <2>1. \E f : ChainsTo(c, rounds, f)
    <3>1. rounds \in 0 .. rounds
      BY <1>1
    <3> QED BY <1>1, <3>1, ChainTurns
  <2> QED BY <2>1
<1> HIDE DEF h, rounds
<1> DEFINE bad == {k \in 0 .. rounds : ~AllSized(h[k].actions)}
<1>4. ASSUME bad # {} PROVE FALSE
  <2>0. bad \in SUBSET Nat
    BY <1>1
  <2> HIDE DEF bad
  <2>1. PICK k \in bad : \A i \in bad : k <= i
    BY <1>4, <2>0, LeastNumber
  <2> USE DEF bad
  <2>2. h[k] = IF k = 0 THEN [working |-> OnReserve(c), actions |-> <<>>]
               ELSE IF k <= Len(c.reserve) THEN Leaver(c, h[k - 1], c.reserve[k]) ELSE Filler(c, h[k - 1])
    BY <1>3, <2>1 DEF ChainsTo
  <2>3. CASE k = 0
    <3>1. h[k].actions = <<>> /\ <<>> \in Seq({})
      BY <2>2, <2>3
    <3>2. AllSized(<<>>)
      BY <3>1 DEF AllSized
    <3> QED BY <2>1, <3>1, <3>2
  <2>4. CASE k # 0
    <3>1. AllSized(h[k - 1].actions)
      BY <1>1, <2>1, <2>4
    <3>2. AllSized(Leaver(c, h[k - 1], c.reserve[k]).actions)
      BY <3>1, LinkSized DEF Leaver
    <3>3. AllSized(Filler(c, h[k - 1]).actions)
      <4>1. CASE Cardinality(h[k - 1].working) < Capacity
        BY <3>1, <4>1, LinkSized DEF Filler
      <4>2. CASE ~(Cardinality(h[k - 1].working) < Capacity)
        BY <3>1, <4>2 DEF Filler
      <4> QED BY <4>1, <4>2
    <3> QED BY <2>1, <2>2, <2>4, <3>2, <3>3
  <2> QED BY <2>3, <2>4
<1> QED BY <1>1, <1>2, <1>4

\* Every move, from the plan to the agent's hand, was decided for a reserve
\* with a free slot, and the agent has seen that reserve.
MovesSized ==
  /\ \A k \in DOMAIN reservePlan : Sized(reservePlan[k])
  /\ \A row \in Rows : Sized(row)

MoverTyped ==
  \/ mover = Agent
  \/ mover \in [stage : {"leased", "preflight"}, action : {mover.action}] /\ Sized(mover.action)
  \/ /\ mover \in [stage : {"seen"}, action : {mover.action}, saw : {mover.saw}] /\ Sized(mover.action)
     /\ mover.saw = mover.action.before

ReserveInv == sleeper \in League /\ context \in League /\ MovesSized /\ MoverTyped

LEMMA OffTyped ==
  ASSUME NEW reserve \in Seq(Athlete), NEW p
  PROVE  Off(reserve, p) \in Seq(Athlete)
<1>1. CASE p \in ToSet(reserve)
  <2> DEFINE i == CHOOSE i \in DOMAIN reserve : reserve[i] = p
  <2>1. i \in DOMAIN reserve
    BY <1>1 DEF ToSet
  <2> HIDE DEF i
  <2>2. RemoveAt(reserve, i) \in Seq(Athlete)
    BY <2>1, RemoveKeepsType
  <2> QED BY <1>1, <2>2 DEF Off, i
<1>2. CASE p \notin ToSet(reserve)
  BY <1>2 DEF Off
<1> QED BY <1>1, <1>2

LEMMA ReserveInitInv == ReserveInit => ReserveInv
<1> SUFFICES ASSUME ReserveInit PROVE ReserveInv
  OBVIOUS
<1>1. PICK onReserve \in Athlete, injury \in [Athlete -> Injury] :
        sleeper = [roster |-> Athlete, reserve |-> <<onReserve>>, injury |-> injury, locked |-> {}]
  BY DEF ReserveInit
<1>2. sleeper \in League /\ context \in League
  BY <1>1 DEF ReserveInit, League
<1>3. MovesSized /\ MoverTyped
  BY DEF ReserveInit, MovesSized, Rows, MoverTyped
<1> QED BY <1>2, <1>3 DEF ReserveInv

LEMMA ReserveStepInv == ReserveInv /\ [ReserveNext]_reserveVars => ReserveInv'
<1> SUFFICES ASSUME ReserveInv, [ReserveNext]_reserveVars PROVE ReserveInv'
  OBVIOUS
<1>a. sleeper \in League /\ context \in League /\ MovesSized /\ MoverTyped
  BY DEF ReserveInv
<1>b. ASSUME UNCHANGED <<context, reservePlan>>, sleeper' \in League, UNCHANGED Rows, mover' = Agent PROVE ReserveInv'
  BY <1>a, <1>b DEF ReserveInv, MovesSized, MoverTyped, Agent
<1>1. CASE UNCHANGED reserveVars
  BY <1>a, <1>1 DEF reserveVars, ReserveInv, MovesSized, Rows, MoverTyped, Agent, Sized
<1>2. CASE Decide
  <2>1. UNCHANGED <<sleeper, context, moves, mover>> /\ reservePlan' = BuildIrPlan(context)
    BY <1>2 DEF Decide
  <2>2. \A k \in DOMAIN reservePlan' : Sized(reservePlan'[k])
    BY <1>a, <2>1, PlanSized DEF AllSized
  <2> QED BY <1>a, <2>1, <2>2 DEF ReserveInv, MovesSized, Rows, MoverTyped, Agent, Sized
<1>3. CASE Synchronise
  <2>1. UNCHANGED <<sleeper, context, mover>> /\ reservePlan' = <<>> /\ (moves' = moves \/ moves' = Queued)
    BY <1>3 DEF Synchronise
  <2>2. Rows' \subseteq Rows \cup Planned
    BY <2>1 DEF Rows, Queued
  <2>3. \A row \in Rows' : Sized(row)
    BY <1>a, <2>2 DEF MovesSized, Planned
  <2>4. MovesSized'
    BY <2>1, <2>3 DEF MovesSized
  <2> QED BY <1>a, <2>1, <2>4 DEF ReserveInv, MoverTyped, Agent, Sized
<1>4. CASE Ingest
  BY <1>a, <1>4 DEF Ingest, ReserveInv, MovesSized, Rows, MoverTyped, Agent, Sized
<1>5. CASE LeaseMove
  <2>1. PICK row \in Rows : mover' = [stage |-> "leased", action |-> row] /\ UNCHANGED Rows
    BY <1>5 DEF LeaseMove, Rows
  <2>2. UNCHANGED <<sleeper, context, reservePlan>>
    BY <1>5 DEF LeaseMove
  <2>3. Sized(row)
    BY <1>a, <2>1 DEF MovesSized
  <2>4. MoverTyped'
    BY <2>1, <2>3 DEF MoverTyped, Sized
  <2> QED BY <1>a, <2>1, <2>2, <2>4 DEF ReserveInv, MovesSized
<1>5a. CASE AnnounceMove
  <2>1. UNCHANGED <<sleeper, context, reservePlan>> /\ UNCHANGED Rows /\ mover' = [mover EXCEPT !.stage = "preflight"]
    BY <1>5a DEF AnnounceMove, Rows
  <2>2. mover \in [stage : {"leased", "preflight"}, action : {mover.action}] /\ Sized(mover.action)
    BY <1>a, <1>5a DEF MoverTyped, Agent, AnnounceMove
  <2>3. MoverTyped'
    BY <2>1, <2>2 DEF MoverTyped, Sized
  <2> QED BY <1>a, <2>1, <2>3 DEF ReserveInv, MovesSized
<1>6. CASE PreflightIr
  <2>1. UNCHANGED <<sleeper, context, reservePlan>>
    BY <1>6 DEF PreflightIr
  <2>2. CASE \E status \in {"blocked", "verified"} : SettleMove(status)
    BY <1>a, <1>b, <2>1, <2>2 DEF SettleMove, Rows
  <2>3. CASE SameReserve(Held) /\ mover' = [stage |-> "seen", action |-> Held, saw |-> OnReserve(sleeper)] /\ UNCHANGED moves
    <3>1. Sized(Held)
      BY <1>a, <1>6 DEF MoverTyped, Agent, PreflightIr, Held
    <3>2. MoverTyped'
      BY <2>3, <3>1 DEF MoverTyped, SameReserve, Sized
    <3> QED BY <1>a, <2>1, <2>3, <3>2 DEF ReserveInv, MovesSized, Rows
  <2> QED BY <1>6, <2>2, <2>3 DEF PreflightIr
<1>7. CASE WriteIr
  <2>1. mover' = Agent /\ UNCHANGED Rows /\ UNCHANGED <<context, reservePlan>>
    BY <1>7 DEF WriteIr, SettleMove, Rows
  <2>2. sleeper' \in League
    <3>1. CASE UNCHANGED sleeper
      BY <1>a, <3>1
    <3>2. CASE ~UNCHANGED sleeper
      <4> DEFINE p == Held.player
      <4>1. p \in sleeper.roster /\ sleeper' = [sleeper EXCEPT !.reserve = IF Held.type = "MOVE_TO_IR" THEN Append(@, p) ELSE Off(@, p)]
        BY <1>7, <3>2 DEF WriteIr
      <4>2. p \in Athlete /\ sleeper.reserve \in Seq(Athlete)
        BY <1>a, <4>1 DEF League
      <4>3. Append(sleeper.reserve, p) \in Seq(Athlete) /\ Off(sleeper.reserve, p) \in Seq(Athlete)
        BY <4>2, OffTyped
      <4> HIDE DEF p
      <4> QED BY <1>a, <4>1, <4>3 DEF League
    <3> QED BY <3>1, <3>2
  <2> QED BY <1>b, <2>1, <2>2
<1>c. ASSUME UNCHANGED <<context, reservePlan, moves, mover>>, sleeper' \in League PROVE ReserveInv'
  BY <1>a, <1>c DEF ReserveInv, MovesSized, Rows, MoverTyped, Agent, Sized
<1>8. CASE OwnerMoves
  <2>1. PICK p \in sleeper.roster :
          sleeper' = [sleeper EXCEPT !.reserve =
            IF p \in OnReserve(sleeper) THEN Off(@, p) ELSE IF Len(@) < Capacity THEN Append(@, p) ELSE @]
    BY <1>8 DEF OwnerMoves
  <2>2. Append(sleeper.reserve, p) \in Seq(Athlete) /\ Off(sleeper.reserve, p) \in Seq(Athlete)
    BY <1>a, OffTyped DEF League
  <2>3. sleeper' \in League
    BY <1>a, <2>1, <2>2 DEF League
  <2> QED BY <1>8, <1>c, <2>3 DEF OwnerMoves
<1>9. CASE OwnerDrops
  <2>1. PICK p \in sleeper.roster : sleeper' = [sleeper EXCEPT !.roster = @ \ {p}, !.reserve = Off(@, p)]
    BY <1>9 DEF OwnerDrops
  <2>2. Off(sleeper.reserve, p) \in Seq(Athlete)
    BY <1>a, OffTyped DEF League
  <2>3. sleeper' \in League
    BY <1>a, <2>1, <2>2 DEF League
  <2> QED BY <1>9, <1>c, <2>3 DEF OwnerDrops
<1>10. CASE ReportChanges
  <2>1. PICK p \in sleeper.roster, s \in Injury : sleeper' = [sleeper EXCEPT !.injury[p] = s]
    BY <1>10 DEF ReportChanges
  <2>2. sleeper.injury \in [Athlete -> Injury]
    BY <1>a DEF League
  <2>3. [sleeper.injury EXCEPT ![p] = s] \in [Athlete -> Injury]
    BY <2>2
  <2>4. sleeper' \in League
    BY <1>a, <2>1, <2>3 DEF League
  <2> QED BY <1>10, <1>c, <2>4 DEF ReportChanges
<1>11. CASE Kickoff
  <2>1. PICK p \in sleeper.roster : sleeper' = [sleeper EXCEPT !.locked = @ \cup {p}]
    BY <1>11 DEF Kickoff
  <2>2. sleeper.locked \cup {p} \in SUBSET Athlete
    BY <1>a DEF League
  <2>3. sleeper' \in League
    BY <1>a, <2>1, <2>2 DEF League
  <2> QED BY <1>11, <1>c, <2>3 DEF Kickoff
<1> QED
  BY <1>1, <1>2, <1>3, <1>4, <1>5, <1>5a, <1>6, <1>7, <1>8, <1>9, <1>10, <1>11 DEF ReserveNext

LEMMA ReserveInvariant == ReserveSpec => []ReserveInv
<1>1. ReserveInit => ReserveInv
  BY ReserveInitInv
<1>2. ReserveInv /\ [ReserveNext]_reserveVars => ReserveInv'
  BY ReserveStepInv
<1> QED BY <1>1, <1>2, PTL DEF ReserveSpec

(* For every league and every number of slots: however stale the plan and  *)
(* whatever has become of its earlier links, the agent moves a player only *)
(* into a reserve it has just seen with a free slot.  The planner's loop   *)
(* decides each move for such a reserve, and the preflight wants exactly   *)
(* that one.                                                               *)
THEOREM NeverMovesIntoAFullReserve == ReserveSpec => []NeverIntoAFullReserve
<1>1. ReserveInv => NeverIntoAFullReserve
  BY DEF ReserveInv, MoverTyped, Agent, Sized, NeverIntoAFullReserve, Held
<1> QED BY <1>1, ReserveInvariant, PTL
=============================================================================
