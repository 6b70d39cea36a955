----------------------------- MODULE TradeOffers -----------------------------
(***************************************************************************)
(* Trades: a manager pass compiles proposals and answers, at most one      *)
(* batch of commands is in the outbox, and the browser agent stages each   *)
(* one in Sleeper's trade dialog, asks the server and presses the control. *)
(* The owner and the other managers trade at the same time, the backend    *)
(* sees rosters and offers as of their last report, and a network that     *)
(* fails may lose the click as well as the view that is to confirm it.     *)
(***************************************************************************)
EXTENDS Integers, Sequences, FiniteSets, SequencesExt

CONSTANTS
  Us, Rival,         \* our roster and the others
  Held0,             \* who holds which player at the beginning
  Swap,              \* the trades somebody may want: a rival, a player to send and one to receive
  MaxPerWeek,        \* in_season_trade_max_proposals_per_week
  MaxTradeRows,      \* bound: commands after which no pass decides any more
  MaxTradeTurns      \* bound: moves of the other managers, the owner and the calendar

Traded == DOMAIN Held0

ASSUME TradeAssumption ==
  /\ Us \notin Rival
  /\ Held0 \in [Traded -> Rival \cup {Us}]
  /\ Swap \subseteq [rival : Rival, send : Traded, receive : Traded]
  /\ {MaxPerWeek, MaxTradeRows, MaxTradeTurns} \subseteq Nat

VARIABLES
  holds,        \* the roster of every player
  offers,       \* the active offers
  knownHolds,   \* the rosters in the manager's reports
  inbox,        \* browser-trades.json
  inboxFresh,   \* whether it is young enough to be used
  tradePlan,    \* the compiled actions of the running pass
  tradeRows,    \* the trade commands, oldest first
  trader,       \* the browser agent
  tradeTurns

tradeVars == <<holds, offers, knownHolds, inbox, inboxFresh, tradePlan, tradeRows, trader, tradeTurns>>

TradeIdle == [stage |-> "idle"]
Stage(s) == trader' = [trader EXCEPT !.stage = s]

\* An offer that Sleeper can still carry out.
Possible(h, t) == h[t.send] = Us /\ h[t.receive] = t.rival
RosterOf(h, team) == {p \in Traded : h[p] = team}

Offer(t, by) == [swap |-> t, by |-> by]
Incoming(box) == {o.swap : o \in {x \in box : x.by = "rival"}}
Outgoing(box) == {o \in box : o.by # "rival"}

TradeInit ==
  /\ holds = Held0 /\ knownHolds = Held0
  /\ offers \in SUBSET {Offer(t, "rival") : t \in {u \in Swap : Possible(Held0, u)}}
  /\ inbox = offers /\ inboxFresh = TRUE
  /\ tradePlan = <<>> /\ tradeRows = <<>>
  /\ trader = TradeIdle
  /\ tradeTurns = 0

-----------------------------------------------------------------------------
(* The manager.                                                            *)

\* The context keeps an offer only while the known rosters can carry it out.
Known == {o \in inbox : inboxFresh /\ Possible(knownHolds, o.swap)}

TradeAction(type, t) ==
  [type |-> type, swap |-> t, ours |-> RosterOf(knownHolds, Us), theirs |-> RosterOf(knownHolds, t.rival)]

\* compile_trade_actions: proposals first, then the answers; the expert asks
\* every rival for a player once.
CompileTrades(proposed, accepted, declined) ==
  LET actions(type, swaps) == SetToSeq({TradeAction(type, t) : t \in swaps}) IN
  actions("PROPOSE", proposed) \o actions("ACCEPT", accepted) \o actions("DECLINE", declined)

TradePass ==
  /\ tradePlan = <<>> /\ Len(tradeRows) < MaxTradeRows
  /\ \E proposed \in SUBSET {t \in Swap : Possible(knownHolds, t)},
        accepted, declined \in SUBSET Incoming(Known) :
       /\ accepted \cap declined = {}
       /\ \A t, u \in proposed : t.receive = u.receive => t = u
       /\ tradePlan' = CompileTrades(proposed, accepted, declined)
       /\ tradePlan' # <<>> /\ Len(tradePlan') <= 2
  /\ UNCHANGED <<holds, offers, knownHolds, inbox, inboxFresh, tradeRows, trader, tradeTurns>>

\* A row that expires before it is leased stays "ready" and therefore active.
TradeActive == \E n \in DOMAIN tradeRows : tradeRows[n].status \in {"ready", "leased"}

Proposals == {n \in DOMAIN tradeRows : tradeRows[n].action.type = "PROPOSE"}
ThisWeek(rows) == Cardinality({n \in DOMAIN rows : rows[n].action.type = "PROPOSE" /\ rows[n].thisWeek})

\* The weekly limit counts along the batch; the cooldown does not see it.
Admitted(rows, action) ==
  action.type = "PROPOSE" =>
    /\ Outgoing(Known) = {}
    /\ ThisWeek(rows) < MaxPerWeek
    /\ \A n \in Proposals : tradeRows[n].action.swap.rival = action.swap.rival => ~tradeRows[n].cooling

\* propose_execution: the content of an action is its dedupe key.
Enqueue(rows, action) ==
  IF Admitted(rows, action) /\ \A n \in DOMAIN rows : rows[n].action # action
    THEN Append(rows, [action |-> action, status |-> "ready", expired |-> FALSE, thisWeek |-> TRUE, cooling |-> TRUE])
    ELSE rows

SynchroniseTrades ==
  /\ tradePlan # <<>>
  /\ tradePlan' = <<>>
  /\ tradeRows' = IF TradeActive THEN tradeRows ELSE FoldLeft(Enqueue, tradeRows, tradePlan)
  /\ UNCHANGED <<holds, offers, knownHolds, inbox, inboxFresh, trader, tradeTurns>>

IngestRosters ==
  /\ knownHolds' = holds
  /\ UNCHANGED <<holds, offers, inbox, inboxFresh, tradePlan, tradeRows, trader, tradeTurns>>

\* The heartbeat between two commands: the loop is one thread.
TradeHeartbeat ==
  /\ trader = TradeIdle
  /\ inbox' = offers /\ inboxFresh' = TRUE
  /\ UNCHANGED <<holds, offers, knownHolds, tradePlan, tradeRows, trader, tradeTurns>>

InboxLapses ==
  /\ inboxFresh' = FALSE
  /\ UNCHANGED <<holds, offers, knownHolds, inbox, tradePlan, tradeRows, trader, tradeTurns>>

-----------------------------------------------------------------------------
(* The browser agent.                                                      *)

LeaseTrade ==
  /\ trader = TradeIdle
  /\ \E n \in DOMAIN tradeRows :
       LET open(m) == tradeRows[m].status = "ready" /\ ~tradeRows[m].expired IN
       /\ open(n) /\ \A m \in DOMAIN tradeRows : m < n => ~open(m)
       /\ tradeRows' = [tradeRows EXCEPT ![n].status = "leased"]
       /\ trader' = [stage |-> "leased", row |-> n, action |-> tradeRows[n].action, undisturbed |-> TRUE]
  /\ UNCHANGED <<holds, offers, knownHolds, inbox, inboxFresh, tradePlan, tradeTurns>>

\* The lease answers with a copy of the command.
Trade == trader.action
SettleTrade(status) ==
  /\ tradeRows' = [tradeRows EXCEPT ![trader.row].status = status]
  /\ trader' = TradeIdle
Proceed(s) == Stage(s) /\ UNCHANGED tradeRows

OursAfter(t) == (t.ours \ {t.swap.send}) \cup {t.swap.receive}

\* Mutant: only the players of the trade are compared.
SameAssets(t) == Possible(holds, t.swap)
\* Both complete rosters, which makes the comparison of the assets redundant.
SameRosters(t) == RosterOf(holds, Us) = t.ours /\ RosterOf(holds, t.swap.rival) = t.theirs

PreflightTrade ==
  /\ trader.stage = "leased"
  /\ IF Trade.type = "ACCEPT" /\ RosterOf(holds, Us) = OursAfter(Trade) THEN SettleTrade("verified")
     ELSE IF ~SameRosters(Trade) THEN SettleTrade("blocked")
     ELSE trader' = [trader EXCEPT !.stage = "checked", !.undisturbed = TRUE] /\ UNCHANGED tradeRows
  /\ UNCHANGED <<holds, offers, knownHolds, inbox, inboxFresh, tradePlan, tradeTurns>>

\* Mutant: a proposal is staged whatever the dialog shows.
BuilderAlwaysOpen == TRUE
\* The dialog's title is "Propose Trade" while no offer is active.
BuilderOpen == offers = {}

\* prepareTradeProposal and prepareTradeResponse: an answer needs the exact
\* offer and its control, which only an incoming one has.
StageTrade ==
  /\ trader.stage = "checked"
  /\ LET ready == IF Trade.type = "PROPOSE" THEN BuilderOpen ELSE Trade.swap \in Incoming(offers)
     IN IF ready THEN Proceed("staged") ELSE SettleTrade("blocked")
  /\ UNCHANGED <<holds, offers, knownHolds, inbox, inboxFresh, tradePlan, tradeTurns>>

\* _trade_state_blockers on the rebuilt context, behind the evidence gate,
\* which wants a fresh inbox.
WriteTrade ==
  /\ trader.stage = "staged"
  /\ LET allowed ==
           /\ inboxFresh
           /\ RosterOf(knownHolds, Us) = Trade.ours
           /\ RosterOf(knownHolds, Trade.swap.rival) = Trade.theirs
           /\ IF Trade.type = "PROPOSE" THEN Outgoing(Known) = {} ELSE Trade.swap \in Incoming(Known)
     IN IF allowed THEN Proceed("cleared") ELSE SettleTrade("blocked")
  /\ UNCHANGED <<holds, offers, knownHolds, inbox, inboxFresh, tradePlan, tradeTurns>>

Exchange(t) == [holds EXCEPT ![t.send] = t.rival, ![t.receive] = Us]

\* The click returns before the request does (noWaitAfter), and a request
\* that is lost or comes too late changes nothing.
ClickTrade ==
  /\ trader.stage = "cleared"
  /\ Proceed("verifying")
  /\ \/ UNCHANGED <<holds, offers>>
     \/ /\ Trade.type = "PROPOSE" /\ Possible(holds, Trade.swap)
        /\ offers' = offers \cup {Offer(Trade.swap, "agent")}
        /\ UNCHANGED holds
     \/ /\ Trade.type = "ACCEPT" /\ Trade.swap \in Incoming(offers)
        /\ holds' = Exchange(Trade.swap)
        /\ offers' = {o \in offers : Possible(holds', o.swap)}
     \/ /\ Trade.type = "DECLINE" /\ Trade.swap \in Incoming(offers)
        /\ offers' = offers \ {Offer(Trade.swap, "rival")}
        /\ UNCHANGED holds
  /\ UNCHANGED <<knownHolds, inbox, inboxFresh, tradePlan, tradeTurns>>

\* A view that throws (no page, no dialog, no such offer) refutes a proposal
\* and confirms a decline.
Confirmed(readable) ==
  LET visible == \E o \in offers : o.swap = Trade.swap IN
  CASE Trade.type = "PROPOSE" -> readable /\ visible
    [] Trade.type = "DECLINE" -> ~(readable /\ visible)
    [] OTHER -> readable /\ RosterOf(holds, Us) = OursAfter(Trade)

VerifyTrade ==
  /\ trader.stage = "verifying"
  /\ \E readable \in BOOLEAN : SettleTrade(IF Confirmed(readable) THEN "verified" ELSE "unverified")
  /\ UNCHANGED <<holds, offers, knownHolds, inbox, inboxFresh, tradePlan, tradeTurns>>

-----------------------------------------------------------------------------
(* The calendar, the other managers and the owner.                         *)

TradeTurn == tradeTurns < MaxTradeTurns /\ tradeTurns' = tradeTurns + 1
Disturb == trader' = IF trader = TradeIdle THEN trader ELSE [trader EXCEPT !.undisturbed = FALSE]

RowExpires ==
  /\ TradeTurn
  /\ \E n \in DOMAIN tradeRows : tradeRows[n].status = "ready" /\ tradeRows' = [tradeRows EXCEPT ![n].expired = TRUE]
  /\ UNCHANGED <<holds, offers, knownHolds, inbox, inboxFresh, tradePlan, trader>>

\* Monday; the cooldown of in_season_trade_cooldown_days ends after one.
NewWeek ==
  /\ TradeTurn
  /\ \E cooled \in BOOLEAN :
       tradeRows' = [n \in DOMAIN tradeRows |->
         [tradeRows[n] EXCEPT !.thisWeek = FALSE, !.cooling = @ /\ (tradeRows[n].thisWeek \/ ~cooled)]]
  /\ UNCHANGED <<holds, offers, knownHolds, inbox, inboxFresh, tradePlan, trader>>

OfferMade ==
  /\ TradeTurn /\ Disturb
  /\ \E t \in Swap, by \in {"rival", "owner"} : Possible(holds, t) /\ offers' = offers \cup {Offer(t, by)}
  /\ UNCHANGED <<holds, knownHolds, inbox, inboxFresh, tradePlan, tradeRows>>

\* Declined, withdrawn or expired.
OfferEnds ==
  /\ TradeTurn /\ Disturb
  /\ \E o \in offers : offers' = offers \ {o}
  /\ UNCHANGED <<holds, knownHolds, inbox, inboxFresh, tradePlan, tradeRows>>

\* Another manager accepts an offer, or the owner does.
OfferAccepted ==
  /\ TradeTurn /\ Disturb
  /\ \E o \in offers : holds' = Exchange(o.swap) /\ offers' = {x \in offers : Possible(holds', x.swap)}
  /\ UNCHANGED <<knownHolds, inbox, inboxFresh, tradePlan, tradeRows>>

TradeNext ==
  \/ TradePass \/ SynchroniseTrades \/ IngestRosters \/ TradeHeartbeat \/ InboxLapses
  \/ LeaseTrade \/ PreflightTrade \/ StageTrade \/ WriteTrade \/ ClickTrade \/ VerifyTrade
  \/ RowExpires \/ NewWeek \/ OfferMade \/ OfferEnds \/ OfferAccepted

TradeSpec == TradeInit /\ [][TradeNext]_tradeVars

-----------------------------------------------------------------------------
(* "Outbound offers are limited to one per week, one active at a time"     *)
(* (in-season-data-plan.md): however old the backend's view of the offers, *)
(* and with several proposals of one batch or of two weeks in the outbox,  *)
(* the agent never has two offers of its own open.                         *)
OneOfferAtATime == Cardinality({o \in offers : o.by = "agent"}) <= 1

(* "The browser and backend bind both full rosters and exact assets        *)
(* immediately before clicking" (in-season-data-plan.md): an offer the     *)
(* agent accepts was decided for the rosters it is carried out on, also    *)
(* when one pass accepted two offers, unless somebody else acted between   *)
(* the preflight and the click.                                            *)
AcceptsOnDecidedRosters ==
  [][trader.stage = "cleared" /\ holds' # holds /\ trader.undisturbed =>
       RosterOf(holds, Us) = Trade.ours /\ RosterOf(holds, Trade.swap.rival) = Trade.theirs]_tradeVars

(* "Sleeper no longer shows the exact declined trade offer" (ui.mjs) is    *)
(* what a decline is verified with: the offer is gone.                     *)
DeclineIsReal ==
  [][trader.stage = "verifying" /\ Trade.type = "DECLINE" /\ tradeRows'[trader.row].status = "verified" =>
       Trade.swap \notin Incoming(offers)]_tradeVars
=============================================================================
