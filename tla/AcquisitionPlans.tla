-------------------------- MODULE AcquisitionPlans --------------------------
(***************************************************************************)
(* Adding players.  A manager pass compiles the expert's ordered claims    *)
(* into free-agent adds, each from the roster the one before leaves, or    *)
(* into a tree of waiver claims; a synchronisation behind a series of      *)
(* gates queues the first add or the whole tree; the browser agent stages  *)
(* the dialog, asks the backend once more and submits.  The lifecycle      *)
(* reconciler, whose report and incident stop further acquisitions, is     *)
(* reduced to its verdict; AcquisitionLifecycle holds its detail.          *)
(***************************************************************************)
EXTENDS Integers, Sequences, FiniteSets, SequencesExt

CONSTANTS
  FirstSquad,  \* the players of our roster at the beginning
  Pool,        \* players outside of it
  Mechanism0,  \* how Sleeper offers each of them: "waiver" or "free_agent"
  NobodyOut,   \* stands for an acquisition without a drop
  SquadSize,   \* the roster's capacity
  Churn,       \* players whose drop passes the automatic protection
  Wordings,    \* texts of one and the same decision: another text, another hash
  MaxAcqRows,  \* bound: commands after which the expert is no longer asked
  MaxAcqTurns  \* bound: acts of the owner and of the league

Acquirable == FirstSquad \cup Pool
AddDrop == [add : Acquirable, drop : Acquirable \cup {NobodyOut}]

ASSUME AcquisitionAssumption ==
  /\ FirstSquad \cap Pool = {} /\ NobodyOut \notin Acquirable
  /\ Mechanism0 \in [Pool -> {"waiver", "free_agent"}]
  /\ Churn \subseteq Acquirable
  /\ {SquadSize, MaxAcqRows, MaxAcqTurns} \subseteq Nat /\ Cardinality(FirstSquad) <= SquadSize

VARIABLES
  squad,       \* our roster at Sleeper
  mechanism,   \* how Sleeper offers every player; "none": not at all
  myWaivers,   \* our pending claims
  agentClaims, \* those of them the agent submitted
  publicLog,   \* processed transactions of the week, as the public API shows them
  context0,    \* the snapshots the manager's context is built from
  unresolved,  \* the lifecycle report names an unresolved acquisition
  acqPlan,     \* what the running pass compiled
  acqRows,     \* ADD_FREE_AGENT and WAIVER_CLAIM commands, oldest first
  buyer,       \* the browser agent
  shut,        \* the mechanisms whose safe window has closed
  acqTurns

acqVars == <<squad, mechanism, myWaivers, agentClaims, publicLog, context0, unresolved,
             acqPlan, acqRows, buyer, shut, acqTurns>>
sleeperVars == <<squad, mechanism, myWaivers, agentClaims, publicLog>>

NoPlan == [on |-> FALSE]
BuyerIdle == [stage |-> "idle"]

WithMove(players, c) == (players \ {c.drop}) \cup {c.add}
Pair(c) == [add |-> c.add, drop |-> c.drop]

\* build_manager_context: the squad of the last ingestion, the mechanisms of
\* the last observation and the pending claims while they are fresh.
ManagerContext(players, offered, claims) == [squad |-> players, mechanism |-> offered, claims |-> claims]

AcquisitionInit ==
  /\ squad = FirstSquad /\ myWaivers = {} /\ agentClaims = {} /\ publicLog = {}
  /\ mechanism = [p \in Acquirable |-> IF p \in Pool THEN Mechanism0[p] ELSE "none"]
  /\ context0 = ManagerContext(squad, mechanism, {})
  /\ unresolved = FALSE
  /\ acqPlan = NoPlan /\ acqRows = <<>> /\ buyer = BuyerIdle
  /\ shut = {} /\ acqTurns = 0

-----------------------------------------------------------------------------
(* Compiling the expert's claims.                                          *)

\* Mutant: every add starts from the roster as it is now.
StartsAtKnown(kind, sequential) == context0.squad

StartsAt(kind, sequential) == IF kind = "free_agent" THEN sequential ELSE context0.squad

\* One claim on top of the free-agent adds before it; a duplicate or a roster
\* over its capacity raises.
CompileOne(acc, c) ==
  LET kind == context0.mechanism[c.add]
      before == StartsAt(kind, acc.squad)
      after == WithMove(before, c)
      raises == kind = "free_agent" /\
        \/ c.add \in acc.adds \cup before
        \/ c.drop # NobodyOut /\ (c.drop \in acc.drops \/ c.drop \notin before)
        \/ Cardinality(after) > SquadSize
      action == [kind |-> kind, add |-> c.add, drop |-> c.drop, text |-> c.text, before |-> before, after |-> after]
  IN IF acc.raised \/ raises THEN [acc EXCEPT !.raised = TRUE]
     ELSE IF kind = "free_agent"
       THEN [raised |-> FALSE, squad |-> after, adds |-> acc.adds \cup {c.add},
             drops |-> acc.drops \cup ({c.drop} \ {NobodyOut}), actions |-> Append(acc.actions, action)]
       ELSE [acc EXCEPT !.actions = Append(acc.actions, action)]

NothingCompiled == [raised |-> FALSE, squad |-> context0.squad, adds |-> {}, drops |-> {}, actions |-> <<>>]

CompileClaims(claims) ==
  LET after[k \in 0 .. Len(claims)] == IF k = 0 THEN NothingCompiled ELSE CompileOne(after[k - 1], claims[k])
  IN after[Len(claims)]

\* The claims validate_decision admits: available players for players of the
\* roster, or for nobody while a place is open.  A decision has one wording.
Admissible(text) ==
  {c \in [add : Acquirable, drop : context0.squad \cup {NobodyOut}, text : {text}] :
     /\ context0.mechanism[c.add] # "none"
     /\ c.drop = NobodyOut => Cardinality(context0.squad) < SquadSize}

\* The lifecycle incident stops the reasoning itself.
AcquisitionPass ==
  /\ ~acqPlan.on /\ ~unresolved /\ Len(acqRows) < MaxAcqRows
  /\ \E text \in Wordings : \E claims \in SeqOf(Admissible(text), 2) :
       LET compiled == CompileClaims(claims) IN
       /\ ~compiled.raised
       /\ acqPlan' = [on |-> TRUE, actions |-> compiled.actions, squad |-> context0.squad, claims |-> context0.claims]
  /\ UNCHANGED <<sleeperVars, context0, unresolved, acqRows, buyer, shut, acqTurns>>

-----------------------------------------------------------------------------
(* Synchronising them with the outbox.                                     *)

Kinds(actions) == {actions[k].kind : k \in DOMAIN actions}

\* _sequential_free_agent_plan_error: the plan proved again, step by step.
ProvedStep(acc, a) ==
  [ok |-> /\ acc.ok /\ a.before = acc.now
          /\ a.add \notin acc.now \cup acc.adds
          /\ a.drop # NobodyOut => a.drop \in acc.now \ acc.drops
          /\ a.after = WithMove(acc.now, a),
   now |-> WithMove(acc.now, a), adds |-> acc.adds \cup {a.add}, drops |-> acc.drops \cup {a.drop}]
NothingProved(players) == [ok |-> TRUE, now |-> players, adds |-> {}, drops |-> {}]
Proof(actions, players) ==
  LET after[k \in 0 .. Len(actions)] == IF k = 0 THEN NothingProved(players) ELSE ProvedStep(after[k - 1], actions[k])
  IN after[Len(actions)]
Proved(actions, players) == Proof(actions, players).ok

\* _acquisition_prerequisite_error
Prerequisites ==
  /\ Cardinality(Kinds(acqPlan.actions)) = 1
  /\ "free_agent" \in Kinds(acqPlan.actions) => Proved(acqPlan.actions, acqPlan.squad)
  /\ "waiver" \in Kinds(acqPlan.actions) => acqPlan.claims \subseteq {Pair(acqPlan.actions[k]) : k \in DOMAIN acqPlan.actions}

Remaining == SelectSeq(acqPlan.actions, LAMBDA a : a.kind = "free_agent" \/ Pair(a) \notin acqPlan.claims)

\* Of several immediate adds only the first; the others wait for a new plan.
ToQueue == IF Kinds(Remaining) = {"free_agent"} THEN SubSeq(Remaining, 1, 1) ELSE Remaining

\* The dedupe key is the hash of all parameters.
SameKey(a, row) == a = row.action

\* Mutant: a cancellation or a failure is remembered for its exact text only.
SameIdentityExact(a, row) == SameKey(a, row)

SameIdentity(a, row) == a.kind = row.action.kind /\ Pair(a) = Pair(row.action)

Decided(actions, status) ==
  \E k \in DOMAIN actions, n \in DOMAIN acqRows : acqRows[n].status = status /\ SameIdentity(actions[k], acqRows[n])

Superseding ==
  [n \in DOMAIN acqRows |->
    IF acqRows[n].status = "ready" /\ \A k \in DOMAIN ToQueue : ~SameKey(ToQueue[k], acqRows[n])
    THEN [acqRows[n] EXCEPT !.status = "blocked"] ELSE acqRows[n]]

\* propose_execution's check of each action and of the tree it belongs to.
Group == {Pair(acqPlan.actions[k]) : k \in DOMAIN acqPlan.actions}
PolicyRefuses == "waiver" \in Kinds(acqPlan.actions) /\ Cardinality(Group) < Len(acqPlan.actions)

\* The actions without a row, up to the first whose row was settled: the loop
\* returns there.
NewAcqRows ==
  LET settled == {k \in DOMAIN ToQueue : \E n \in DOMAIN acqRows :
                    SameKey(ToQueue[k], acqRows[n]) /\ acqRows[n].status \notin {"ready", "leased"}}
      before == IF settled = {} THEN ToQueue
                ELSE SubSeq(ToQueue, 1, (CHOOSE k \in settled : \A j \in settled : k <= j) - 1)
      new == SelectSeq(before, LAMBDA a : \A n \in DOMAIN acqRows : ~SameKey(a, acqRows[n]))
  IN [k \in DOMAIN new |-> [action |-> new[k], group |-> Group, status |-> "ready"]]

InLease == \E n \in DOMAIN acqRows : acqRows[n].status = "leased"

\* _automatic_drop_is_safe: evaluate_drop's verdict, as a set of players.
DropIsSafe(a) == a.drop \in Churn \cup {NobodyOut}

\* The gates of synchronize_acquisition_actions, in their order; each returns
\* and leaves the outbox as it is.
Stopped ==
  \/ unresolved
  \/ acqPlan.actions = <<>> /\ acqPlan.claims # {}
  \/ acqPlan.actions # <<>> /\ (Remaining = <<>> \/ ~Prerequisites)
  \/ \E k \in DOMAIN Remaining : ~DropIsSafe(Remaining[k])
  \/ Decided(ToQueue, "cancelled") \/ Decided(ToQueue, "failed")
  \/ InLease

\* acquisition_execution_window of the mechanisms in the plan.
WindowOpen == Kinds(ToQueue) \cap shut = {}

SynchroniseAcquisitions ==
  /\ acqPlan.on
  /\ acqPlan' = NoPlan
  /\ acqRows' =
       IF Stopped THEN acqRows
       ELSE IF ~WindowOpen THEN Superseding
       ELSE IF NewAcqRows # <<>> /\ PolicyRefuses THEN acqRows   \* raises: all rolled back
       ELSE Superseding \o NewAcqRows
  /\ UNCHANGED <<sleeperVars, context0, unresolved, buyer, shut, acqTurns>>

-----------------------------------------------------------------------------
(* The snapshots and the reconciler.                                       *)

IngestSquad ==
  /\ context0' = ManagerContext(squad, context0.mechanism, context0.claims)
  /\ UNCHANGED <<sleeperVars, unresolved, acqPlan, acqRows, buyer, shut, acqTurns>>

\* parseFreeAgentRow: the class of a row's button is the mechanism; a player
\* whose row has neither is left out.
PlayersPage == {p \in Acquirable : mechanism[p] \in {"waiver", "free_agent"}}

\* The browser's observation of the Players page and of My Waivers; without
\* one the pending claims grow too old to be used.
ObservePlayers ==
  /\ context0' = ManagerContext(context0.squad,
       [p \in Acquirable |-> IF p \in PlayersPage THEN mechanism[p] ELSE "none"], myWaivers)
  /\ UNCHANGED <<sleeperVars, unresolved, acqPlan, acqRows, buyer, shut, acqTurns>>

ObservationLapses ==
  /\ context0' = ManagerContext(context0.squad, context0.mechanism, {})
  /\ UNCHANGED <<sleeperVars, unresolved, acqPlan, acqRows, buyer, shut, acqTurns>>

\* A transaction belongs to a row when it is not older than the row.
LoggedFor(n, status) ==
  \E t \in publicLog : t.claim = Pair(acqRows[n].action) /\ t.kind = acqRows[n].action.kind
                       /\ t.status = status /\ t.rows >= n

Outstanding(rows) ==
  \E n \in DOMAIN rows :
    \/ rows[n].status \in {"ready", "leased", "preflight"}
    \/ rows[n].status \in {"verified", "unverified"} /\ ~LoggedFor(n, "complete")

Reconcile ==
  LET judged == [n \in DOMAIN acqRows |->
        IF LoggedFor(n, "failed") /\ acqRows[n].status \in {"verified", "unverified"}
        THEN [acqRows[n] EXCEPT !.status = "failed"] ELSE acqRows[n]]
  IN /\ acqRows' = judged
     /\ unresolved' = Outstanding(judged)
     /\ UNCHANGED <<sleeperVars, context0, acqPlan, buyer, shut, acqTurns>>

-----------------------------------------------------------------------------
(* The browser agent.                                                      *)

LeaseAcquisition ==
  /\ buyer = BuyerIdle
  /\ \E n \in DOMAIN acqRows :
       LET open(m) == acqRows[m].status = "ready" /\ acqRows[m].action.kind \notin shut IN
       /\ open(n) /\ \A m \in DOMAIN acqRows : m < n => ~open(m)
       /\ acqRows' = [acqRows EXCEPT ![n].status = "leased"]
       /\ buyer' = [stage |-> "leased", row |-> n, action |-> acqRows[n].action]
  /\ UNCHANGED <<sleeperVars, context0, unresolved, acqPlan, shut, acqTurns>>

\* The report the loop sends before it looks at anything.
AnnounceAcquisition ==
  /\ buyer.stage = "leased"
  /\ acqRows' = [acqRows EXCEPT ![buyer.row].status = "preflight"]
  /\ buyer' = [buyer EXCEPT !.stage = "preflight"]
  /\ UNCHANGED <<sleeperVars, context0, unresolved, acqPlan, shut, acqTurns>>

\* The lease answers with a copy of the command.
Buying == buyer.action
SettleAcquisition(status) ==
  /\ acqRows' = [acqRows EXCEPT ![buyer.row].status = status]
  /\ buyer' = BuyerIdle

\* Mutant: the panel is not consulted.
NeverShown(a, claims) == FALSE

\* verifyPendingWaiverUi: one row of My Waivers fits; without a drop any does.
Shown(a, claims) == Cardinality({c \in claims : c.add = a.add /\ (a.drop # NobodyOut => c.drop = a.drop)}) = 1

\* preflightAcquisition, the look at My Waivers, and the staged dialog.
PreflightAcquisition ==
  LET committed == LoggedFor(buyer.row, "complete") /\ (Buying.kind = "free_agent" => squad = Buying.after)
      staged == mechanism[Buying.add] = Buying.kind /\ (Buying.drop # NobodyOut => Buying.drop \in squad)
  IN /\ buyer.stage = "preflight"
     /\ IF committed THEN SettleAcquisition("verified")
        ELSE IF squad # Buying.before THEN SettleAcquisition("blocked")
        ELSE IF Buying.kind = "waiver" /\ Shown(Buying, myWaivers) THEN SettleAcquisition("verified")
        ELSE IF ~staged THEN SettleAcquisition("blocked")
        ELSE buyer' = [buyer EXCEPT !.stage = "staged"] /\ UNCHANGED acqRows
     /\ UNCHANGED <<sleeperVars, context0, unresolved, acqPlan, shut, acqTurns>>

\* _acquisition_state_blockers on the rebuilt context, and the incident.
BoundaryAllows ==
  /\ ~unresolved
  /\ context0.squad = Buying.before
  /\ context0.mechanism[Buying.add] = Buying.kind
  /\ Buying.kind = "waiver" =>
       Pair(Buying) \notin context0.claims /\ context0.claims \subseteq acqRows[buyer.row].group

AskBoundary ==
  /\ buyer.stage = "staged"
  /\ IF BoundaryAllows THEN buyer' = [buyer EXCEPT !.stage = "allowed"] /\ UNCHANGED acqRows
     ELSE SettleAcquisition("blocked")
  /\ UNCHANGED <<sleeperVars, context0, unresolved, acqPlan, shut, acqTurns>>

MovePossible(c) ==
  /\ c.add \notin squad
  /\ c.drop # NobodyOut => c.drop \in squad
  /\ Cardinality(WithMove(squad, c)) <= SquadSize

\* What an accepted move does at Sleeper; a dropped player goes on waivers.
Moved(c) ==
  /\ squad' = WithMove(squad, c)
  /\ mechanism' = [p \in Acquirable |-> IF p = c.add THEN "none" ELSE IF p = c.drop THEN "waiver" ELSE mechanism[p]]
Logged(c, kind, status) == [claim |-> Pair(c), kind |-> kind, status |-> status, rows |-> Len(acqRows)]

\* The click and its verification.
Submit ==
  /\ buyer.stage = "allowed"
  /\ LET taken == mechanism[Buying.add] = Buying.kind /\ MovePossible(Buying) IN
     IF ~taken THEN SettleAcquisition("unverified") /\ UNCHANGED sleeperVars
     ELSE IF Buying.kind = "free_agent"
       THEN /\ Moved(Buying) /\ publicLog' = publicLog \cup {Logged(Buying, "free_agent", "complete")}
            /\ SettleAcquisition(IF squad' = Buying.after THEN "verified" ELSE "unverified")
            /\ UNCHANGED <<myWaivers, agentClaims>>
       ELSE /\ myWaivers' = myWaivers \cup {Pair(Buying)} /\ agentClaims' = agentClaims \cup {Pair(Buying)}
            /\ SettleAcquisition(IF Shown(Buying, myWaivers') THEN "verified" ELSE "unverified")
            /\ UNCHANGED <<squad, mechanism, publicLog>>
  /\ UNCHANGED <<context0, unresolved, acqPlan, shut, acqTurns>>

-----------------------------------------------------------------------------
(* The owner and the league.                                               *)
AcqTurn == acqTurns < MaxAcqTurns /\ acqTurns' = acqTurns + 1

OwnerAdds ==
  /\ AcqTurn
  /\ \E c \in AddDrop :
       /\ mechanism[c.add] = "free_agent" /\ MovePossible(c)
       /\ Moved(c) /\ publicLog' = publicLog \cup {Logged(c, "free_agent", "complete")}
  /\ UNCHANGED <<myWaivers, agentClaims, context0, unresolved, acqPlan, acqRows, buyer, shut>>

OwnerClaims ==
  /\ AcqTurn
  /\ \E c \in AddDrop \ myWaivers :
       mechanism[c.add] = "waiver" /\ MovePossible(c) /\ myWaivers' = myWaivers \cup {c}
  /\ UNCHANGED <<squad, mechanism, agentClaims, publicLog, context0, unresolved, acqPlan, acqRows, buyer, shut>>

OwnerCancelsRow ==
  /\ AcqTurn
  /\ \E n \in DOMAIN acqRows : acqRows[n].status = "ready" /\ acqRows' = [acqRows EXCEPT ![n].status = "cancelled"]
  /\ UNCHANGED <<sleeperVars, context0, unresolved, acqPlan, buyer, shut>>

\* Waivers run: at most one of our claims is granted, the others fail, and the
\* players nobody claimed become free agents.
WaiversRun ==
  /\ AcqTurn /\ myWaivers # {}
  /\ \E granted \in {{}} \cup {{c} : c \in {c \in myWaivers : MovePossible(c)}} :
       /\ publicLog' = publicLog \cup {Logged(c, "waiver", IF c \in granted THEN "complete" ELSE "failed") : c \in myWaivers}
       /\ IF granted = {}
            THEN /\ mechanism' = [p \in Acquirable |-> IF mechanism[p] = "waiver" THEN "free_agent" ELSE mechanism[p]]
                 /\ UNCHANGED squad
            ELSE \A c \in granted : Moved(c)
  /\ myWaivers' = {} /\ agentClaims' = {}
  /\ UNCHANGED <<context0, unresolved, acqPlan, acqRows, buyer, shut>>

RivalTakes ==
  /\ AcqTurn
  /\ \E p \in Pool \ squad : mechanism[p] # "none" /\ mechanism' = [mechanism EXCEPT ![p] = "none"]
  /\ UNCHANGED <<squad, myWaivers, agentClaims, publicLog, context0, unresolved, acqPlan, acqRows, buyer, shut>>

WindowShuts ==
  /\ AcqTurn
  /\ \E kind \in {"waiver", "free_agent"} \ shut : shut' = shut \cup {kind}
  /\ UNCHANGED <<sleeperVars, context0, unresolved, acqPlan, acqRows, buyer>>

AcquisitionNext ==
  \/ AcquisitionPass \/ SynchroniseAcquisitions
  \/ IngestSquad \/ ObservePlayers \/ ObservationLapses \/ Reconcile
  \/ LeaseAcquisition \/ AnnounceAcquisition \/ PreflightAcquisition \/ AskBoundary \/ Submit
  \/ OwnerAdds \/ OwnerClaims \/ OwnerCancelsRow \/ WaiversRun \/ RivalTakes \/ WindowShuts

AcquisitionSpec == AcquisitionInit /\ [][AcquisitionNext]_acqVars

-----------------------------------------------------------------------------
(* "Immediate multi-move plans are compiled as chained roster states"      *)
(* (in-season-data-plan.md): the independent proof of the synchronisation  *)
(* accepts every plan of immediate adds the compiler let through.          *)
CompiledChainIsProved ==
  acqPlan.on /\ Kinds(acqPlan.actions) = {"free_agent"} => Proved(acqPlan.actions, acqPlan.squad)

(* "An already pending exact claim is treated idempotently rather than     *)
(* submitted twice" (README.md), also when the observation of My Waivers   *)
(* has lapsed, the report is old and the new plan words the claim anew.  A *)
(* claim without a drop is left out: two rows that fit it are taken for    *)
(* none, and it is submitted again.                                        *)
NeverClaimedTwice ==
  [][buyer.stage = "allowed" /\ buyer' = BuyerIdle /\ Buying.kind = "waiver" /\ Buying.drop # NobodyOut =>
       Pair(Buying) \notin agentClaims]_acqVars

(* "Cancellation is durable" (in-season-data-plan.md) and a failed attempt *)
(* needs "manual review": an add/drop the owner cancelled, or Sleeper      *)
(* refused, is not queued again by a plan that words it differently.       *)
CancelledStaysOut ==
  [][\A k \in DOMAIN acqRows' \ DOMAIN acqRows :
       \A n \in DOMAIN acqRows :
         acqRows[n].status \in {"cancelled", "failed"} =>
           ~(Pair(acqRows'[k].action) = Pair(acqRows[n].action) /\ acqRows'[k].action.kind = acqRows[n].action.kind)]_acqVars
=============================================================================
