------------------------ MODULE AcquisitionLifecycle ------------------------
(***************************************************************************)
(* Waiver claims and free-agent adds from the decision of the in-season    *)
(* expert to the outcome Sleeper publishes: the scheduler loop with its    *)
(* three jobs (Sleeper sync, reconciliation pass, expert), the files they  *)
(* hand to each other (in-season-context.json, in-season-plan.json and     *)
(* acquisition-lifecycle.json), the operational incident the pass opens    *)
(* and the gate it closes, the browser process and Sleeper itself.         *)
(*                                                                         *)
(* The jobs run one after the other in one process, but each takes minutes *)
(* and writes its file after its transaction: what a job reads, commits    *)
(* and publishes are steps of their own.  The exchange of reports between  *)
(* the browser and the outbox is one step here; CommandOutbox takes it     *)
(* apart.  Every command stands for one add/drop identity of one           *)
(* transaction week.                                                       *)
(***************************************************************************)
EXTENDS Integers, Sequences, FiniteSets, Functions

CONSTANTS
  Command,     \* acquisition commands
  Waiver,      \* those that are WAIVER_CLAIMs; the others are ADD_FREE_AGENTs
  NoCommand,   \* what the browser holds between commands
  Decisions,   \* the ordered acquisitions an expert may decide on
  ExpiresAt,   \* end of a command's execution window
  Grace,       \* RECONCILIATION_GRACE, in clock ticks
  LeaseTicks,  \* lease_seconds, in clock ticks
  RetryLimit,  \* attempts after which the retry endpoints refuse
  MaxNow,      \* bound on the clock
  Troubles     \* the sets of troubles a behaviour may have

\* Jobs raise and processes restart, the refresh profile may shorten the
\* expert's interval, the owner reopens blocked commands.
Trouble == {"faults", "profiles", "retries"}

ASSUME LifecycleAssumption ==
  /\ Waiver \subseteq Command
  /\ NoCommand \notin Command
  /\ ExpiresAt \in [Command -> Nat]
  /\ Grace \in Nat
  /\ LeaseTicks \in Nat \ {0}
  /\ RetryLimit \in Nat
  /\ MaxNow \in Nat
  /\ Troubles \subseteq SUBSET Trouble

\* A plan compiled from a decision is all claims or all adds.
ASSUME DecisionAssumption ==
  \A decision \in Decisions : Range(decision) \subseteq Waiver \/ Range(decision) \subseteq Command \ Waiver

VARIABLES
  trouble,     \* the troubles of this behaviour; never changes
  now,         \* the clock
  status,      \* execution_commands.status; "none" before the row exists
  created,     \* execution_commands.created_at
  leaseUntil,  \* execution_commands.lease_until; 0 is NULL
  attempts,    \* execution_commands.attempt_count, counted up to RetryLimit
  proven,      \* blocked with write_attempted = false in the result
  held,        \* the command the browser process works on
  sleeper,     \* what Sleeper did with the acquisition
  myWaivers,   \* the pending claims the browser last saw in My Waivers
  history,     \* in-season-context.json: outcomes in the transaction history
  plan,        \* in-season-plan.json: manager_state, pending claims, report
  report,      \* acquisition-lifecycle.json: outcome_status by command
  incident,    \* whether the pass's critical incident is open
  notices,     \* dashboard notices about outcomes
  retired,     \* claims removed by a verified CANCEL_WAIVER_CLAIM
  refresh,     \* whether due["in_season_expert"] was brought forward
  job,         \* the scheduler's position in its loop and what it has read
  observed,    \* history: commands whose context was synced since the write
  opened       \* history: how commands became "ready" since a pass read them

rowVars == <<status, created, leaseUntil, attempts, proven>>
browserVars == <<held, sleeper, myWaivers>>
fileVars == <<history, plan, report>>
vars == <<trouble, now, rowVars, browserVars, fileVars, incident, notices, retired, refresh, job, observed, opened>>

CommandStatus ==
  {"none", "ready", "leased", "preflight", "executing", "verifying",
   "verified", "unverified", "failed", "blocked", "cancelled"}

\* Mutant: a command whose outcome check is running does not count as active.
ActiveUntilVerifying == {"ready", "leased", "preflight", "executing"}

ACTIVE_COMMAND_STATES == {"ready", "leased", "preflight", "executing", "verifying"}

\* Mutant: an uncertain write does not count as unresolved.
CertainOutcomes == {"pending", "scheduled", "awaiting_reconciliation"}

UNRESOLVED_OUTCOMES == {"pending", "scheduled", "awaiting_reconciliation", "unverified"}
TerminalOutcome == {"completed", "failed", "cancelled"}

\* outcome_status; a status no rule covers is its own outcome.
Outcome == UNRESOLVED_OUTCOMES \cup TerminalOutcome \cup CommandStatus

LoopStep == {"idle", "read", "committed", "reconciled", "deciding", "queued"}
Unknown == [c \in Command |-> "none"]

\* How commands were opened since the pass under way has read the rows, and
\* since the one behind the report on file has.
Opening == {"no", "created", "retried"}
NotOpened == [c \in Command |-> "no"]
PassUnderWay == job.step \in {"read", "committed"}

AtRest == [step |-> "idle", outcome |-> Unknown, rejected |-> {}, pending |-> {}]

Init ==
  /\ trouble \in Troubles
  /\ now = 0
  /\ status = Unknown
  /\ created = [c \in Command |-> 0]
  /\ leaseUntil = [c \in Command |-> 0]
  /\ attempts = [c \in Command |-> 0]
  /\ proven = {}
  /\ held = NoCommand
  /\ sleeper = Unknown
  /\ myWaivers = {}
  /\ history = Unknown
  /\ plan = [ready |-> FALSE, pending |-> {}, lifecycle |-> Unknown]
  /\ report = Unknown
  /\ incident = FALSE
  /\ notices = {}
  /\ retired = {}
  /\ refresh = TRUE
  /\ job = AtRest
  /\ observed = {}
  /\ opened = [pass |-> NotOpened, report |-> NotOpened]

\* History: these commands become "ready".
Open(commands, how) ==
  LET marked(since) == [c \in Command |-> IF c \in commands THEN how ELSE since[c]]
  IN opened' = [pass |-> IF PassUnderWay THEN marked(opened.pass) ELSE opened.pass,
                report |-> marked(opened.report)]

Tick ==
  /\ now < MaxNow
  /\ now' = now + 1
  /\ UNCHANGED <<trouble, rowVars, browserVars, fileVars, incident, notices, retired, refresh, job, observed, opened>>

-----------------------------------------------------------------------------
(* Sleeper, and the owner's hands. *)

\* Waivers are processed after every claim's window has closed.
ProcessClaim(c) ==
  /\ sleeper[c] = "queued"
  /\ now >= ExpiresAt[c]
  /\ \E result \in {"complete", "failed"} : sleeper' = [sleeper EXCEPT ![c] = result]
  /\ UNCHANGED <<trouble, now, rowVars, held, myWaivers, fileVars, incident, notices, retired, refresh, job, observed, opened>>

\* The owner withdraws the claim in Sleeper.
WithdrawByHand(c) ==
  /\ sleeper[c] = "queued"
  /\ sleeper' = [sleeper EXCEPT ![c] = "withdrawn"]
  /\ UNCHANGED <<trouble, now, rowVars, held, myWaivers, fileVars, incident, notices, retired, refresh, job, observed, opened>>

\* cancel_action for a command no live lease protects.
CancelQueued(c) ==
  /\ \/ status[c] = "ready"
     \/ status[c] = "leased" /\ leaseUntil[c] <= now
  /\ status' = [status EXCEPT ![c] = "cancelled"]
  /\ leaseUntil' = [leaseUntil EXCEPT ![c] = 0]
  /\ UNCHANGED <<trouble, now, created, attempts, proven, browserVars, fileVars, incident, notices, retired, refresh, job, observed, opened>>

\* Both retry endpoints: the owner reopens a blocked command whose evidence
\* says write_attempted = false, with another attempt and time left.  Neither
\* looks at the report, the plan or the other acquisitions.
Retry(c) ==
  /\ "retries" \in trouble
  /\ status[c] = "blocked"
  /\ c \in proven
  /\ attempts[c] < RetryLimit
  /\ now < ExpiresAt[c]
  /\ status' = [status EXCEPT ![c] = "ready"]
  /\ leaseUntil' = [leaseUntil EXCEPT ![c] = 0]
  /\ proven' = proven \ {c}
  /\ Open({c}, "retried")
  /\ UNCHANGED <<trouble, now, created, attempts, browserVars, fileVars, incident, notices, retired, refresh, job, observed>>

-----------------------------------------------------------------------------
(* The browser process. *)

\* The write gate for the acquisition in hand: the plan must be executable
\* and no critical incident open, the one of the pass included.
WriteGateOpen == plan.ready /\ ~incident

\* The loop captures My Waivers between commands.
CaptureMyWaivers ==
  /\ held = NoCommand
  /\ myWaivers' = {c \in Command : sleeper[c] = "queued"}
  /\ UNCHANGED <<trouble, now, rowVars, held, sleeper, fileVars, incident, notices, retired, refresh, job, observed, opened>>

\* lease_execution_command: ready, or a lease that lapsed.
LeaseCommand(c) ==
  /\ held = NoCommand
  /\ \/ status[c] = "ready"
     \/ status[c] = "leased" /\ leaseUntil[c] < now
  /\ now < ExpiresAt[c]
  /\ status' = [status EXCEPT ![c] = "leased"]
  /\ leaseUntil' = [leaseUntil EXCEPT ![c] = now + LeaseTicks]
  /\ attempts' = [attempts EXCEPT ![c] = IF @ < RetryLimit THEN @ + 1 ELSE @]
  /\ held' = c
  /\ UNCHANGED <<trouble, now, created, proven, sleeper, myWaivers, fileVars, incident, notices, retired, refresh, job, observed, opened>>

\* A report of the browser process about the command it holds.
Report(from, to) ==
  /\ held # NoCommand
  /\ status[held] \in from
  /\ status' = [status EXCEPT ![held] = to]
  /\ UNCHANGED <<trouble, now, created, attempts, fileVars, incident, notices, retired, refresh, job, opened>>

StartPreflight ==
  /\ Report({"leased"}, "preflight")
  /\ UNCHANGED <<leaseUntil, proven, browserVars, observed>>

\* A check in the dialog or the backend's gate refuses: blocked, with the
\* evidence that nothing was written.
RefuseWrite ==
  /\ Report({"preflight"}, "blocked")
  /\ proven' = proven \cup {held}
  /\ leaseUntil' = [leaseUntil EXCEPT ![held] = 0]
  /\ held' = NoCommand
  /\ UNCHANGED <<sleeper, myWaivers, observed>>

ClearWrite ==
  /\ Report({"preflight"}, "executing")
  /\ now < ExpiresAt[held]
  /\ WriteGateOpen
  /\ UNCHANGED <<leaseUntil, proven, browserVars, observed>>

\* What the final control does: a claim joins the queue, an add is immediate.
Pressed == [sleeper EXCEPT ![held] = IF held \in Waiver THEN "queued" ELSE "complete"]

Submit ==
  /\ Report({"executing"}, "verifying")
  /\ sleeper' = Pressed
  /\ observed' = observed \ {held}
  /\ UNCHANGED <<leaseUntil, proven, held, myWaivers>>

\* The driver throws around the final control, which Sleeper may have seen.
SubmitThrows ==
  /\ Report({"executing"}, "unverified")
  /\ sleeper' \in {sleeper, Pressed}
  /\ observed' = observed \ {held}
  /\ leaseUntil' = [leaseUntil EXCEPT ![held] = 0]
  /\ held' = NoCommand
  /\ UNCHANGED <<proven, myWaivers>>

\* The outcome check: the exact claim in My Waivers, the exact public
\* transaction of an add.
VerifyWrite ==
  /\ \/ /\ Report({"verifying"}, "verified")
        /\ sleeper[held] = IF held \in Waiver THEN "queued" ELSE "complete"
     \/ Report({"verifying"}, "unverified")
  /\ leaseUntil' = [leaseUntil EXCEPT ![held] = 0]
  /\ held' = NoCommand
  /\ UNCHANGED <<proven, sleeper, myWaivers, observed>>

\* The report was refused, because the command was cancelled or failed
\* meanwhile; the loop comes round again.
DropCommand ==
  /\ held # NoCommand
  /\ status[held] \in {"cancelled", "blocked", "failed"}
  /\ held' = NoCommand
  /\ UNCHANGED <<trouble, now, rowVars, sleeper, myWaivers, fileVars, incident, notices, retired, refresh, job, observed, opened>>

BrowserRestart ==
  /\ "faults" \in trouble
  /\ held # NoCommand
  /\ held' = NoCommand
  /\ UNCHANGED <<trouble, now, rowVars, sleeper, myWaivers, fileVars, incident, notices, retired, refresh, job, observed, opened>>

\* A CANCEL_WAIVER_CLAIM of the plan, from its lease to its verification.
RetireClaim(c) ==
  /\ held = NoCommand
  /\ WriteGateOpen
  /\ c \in plan.pending
  /\ sleeper[c] = "queued"
  /\ sleeper' = [sleeper EXCEPT ![c] = "withdrawn"]
  /\ retired' = retired \cup {c}
  /\ UNCHANGED <<trouble, now, rowVars, held, myWaivers, fileVars, incident, notices, refresh, job, observed, opened>>
-----------------------------------------------------------------------------
(* The scheduler: Sleeper sync, reconciliation pass, expert.  Each is run by *)
(* an iteration in which it is due; the pass, due every minute, always runs  *)
(* between two runs of the expert, unless the profile changes.               *)

\* Between two jobs, and not in an iteration that goes on to the expert.
BetweenJobs == job.step = "idle" \/ (job.step = "reconciled" /\ ~refresh)

\* sync_sleeper_in_season.  Processed transactions are public, pending claims
\* are not.
SyncContext ==
  /\ BetweenJobs
  /\ history' = [c \in Command |-> IF sleeper[c] \in {"complete", "failed"} THEN sleeper[c] ELSE "none"]
  /\ observed' = Command
  /\ UNCHANGED <<trouble, now, rowVars, browserVars, plan, report, incident, notices, retired, refresh, job, opened>>

\* Mutant: an old uncertain write is given up only for free-agent adds.
AddUnobserved(c) ==
  /\ now - created[c] >= Grace
  /\ c \notin Waiver
  /\ status[c] \in {"unverified", "verified"}

\* stale_uncertain and false_verified_add.  Without a transaction the public
\* roster is never the expected one.
NothingObserved(c) ==
  /\ now - created[c] >= Grace
  /\ \/ status[c] = "unverified"
     \/ c \notin Waiver /\ status[c] = "verified"

\* Mutant: a verified claim that left My Waivers counts as completed.
OutcomeByDisappearance(c) ==
  IF history[c] = "complete" THEN "completed"
  ELSE IF history[c] = "failed" THEN "failed"
  ELSE IF c \in Waiver /\ c \in retired THEN "cancelled"
  ELSE IF c \in Waiver /\ c \in plan.pending THEN "pending"
  ELSE IF status[c] \in ACTIVE_COMMAND_STATES THEN "scheduled"
  ELSE IF NothingObserved(c) THEN "failed"
  ELSE IF status[c] = "verified" THEN "completed"
  ELSE status[c]

\* The state a pass gives a claim.
OutcomeOf(c) ==
  IF history[c] = "complete" THEN "completed"
  ELSE IF history[c] = "failed" THEN "failed"
  ELSE IF c \in Waiver /\ c \in retired THEN "cancelled"
  ELSE IF c \in Waiver /\ c \in plan.pending THEN "pending"
  ELSE IF status[c] \in ACTIVE_COMMAND_STATES THEN "scheduled"
  ELSE IF NothingObserved(c) THEN "failed"
  ELSE IF status[c] = "verified" THEN "awaiting_reconciliation"
  ELSE status[c]

\* A pass reads the three files and the rows.
PassRead ==
  /\ BetweenJobs
  /\ LET outcome == [c \in Command |-> OutcomeOf(c)]
     IN job' = [step |-> "read", outcome |-> outcome, pending |-> {},
                rejected |-> {c \in Command : outcome[c] = "failed" /\ status[c] # "failed"}]
  /\ opened' = [opened EXCEPT !.pass = NotOpened]
  /\ UNCHANGED <<trouble, now, rowVars, browserVars, fileVars, incident, notices, retired, refresh, observed>>

Unresolved(outcome) == \E c \in Command : outcome[c] \in UNRESOLVED_OUTCOMES

\* Mutant: every change of an outcome is announced.
AnnounceChanges ==
  {<<c, job.outcome[c]>> : c \in {d \in Command : job.outcome[d] # report[d]}}

\* Mutant: only the rows this pass fails are announced.
AnnounceRejected == {<<c, "failed">> : c \in job.rejected}

\* A notice for every outcome the previous report did not have.
Announce ==
  {<<c, job.outcome[c]>> : c \in {d \in Command : /\ job.outcome[d] \in {"completed", "failed"}
                                                /\ job.outcome[d] # report[d]}}

\* The transaction of the pass: rejected rows, the incident, the notices.
PassCommit ==
  /\ job.step = "read"
  /\ status' = [c \in Command |-> IF c \in job.rejected THEN "failed" ELSE status[c]]
  /\ incident' = Unresolved(job.outcome)
  /\ notices' = notices \cup Announce
  /\ job' = [job EXCEPT !.step = "committed"]
  /\ UNCHANGED <<trouble, now, created, leaseUntil, attempts, proven, browserVars, fileVars, retired, refresh, observed, opened>>

\* Mutant: the manager is refreshed only when the pass changed a row.
PassWriteOnTransition ==
  /\ job.step = "committed"
  /\ report' = job.outcome
  /\ refresh' = (refresh \/ job.rejected # {})
  /\ job' = [job EXCEPT !.step = "reconciled"]
  /\ opened' = [pass |-> NotOpened, report |-> opened.pass]
  /\ UNCHANGED <<trouble, now, rowVars, browserVars, history, plan, incident, notices, retired, observed>>

\* Its report, and the due time the scheduler sets for the expert.
PassWrite ==
  /\ job.step = "committed"
  /\ report' = job.outcome
  /\ refresh' = \/ refresh
                \/ job.rejected # {}
                \/ \E c \in Command : job.outcome[c] \in TerminalOutcome /\ job.outcome[c] # report[c]
  /\ job' = [job EXCEPT !.step = "reconciled"]
  /\ opened' = [pass |-> NotOpened, report |-> opened.pass]
  /\ UNCHANGED <<trouble, now, rowVars, browserVars, history, plan, incident, notices, retired, observed>>

\* The pass raises before its commit or after it; _safe swallows the
\* exception and the loop goes on to the expert.
PassRaises ==
  /\ "faults" \in trouble
  /\ job.step \in {"read", "committed"}
  /\ job' = [job EXCEPT !.step = "reconciled"]
  /\ opened' = [opened EXCEPT !.pass = NotOpened]
  /\ UNCHANGED <<trouble, now, rowVars, browserVars, fileVars, incident, notices, retired, refresh, observed>>

\* Right after a run of the expert the profile changes to one with a shorter
\* interval: the expert is due at once, the pass not yet.
TightenProfile ==
  /\ "profiles" \in trouble
  /\ job.step = "idle"
  /\ ~refresh
  /\ refresh' = TRUE
  /\ job' = [job EXCEPT !.step = "reconciled"]
  /\ UNCHANGED <<trouble, now, rowVars, browserVars, fileVars, incident, notices, retired, observed, opened>>

\* The expert publishes its plan and is due again in an hour.
Publish(ready, pending) ==
  /\ plan' = [ready |-> ready, pending |-> pending, lifecycle |-> report]
  /\ refresh' = FALSE
  /\ job' = AtRest
  /\ UNCHANGED <<trouble, now, rowVars, browserVars, history, report, incident, notices, retired, observed, opened>>

\* What build_manager_context takes from My Waivers: nothing, once the
\* capture is too old.
PendingClaims == {myWaivers, {}}

\* An open critical incident stops the reasoning.
PlanBlocked ==
  /\ job.step = "reconciled"
  /\ incident
  /\ \E pending \in PendingClaims : Publish(FALSE, pending)

PlanStart ==
  /\ job.step = "reconciled"
  /\ ~incident
  /\ \E pending \in PendingClaims : job' = [job EXCEPT !.step = "deciding", !.pending = pending]
  /\ UNCHANGED <<trouble, now, rowVars, browserVars, fileVars, incident, notices, retired, refresh, observed, opened>>

\* InSeasonExpertUnavailable.
PlanUnavailable ==
  /\ job.step = "deciding"
  /\ Publish(FALSE, job.pending)

\* What synchronize_acquisition_actions would queue of a decision: claims
\* that are not pending already, but only the first of several adds.
Queue(decision) ==
  LET remaining == SelectSeq(decision, LAMBDA c : c \notin job.pending)
  IN IF Len(remaining) > 1 /\ Range(remaining) \cap Waiver = {}
     THEN <<remaining[1]>> ELSE remaining

\* Its early returns: unresolved claims in the report, pending claims the
\* decision does not know, an identity that was cancelled or failed, a live
\* lease.
MayQueue(decision) ==
  /\ ~ Unresolved(report)
  /\ Range(decision) \subseteq Waiver => job.pending \subseteq Range(decision)
  /\ decision # <<>> => Queue(decision) # <<>>
  /\ \A c \in Range(Queue(decision)) : status[c] \notin {"cancelled", "failed"}
  /\ ~ \E c \in Command : status[c] = "leased" /\ leaseUntil[c] > now

\* The loop over the queue stops at the first identity with a finished row.
Queueable(queue) ==
  {queue[i] : i \in {j \in DOMAIN queue :
                       \A k \in 1..j : status[queue[k]] \in {"none", "ready", "leased"}}}

\* synchronize_acquisition_actions.  Active commands the decision does not
\* contain are withdrawn even when the window then proves to be closed.
PlanQueue(decision) ==
  /\ job.step = "deciding"
  /\ MayQueue(decision)
  /\ LET queue == Queue(decision)
         windowOpen == \A c \in Range(queue) : now < ExpiresAt[c]
         new == IF windowOpen THEN {c \in Queueable(queue) : status[c] = "none"} ELSE {}
     IN /\ status' = [c \in Command |->
                        IF c \in new THEN "ready"
                        ELSE IF status[c] \in {"ready", "leased"} /\ c \notin Range(queue) THEN "blocked"
                        ELSE status[c]]
        /\ created' = [c \in Command |-> IF c \in new THEN now ELSE created[c]]
        /\ Open(new, "created")
  /\ job' = [job EXCEPT !.step = "queued"]
  /\ UNCHANGED <<trouble, now, leaseUntil, attempts, proven, browserVars, fileVars, incident, notices, retired, refresh, observed>>

PlanQueueNothing(decision) ==
  /\ job.step = "deciding"
  /\ ~ MayQueue(decision)
  /\ job' = [job EXCEPT !.step = "queued"]
  /\ UNCHANGED <<trouble, now, rowVars, browserVars, fileVars, incident, notices, retired, refresh, observed, opened>>

PlanWrite ==
  /\ job.step = "queued"
  /\ Publish(TRUE, job.pending)

\* The expert raises; _safe swallows it and the next run is an hour away.
PlanRaises ==
  /\ "faults" \in trouble
  /\ job.step \in {"reconciled", "deciding", "queued"}
  /\ refresh' = FALSE
  /\ job' = AtRest
  /\ UNCHANGED <<trouble, now, rowVars, browserVars, fileVars, incident, notices, retired, observed, opened>>

\* The worker container restarts: transactions roll back, everything is due.
SchedulerRestart ==
  /\ "faults" \in trouble
  /\ refresh' = TRUE
  /\ job' = AtRest
  /\ opened' = [opened EXCEPT !.pass = NotOpened]
  /\ UNCHANGED <<trouble, now, rowVars, browserVars, fileVars, incident, notices, retired, observed>>

-----------------------------------------------------------------------------

BrowserStep ==
  \/ \E c \in Command : LeaseCommand(c) \/ RetireClaim(c)
  \/ StartPreflight \/ RefuseWrite \/ ClearWrite
  \/ Submit \/ SubmitThrows \/ VerifyWrite
  \/ DropCommand \/ BrowserRestart

ExpertRun == PlanBlocked \/ PlanStart

SchedulerStep ==
  \/ SyncContext
  \/ PassRead \/ PassCommit \/ PassWrite
  \/ ExpertRun \/ PlanUnavailable
  \/ \E decision \in Decisions : PlanQueue(decision) \/ PlanQueueNothing(decision)
  \/ PlanWrite

SchedulerFault == PassRaises \/ PlanRaises \/ SchedulerRestart

Next ==
  \/ Tick
  \/ \E c \in Command : ProcessClaim(c) \/ WithdrawByHand(c) \/ CancelQueued(c) \/ Retry(c)
  \/ CaptureMyWaivers
  \/ BrowserStep
  \/ SchedulerStep
  \/ TightenProfile
  \/ SchedulerFault

Spec == Init /\ [][Next]_vars

TypeOK ==
  /\ trouble \in Troubles
  /\ now \in Nat
  /\ status \in [Command -> CommandStatus]
  /\ created \in [Command -> Nat]
  /\ leaseUntil \in [Command -> Nat]
  /\ attempts \in [Command -> Nat]
  /\ proven \subseteq Command
  /\ held \in Command \cup {NoCommand}
  /\ sleeper \in [Command -> {"none", "queued", "complete", "failed", "withdrawn"}]
  /\ myWaivers \subseteq Command
  /\ history \in [Command -> {"none", "complete", "failed"}]
  /\ plan \in [ready : BOOLEAN, pending : SUBSET Command, lifecycle : [Command -> Outcome]]
  /\ report \in [Command -> Outcome]
  /\ incident \in BOOLEAN
  /\ notices \subseteq Command \X {"completed", "failed"}
  /\ retired \subseteq Command
  /\ refresh \in BOOLEAN
  /\ job \in [step : LoopStep, outcome : [Command -> Outcome],
              rejected : SUBSET Command, pending : SUBSET Command]
  /\ observed \subseteq Command
  /\ opened \in [pass : [Command -> Opening], report : [Command -> Opening]]

-----------------------------------------------------------------------------
(* Safety *)

\* The report's prior states are what suppresses a second notice, so an
\* outcome must be announced before it is on file, wherever the worker stops.
AnnouncedBeforeReported ==
  \A c \in Command : report[c] \in {"completed", "failed"} => <<c, report[c]>> \in notices

\* "Acquisition completed" is only ever said of a transaction that Sleeper
\* completed (and never of a claim that merely left My Waivers).
CompletionIsTrue == \A c \in Command : <<c, "completed">> \in notices => sleeper[c] = "complete"

\* A write whose outcome is not public yet.
InFlight(c) ==
  /\ status[c] \in {"executing", "verifying", "verified", "unverified"}
  /\ history[c] = "none"
  /\ c \notin retired

Queued(c) == status[c] = "none" /\ status'[c] = "ready"

\* "prior acquisition write(s) require reconciliation before another
\* acquisition can be queued": whatever the order of browser reports, passes,
\* expert runs and retries, no command is created while another write is in
\* flight.
NoneQueuedInFlight ==
  [][\A c, d \in Command : Queued(c) => ~ InFlight(d)]_vars

\* No job raises, no process restarts and no profile changes.
JobsAreSound == trouble \subseteq {"retries"}

\* As long as no job raises and no profile changes, the promise is broken by
\* the retry endpoints alone: a write in flight while the expert queues is
\* that of a command reopened since the pass whose report the expert trusts.
OnlyRetriedInFlight ==
  [][JobsAreSound =>
       \A c, d \in Command : Queued(c) /\ InFlight(d) => opened.report[d] = "retried"]_vars

\* Whatever raises, restarts or is retried, the report on file protects every
\* write of the rows its pass has read: a write in flight while the expert
\* queues is that of a command that became ready after that read.
InFlightIsNewer ==
  [][\A c, d \in Command : Queued(c) /\ InFlight(d) => opened.report[d] # "no"]_vars

\* The pass says of an absent transaction that it "was [not] observed after
\* the browser write": a write is rejected only on a context synced after it.
RejectedOnFreshContext ==
  [][\A c \in Command :
       status[c] \in {"verified", "unverified"} /\ status'[c] = "failed" => c \in observed]_vars

\* The incident "acquisition write(s) remain unresolved" is open only when
\* the browser has crossed the write boundary of some acquisition.
IncidentIsAboutWrites ==
  incident => \E c \in Command :
                \/ sleeper[c] # "none"
                \/ status[c] \in {"executing", "verifying", "verified", "unverified", "failed"}

(* Progress *)

\* The scheduler, the clock, Sleeper and the capture of My Waivers go on;
\* nothing makes the browser take a command or the owner act.  The sync is
\* due every few minutes, in a loop that may pass it over in between.
FairSpec ==
  /\ Spec
  /\ WF_vars(Tick)
  /\ WF_vars(SchedulerStep)
  /\ SF_vars(SyncContext)
  /\ WF_vars(CaptureMyWaivers)
  /\ \A c \in Command : WF_vars(ProcessClaim(c))

\* An uncertain write does not stay uncertain: it is rejected, or its claim
\* or its outcome is found.
UncertainWriteSettles ==
  \A c \in Command : status[c] = "unverified" ~>
    status[c] # "unverified" \/ report[c] \in {"pending", "completed", "cancelled"}

\* "Completion or failure ... immediately refreshes the manager": without
\* waiting for the expert's timer, a plan made with the outcome follows.
OutcomeReachesManager ==
  \A c \in Command : \A outcome \in TerminalOutcome :
    report[c] = outcome ~> plan.lifecycle[c] = outcome \/ report[c] # outcome
=============================================================================
