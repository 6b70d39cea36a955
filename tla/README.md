# Formal model of the fantasy football manager

This directory holds TLA+ models of the manager in this repository, the TLC
configurations that check them on small instances, and proofs checked by TLAPS.
`PROJECT.json` lists the runs, the source lines each definition translates, the
hazards the properties are aimed at, the mutants each property refutes, and the
theorems.

Check a run with `tlc -config SeasonWrites.cfg MCSeasonWrites.tla` (the table of runs
names the module of every `.cfg`), a proof with `tlapm CommandOutboxProofs.tla`.

## The system

A Python backend (FastAPI, PostgreSQL) decides what to do with a Sleeper fantasy
team; a Playwright process ("browser agent") carries decisions out on the Sleeper
website. There is no write API: the only write is a mouse click in a browser, and
a click cannot be undone. The program's core logic is what surrounds that click.

| Part | State it keeps | Operations | Interacts with |
|---|---|---|---|
| Execution outbox (`execution.py`, `main.py`, `repositories.py`) | rows of `execution_commands`, `action_items`, `manual_confirmations` | propose, approve, cancel, lease, write preflight, result report, two retry endpoints | everything below |
| Browser agent (`main.mjs`, `executor.mjs`, `api.mjs`) | the leased command, `write_attempted` | lease loop, announcements, click, outcome check | outbox over HTTP with a 15 s timeout; restarted by launchd |
| Qualification scripts (`browser-agent/scripts`) | as above | one command under the loop's `agent_id`; a report without a lease | outbox |
| Scheduler (`scheduler.py`, `scheduler_profiles.py`) | due times | runs every refresh, one at a time | action synchronisation, reconciler |
| Action synchronisation (`in_season_execution.py`) | none of its own | supersede what a new plan drops, queue what it wants | outbox rows, unlocked |
| Acquisition reconciler (`acquisition_lifecycle.py`) | `acquisition-lifecycle.json` | match commands with Sleeper's history, settle outcomes, incident, notices | outbox rows, incidents, notification outbox |
| Event queue (`queue.py`, `worker.py`) | `domain_events` | enqueue, lease, complete, retry with back-off | worker |
| Notification outbox (`notifications.py`, `worker.py`) | `notification_deliveries` | queue with a dedupe key, deliver, daily limit | Slack |
| Incidents, evidence gate (`evidence.py`, `repositories.py`) | `operational_incidents`, `source_dataset_health`, the report files of each source | upsert, resolve, allow or refuse | expert, write preflight, synchronisation |
| Source ingestion (`in_season_sources.py`, `fantasypros.py`, the heartbeat in `main.py`) | report files, the quota ledger | fetch, stamp, write; count requests | Sleeper, nflverse, FantasyPros; scheduler, command line, dashboard |
| Lineup, acquisitions, pending waivers, reserve, trades (`in_season_expert.py`, `in_season_execution.py`, `pending_waivers.py`, `ir_management.py`, `trades.py`) | reports, and commands with exact before and after states | compile a decision, synchronise it, verify it | expert, outbox, browser |
| Draft monitor and room (`draft_monitor.py`, `draft_room.py`) | none between two polls | read board and clock, ask the expert, queue the pick for the last seconds | Codex worker, outbox |
| Trash talk (`trash_talk.py`) | `trash_talk_controls`, `trash_talk_posts`, its runtime state | evaluate the score board, publish | Codex worker, notification outbox |
| Codex worker (`codex-agent`) and watchdog | request, response, cache and heartbeat files | one request at a time; restart of a stalled worker | the callers in the containers |
| Championship model, projections, weather | reports | numeric evaluation | expert |

### What is hard

* Handlers that lock their rows (`with_for_update`: approve, cancel, lease, retry,
  write preflight) live next to handlers that do not (`agent_result`, both
  synchronisations, the reconciler): the latter overwrite what was committed between
  their read and their commit.
* A report is lost, arrives after the agent gave up on it, or is committed without the
  agent knowing.
* A lease lapses (30 s) while its holder is alive.
* The agent crashes at any point, before or after the click.
* The scheduler's jobs hand each other files. Each takes minutes, reads at its start and
  writes after its transaction; meanwhile the browser goes on. An exception of one job is
  swallowed and the next one runs.
* What the reconciler waits for closes the gates of what it waits for.
* The retry endpoints reopen a command on the strength of evidence in its last report, at
  any time and without regard to what planners and reconciler took for settled.
* A command stays `leased` only until the agent's first report: what asks for that status
  alone sees nothing of a command that is being executed.
* The notification worker performs an external call inside the transaction that
  records it; the event worker's attempt count is rolled back by a crash.
* A decision is a chain of commands, each with the exact state it starts from. The owner,
  the league and the clock act between any two of them, the commands of one plan fail one
  by one, and what remains of an older plan stands in the same outbox.
* Sleeper's panels show names, not ids: two claims can look alike.
* A report is stamped when it is written, by either of two processes, and the gate goes by the
  stamp. What it stands for may have changed since it was fetched.
* A source that fails has its next run hours away, unless somebody notices.
* The time of a request is read before the ledger that counts it is locked.
* A model call takes up to minutes, between reading a board and acting on it, outside any
  transaction, and two containers make it for the same board.

`PROJECT.json` lists each of them at its line, with the properties that watch over it or a
note that says which configuration shows it going wrong.

### What correctness means, per part

* Outbox and agent: at most one click per command, none for a cancelled one; evidence
  for a retry is true; what the browser holds nobody else can lease, cancel or retry;
  the two status columns agree; a held command leaves the browser's hands.
* Synchronisation: cancelled plans stay cancelled; superseded commands are not executed.
* Reconciler: every uncertain acquisition is settled; one alert per outcome; it never
  blocks the command it waits for; no acquisition is queued beside a write in flight that its
  report knows of.
* Event queue and notification outbox: an alert is repeated only when nobody recorded it;
  the daily limit; attempts are counted; every alert settles.
* Trash talk: limits, consent and a lead that was held, although all three are read before
  a model call.
* Draft: one decision per board, or at least one draft, in the last seconds of that board and
  on no other.
* In-season families: a command acts on the state it was decided for, a chain leads where
  the decision says, nothing is done twice, what the owner cancelled stays out.
* Codex worker: one run and one answer per question, and an answer for each.
* Sources: what the gate allows rests on a roster and a week that were current, and on answers
  young enough; a source that failed comes back; the quota holds.

## Modules

| Module | What it is |
|---|---|
| `CommandOutbox` | the outbox, the scheduler's transactions on it and the browser processes |
| `WriteOnce` | the abstract specification: one click, none for a withdrawn command |
| `AcquisitionLifecycle` | acquisitions from the expert's decision to Sleeper's outcome: the scheduler loop, its files, the incident, the browser and Sleeper |
| `NotificationOutbox` | notification rows, domain events and the worker that serves both; also the abstract specification of the feed below |
| `TrashTalk` | the feed, as a client that EXTENDS `NotificationOutbox` |
| `DraftRoom` | the live draft: rooms, queued picks, the agent, the other managers and the clock |
| `ReserveMoves`, `PendingClaims`, `TradeOffers`, `LineupMoves`, `AcquisitionPlans` | the five families of in-season writes, each from the decision to its verification |
| `SourceEvidence`, `SourceSchedule`, `ProjectionQuota` | what decisions rest on: the reports and the gate, the recovery of a source that failed, the quota of the projections |
| `CodexWorker` | the files between the callers and the model, the worker, the watchdog |
| `MC...` | instances for TLC; `MCOutboxHistory` adds a history variable, `MCSeasonWrites` composes the five families, `MCSources` the three modules on sources |
| `...Proofs` | the theorems about the module of that name; `SeasonWritesProofs` and `SourceProofs` those about the modules of a group |

How they fit. All writes meet at the rows of `execution_commands`. `CommandOutbox` takes the
exchange of reports between browser and server apart and lets planner and reconciler do
anything they may do to a row. The others make lease and report one step, and say what the
planners decide, from which files, and what the browser finds. `TrashTalk` and
`NotificationOutbox` share their rows and are one specification. The modules on sources say when
the gate is open that the others take to be open or closed at any time. `CodexWorker` is what
`DraftRoom`, `AcquisitionPlans` and `TrashTalk` see as a step that takes time and has any
answer.

### CommandOutbox

State: one function per database column that matters (`status`, `owner`, `leaseUntil`,
`attempts`, `evidence`, and `action`, the column of `action_items`), the database clock
`now`, and for every browser process its position `pc`, the command it holds and the
`attempt_count` of its lease (`att`; the code keeps it in the command contract and does
not send it back). `evidence` is `result.evidence.write_attempted`, the one field of the
JSON that any decision depends on.

| Step | Code |
|---|---|
| `Propose`, `Approve`, `Cancel`, `Retry` | `propose_execution`; `approve_action` with `confirm_action`; `cancel_action`; both retry endpoints |
| `SyncRead`, `SyncCommit` | one call of `synchronize_lineup_actions` or `synchronize_acquisition_actions`: the query of the active rows, and the commit |
| `ReconcileUnobserved`, `ReconcileRejected`, `ReconcileCommit` | one call of `reconcile_acquisition_lifecycle` |
| `JobRollback` | the scheduler stops inside a transaction |
| `ReportRead`, `ReportReject`, `ReportCommit` | `agent_result` up to its validation, its refusals, and the rest |
| `ReportLost`, `ReportTimeout`, `LeaseAnswerLost` | a request or an answer that does not arrive; `REQUEST_TIMEOUT_MS` |
| `Lease` | `lease_execution_command` and the `preflight` report that follows it at once |
| `StartExecution` … `FinishAfterWrite` | `executeCommand`, one step per announcement, with the write boundary between `CrossWriteBoundary` and `Click` |
| `BackToLoop`, `Crash` | the loop's `continue` and its catch; a dead process and launchd's KeepAlive |
| `ReconcileScript` | `reconcile-qualified-waiver.mjs` |

A report on the wire is a record with the process that sent it and the attempt it belongs
to. The server sees neither: `ReportIsValid` compares `IdOf[r.by]`, the `agent_id`, with
`lease_owner`. `clicks` and `withdrawn` are history variables.

Abstracted: what a command does (only its class matters: planned or not, acquisition,
free-agent add, retryable, needing approval), the evidence checks of the write preflight
(it allows or refuses; refusing is `FinishWithoutWrite`), notices and audit rows, the
order in which eligible commands are leased (any), and commands are proposed once because
`dedupe_key` is unique. The start of the window does not bind an approved command:
`confirm_action` does not pass it on.

### AcquisitionLifecycle

State: the columns `status`, `created`, `leaseUntil`; the command the browser `held`; what
Sleeper did with each acquisition (`sleeper`: queued, complete, failed, withdrawn); the last
capture `myWaivers`; the files `history` (the processed transactions of
`in-season-context.json`), `plan` (`in-season-plan.json`: whether it is executable, its pending
claims, the lifecycle report it was made with) and `report` (`acquisition-lifecycle.json`); the
columns `attempts` and `proven` (the evidence that nothing was written) that a retry looks at;
the `incident`, the `notices`, the claims `retired` by a verified cancellation; `refresh`, that
the expert is due at once; and `job`, the position of the scheduler with what its current job
has read. `observed` and `opened` are history variables: the latter says which commands were
created or retried since the pass under way read the rows, and since the pass behind the report
on file did. `trouble` is drawn at the start: which of jobs that raise, profile changes and
retries this behaviour has.

| Step | Code |
|---|---|
| `SyncContext` | `sync_sleeper_in_season` |
| `PassRead`, `PassCommit`, `PassWrite` | one call of `reconcile_acquisition_lifecycle`: what it reads and concludes (`OutcomeOf`), its transaction, its report and the due time `run_scheduler` sets |
| `PassRaises`, `PlanRaises`, `SchedulerRestart` | `_safe`, and a restarted worker |
| `PlanBlocked`, `PlanStart`, `PlanUnavailable` | `build_in_season_plan` up to the evidence gate; the expert's answer missing |
| `PlanQueue`, `PlanQueueNothing` | `synchronize_acquisition_actions` for any decision; its early returns are `MayQueue` |
| `PlanWrite` | the plan file, written after the synchronisation |
| `LeaseCommand` … `VerifyWrite`, `DropCommand`, `BrowserRestart` | the browser's loop with `executeCommand`; `ClearWrite` contains the incident check of the write preflight |
| `RetireClaim` | a `CANCEL_WAIVER_CLAIM` of the plan, from lease to verification |
| `CaptureMyWaivers` | the heartbeat's `pending_waiver_snapshot` |
| `CancelQueued` | `cancel_action` |
| `Retry` | both retry endpoints |
| `ProcessClaim`, `WithdrawByHand` | Sleeper and the owner (external) |
| `TightenProfile` | the loop over `due` when the new profile has shorter intervals |

The expert runs when `refresh` holds, and may run whenever the loop comes by after a pass,
for its own timer. An iteration need not contain a pass, but the expert's shortest interval
is five minutes and a pass is due every minute, so there is one between two of its runs;
only `TightenProfile` breaks that. The expert may decide any member of `Decisions`; each
command is one add/drop identity of one transaction week, which is the key the
synchronisation suppresses repetitions by.

Abstracted: the text of a transaction (an identity either has a processed transaction or
not, so several commands of one identity and several transactions do not occur here), the
free-agent qualification file, the switches of the settings (all on), adds made by hand,
and the other incidents. Without a transaction the public roster is taken not to show the
add, as `_roster_state` reads it from the same context file. Processed transactions are
public and pending or withdrawn claims are not: this is what the code assumes of Sleeper
when it reads pending claims from the private page.

### NotificationOutbox

State: `rows` (`notification_deliveries`: status, attempts, the day of delivery, who locks
it), `created` (the order of `created_at`), `events` (`domain_events`), per worker its place
in its loop and transaction, whether Slack is up and a webhook `configured`. `posts`,
`unrecorded` and `runs` are history variables.

`QueueSlackAlert`, `QueueTrashTalk` and `EnqueueEvent` are the producers; `TakeAlert` is
`_process_slack_alert` up to the post, with the order (`Ahead`), the daily limit and the
settling of rows that may not be sent; `PostAccepted`, `PostAnswerLost`, `PostRefused` are
the call, with the text fallback of an image (`AfterFailure`); `CommitAlert` the commit;
`TakeEvent`, `FinishEvent`, `Backoff` the event queue; `WorkerDies` rolls a transaction back
and not its message. Wording is left out, and what the three events do.

### TrashTalk

State: the `board` of scores (a difference of -3 .. 3 stands for tie, lead, clear lead of ten
points, blowout), the instant triggers (`facts`), the owner's switches, `leads` and `stable`
(`runtime_state`), `talk` (`trash_talk_posts`), `evaluator` (what an evaluation has chosen
and waits with). `heldSince` is a history variable.

`Evaluate` is the first transaction of `evaluate_trash_talk`, `CreativeWorkerFails`,
`Abandon`, `Withhold` and `Publish` the ways its second may go, `Mirror` the worker's copy of
a delivery to the post, `Pause`, `Resume`, `OptOut` the endpoints. Texts and safety patterns
are choices (`Withhold` may happen to any message).

### DraftRoom

State: `picks`; per `room` what a running `build_draft_room` holds; the `command` rows by
board and player; the `agent`. `ReadDraft` and `ReadPicks` are two calls of Sleeper, so the
clock may be of an older board than the picks; then the expert or its emergency fallback,
`Refresh` (both are read again), the insert. `PreflightDraftPick` looks at the board, then
`WritePreflight`, then `ClickDraft`, which finds a player by name on whatever board there is
now. `SomeonePicks` is a manager, the owner or autopick. The engine's valuation is a choice.
`LastPick` bounds how much of the draft a run follows.

### The five families of in-season writes

Each has the manager's pass over a context that may be old, a synchronisation, lease, the
report that ends the status `leased` (`AnnounceSwap` and its like: from here on no
synchronisation takes the command for one under way), browser preflight, the server's check of
the write boundary, the click and the verification as separate steps, and acts of the owner and
the league that may come between any two.

* `ReserveMoves`: `BuildIrPlan` (order, locks, capacity), one row per move, exact reserve
  arrays. Windows are left out: locks close them.
* `PendingClaims`: `Compile` into cancellations from the bottom up and one reordering; the
  panel matches by name (`Fits`), remembers the place of a row until the click, and drags row
  after row. The incident that a claim of the agent causes is `Incident`.
* `TradeOffers`: proposals, acceptances and declines in one batch; weekly limit and cooldown;
  staging in a dialog; lost requests; three verifications.
* `LineupMoves`: target validation, the swap compiler, retained rows, windows and kickoffs.
* `AcquisitionPlans`: the compiler's chain of immediate adds or tree of claims, the proof the
  synchronisation makes of it, the gates, suppressed identities, the look at the panel before
  a claim is submitted again. The reconciler's verdict is a step, its detail is
  `AcquisitionLifecycle`.

Retries are not among their steps: a swap cannot be retried, and what a retry of the others
does to the row is `CommandOutbox`'s, to the other acquisitions `AcquisitionLifecycle`'s.

They share nothing but the outbox, so a behaviour of `MCSeasonWrites` follows one of them;
one run checks all. A lease hands the agent a copy of the command, so that what becomes of the
row shows in no later step of the agent but the server's check. The loops of the code that
compile a chain (`BuildIrPlan`, `CompileClaims`, `Proof`) are functions on the number of turns,
and a transition of the reserve is a function on the moves.

### The sources of a decision

* `SourceEvidence`: the report files of Sleeper, nflverse and the browser (`context`,
  `nflverse`, `lineup`), the `syncs` under way, the heartbeat the `agent` has sent, the `gate`;
  `held` and `played` are history variables: when a roster or a week was last the current one.
  `FetchSleeper`, `FetchNflverse`, `WriteReport`, `Breaks` are `sync_sleeper_in_season` and
  `sync_nflverse_context` of a scheduler or a command line; `Look`, `FileLineup`,
  `LoseHeartbeat` the heartbeat up to `_write_browser_evidence`; `GateReadsContext`,
  `GateAllows`, `GateRefuses` are `manager_context` with `evaluate_evidence` as the expert and
  the write preflight call them. The gate may always refuse; what it needs to allow is
  `FilesPass`.
* `SourceSchedule`: `due`, the `loop` with the pass under way, `health`, `incidents`, the `plan`'s
  gate status. `Wake` begins a pass of `run_scheduler`: it chooses the profile by the plan file
  and pulls forward what is further away than that profile allows (`Clamped`).
  `SyncSucceeds` and `SyncFails` are `_safe` with `update_dataset_health` and
  `upsert_operational_incident`, `PlanJudges`, `PlanIsWritten`, `PlanFails` a run of the expert
  as far as its gate. `troubled` is a history variable. `Restart` makes every job due.
* `ProjectionQuota`: the `ledger` of request times, the `callers` (scheduler, command line,
  emergency refresh of the dashboard), the time of the last `report`; `sent` is a history
  variable. `Begin` is `sync_fantasypros_projections` up to its size, `Request` is
  `_reserve_quota_request`, `ShowQuota` the endpoint that rewrites the ledger as it reads it.
  `Observed` are the times a caller may have read before it got the lock.

Abstracted: what a report says beyond roster and week; rankings, weather and backtests, which
the gate does not require; the health row of the browser. Worth knowing: the gate compares the
week of the browser's page with that of the context, and no week with that of nflverse's
report, so for hours after the week turns a decision may rest on last week's nflverse context
(`docs/intelligence-build-test-plan.md:113` asks for cross-source consistency;
`evidence.py:134` counts rosters and games). The property is about age for that reason.

### CodexWorker

State: `request` (files; `life` is the time to `expires_at`), `response`, `cache` (both cache
directories), `temp` (the temporary file of a draft request), per caller its `call`, the
`worker`, the age `beat` of the heartbeat file. A context stands for the hash of all it
holds. `runs` and `lost` are history variables.

| Step | Code |
|---|---|
| `UseCache`, `Ask`, `Rename`, `Settle`, `GiveUp` | `_choose_via_codex_cli`, `choose_in_season_plan`, `generate_message`: cache, request file, polls, deadline |
| `List`, `Take`, `RefuseExpired`, `LoginMissing`, `StartCodex`, `CodexEnds` | the loop of `main.mjs` with `processRequest`, `validateRequest`, `runCodexDecision` |
| `Stall`, `WorkerDies`, `StartWorker`, `Watchdog` | a hung event loop, a dead process, launchd, `codex-watchdog.sh` |
| `KickOff`, `ContextChanges`, `Tick` | the world |

Worth knowing: a draft request's id does not hold the time of the attempt, so an error that
answers it (expired while the worker was dead, say) is final for that board, and the room
takes its fallback; a season's id holds the minute. The worker takes one file after the other
in the order of their hashes, so a draft request may wait behind a season's. Abstracted: an
illegal decision and an error are one answer; signatures, ids and models always match; a torn
temporary file; the rename of the draft's cache. A launch of the worker without a login exits
and changes nothing.

## Runs

Every run sets `CHECK_DEADLOCK FALSE`: each of these systems really may stop, when the
windows have closed, the draft is complete or nobody asks, and the clock has reached its
bound.

| Run | Module, configuration | Instance | Shows |
|---|---|---|---|
| `outbox_sole_agent` | `MCOutbox`, `OutboxSole` | one process, one claim, lease of 1 tick, window [0, 3), `RetryLimit` 3, faults | `AtMostOneClick`, `BlockedProofIsTrue`, `HolderIsCurrent`, `ActionMirrorsCommand`, the refinement `ImplementsWriteOnce` |
| `outbox_progress` | `MCOutbox`, `OutboxProgress` | a pick that needs approval and an add; no faults; fairness | `HeldCommandSettles` |
| `lifecycle_faults` | `MCLifecycle`, `LifecycleFaults` | one add, one claim; windows [0, 1), grace 1, clock to 2, two attempts; faults and profile changes, or retries | `AnnouncedBeforeReported`, `CompletionIsTrue`, `InFlightIsNewer`, `OnlyRetriedInFlight` |
| `lifecycle_progress` | `MCLifecycle`, `LifecycleProgress` | the same; windows [0, 2), grace 2, clock to 3; no faults; fairness | `UncertainWriteSettles`, `OutcomeReachesManager` |
| `alerts` | `MCNotifications`, `AlertsProgress` | two alerts, an event, one worker, one death, lost answers; fairness | `RepeatsOnlyTheUnrecorded`, `DailyLimitHolds`, `AttemptsAreCounted`, `AlertsSettle` |
| `trash_talk` | `MCTrashTalk`, `TrashTalkFeed` | one matchup, a recap, days of 3 ticks, clock to 4 | `FeedWithinLimits`, `LeadIsHeld`, `QueuedWithConsent` |
| `draft_rooms` | `MCDraftRoom`, `DraftRoomLive` | two rooms, two teams, two rounds, the first three picks | `OneDraftPerBoard`, `StalePickOnlyAfterRelease`, `DraftsInTheLastSeconds` |
| `season_writes` | `MCSeasonWrites`, `SeasonWrites` | each family, one act of the world per behaviour | `NeverIntoAFullReserve`, `CancelsTheDecidedClaim`, `ReorderReachesTheOrder`, `OneOfferAtATime`, `AcceptsOnDecidedRosters`, `MinimumSequence`, `FreshPlanIsCarriedOut`, `CompiledChainIsProved`, `NeverClaimedTwice`, `CancelledStaysOut` |
| `trade_decline` | `MCSeasonWrites`, `TradeDecline` | the same | `DeclineIsReal` is violated |
| `lineup_overlap` | `MCSeasonWrites`, `LineupOverlap` | the same | `ScheduledPlanIsCarriedOut` is violated |
| `sources` | `MCSources`, `Sources` | two processes that sync, two rosters, two weeks; one schedule; three callers of the quota | `AllowsOnlyTheCurrentState`, `AllowsOnlyFreshReports`, `SourcesRecover`, `QuotaHolds` |
| `codex_requests` | `MCCodexWorker`, `CodexRequests` | monitor and scheduler, two boards, three minutes, two deaths or stalls; fairness | `RunsAgainOnlyAfterLoss`, `OneAnswerPerBoard`, `OnlyStalledRunsAreKilled`, `RequestsAreAnswered` |

The type invariants are properties of no run: those of the outbox, the lifecycle, the
notifications, the feed, the draft and the worker are proved for every instance.

### Bounds

`MaxNow` bounds the clock and `RetryLimit` is the code's own limit on attempts, 3 for both
endpoints (`main.py:1843`, `main.py:1903`). With a lease of one tick and a
window of three, a command can be leased, lapse and be leased again three times, so
reports of two earlier attempts can meet the third. One command is enough for
safety: commands share no row, and a process holds one at a time. Two are needed for
progress, where they compete for the process.

For the lifecycle, an add and a claim are the two kinds of command, and two commands are what
"one is queued while the other is in flight" needs; the decisions are hold, the add, the claim.
The clock runs past every window and past the grace of a command created last, so that claims
are processed and old writes given up in every order with the passes. An attempt is counted at
the lease, so a command can be retried `RetryLimit` - 1 times. `lifecycle_faults` is the largest run (11
million states), hence its shorter clock, the one retry of a command, and its two kinds of
behaviours: `Troubles` is {faults and profile changes, retries}, and a behaviour draws one of
the two and keeps it. All of them at once do not end within minutes; the theorems hold for any
`Troubles`, all at once included, and for all limits. The fair run has no trouble at all,
`LifecycleReopened` retries with the code's limit.

For the notifications, two attempts and a daily limit of one make both bounds bind with two
alerts; the clock runs into a second day. The proofs cover more workers. For the feed, three
triggers compete for a daily limit of two and a weekly one of three, a lead can turn and be
held for the stability period within four ticks, and a day has quiet hours.

For the draft, two teams and two rounds let the owner pick twice in a row at the turn of the
snake, which is the one case where a pick may fall on another board of the owner's; both of
these picks and the one before them are followed (`LastPick`), as no later board is the owner's.
Two rooms decide one board beside each other; players and rooms are symmetric. The proofs have
no such bounds. For the season writes, `Max...Turns = 1` allows one act of the owner or
the league at any point, and `Max...Rows` allows a second plan next to what the first left;
the leagues are the smallest in which a full reserve, two alike claims, two offers, a swap of
two starters and a chain of two adds occur.

For the worker, two callers share two boards of the draft, so a request waits behind another
one, outlives its caller and is joined again when it has expired, and two faults let a worker
die and its successor stall; a run may take longer than the heartbeat may be old. The
season's requests, whose ids hold the minute, and the trash talk's, which has no cache, are not
in the run: the proofs hold for callers that make any of them, and `CodexPlan` has the season's.

For the sources, two processes are what it takes for the older report to be written last; an
age of 0 or 1, a sync of at most one tick and a clock to 2 put a fetch, its report, a move of the
owner or a turn of the week, the browser's look and the gate in any order. One family changes
rosters and one turns weeks: together they are out of reach and meet in no definition but the
gate's, whose conjuncts they are. In the schedule a unit is five minutes and the long waits are
shortened, keeping their order; a sync takes no time, a plan up to one unit; the clock runs to
8, twice the bound on recovery. The quota has a limit of two with one in reserve, a
window of three and a slack of one, so that a window ends within the clock and the slack matters
in it. The proofs hold for all of these constants.

### Fairness

* Outbox: weak fairness of each process's own steps and of the server's handling of a report.
  Every browser call and HTTP call of the loop has a timeout, its catch returns to the loop,
  and launchd restarts a dead process; uvicorn handles the requests it receives. Nothing is
  assumed of the owner, the planner or the clock.
* Lifecycle: weak fairness of the scheduler's steps (an endless loop whose jobs have
  timeouts), of the clock, of the heartbeat's capture and of Sleeper's processing of a claim;
  strong fairness of `SyncContext`, because the sync is due every few minutes in a loop that
  passes it by in between. Nothing is assumed of the browser or of the owner.
* Notifications: weak fairness of each worker's loop, which has no other wait than a sleep of
  fixed length. Nothing is assumed of Slack or of time.
* Codex worker: weak fairness of the callers' polls, of the worker's loop, of launchd's
  KeepAlive (given a login) and of the watchdog that launchd starts every minute; strong
  fairness of `Tick`, whose guards only say that nobody sleeps through it, and minutes pass
  (`<>(minute = LastMinute)`): the loops that make the calls sleep between them, so no
  sequence of calls on answered requests fits into one instant. Nothing else is assumed of who
  asks, and a stalled worker may stall where it likes.

### What the violated properties say

* `DeclineIsReal`: an exception of the view that is to confirm a decline confirms it.
* `ScheduledPlanIsCarriedOut`: a swap retained from an older plan is leased before the swaps
  it relies on and is refused.

### Further disagreements

These configurations are kept beside the listed runs. Each checks one property and finds it
violated.

| Configuration, module | Property | What happens |
|---|---|---|
| `OutboxCancel`, `MCOutbox` | `CancellationIsDurable` | a synchronisation, or a report, that had read the row before a cancellation writes its own status over it, and the planner's search for cancelled actions no longer finds the identity. The click is still prevented: `cancel_action` clears `lease_owner` (`ImplementsWriteOnce` holds) |
| `OutboxSupersede`, `MCOutboxHistory` | `SupersededIsNotClicked` | a `preflight` report read before the supersession and committed after it revives the row; supersession leaves `lease_owner` in place, and the command is clicked |
| `OutboxAdd`, `MCOutbox` | `FreeAgentAddSettles` | an add whose post-state already exists is reported `verified` from `preflight`; the server makes it `unverified`, which may not follow `preflight`, and refuses it. The command stays there |
| `OutboxShared`, `MCOutbox` | `BlockedProofIsTrue` | two processes with one `agent_id` break the premise of the retry endpoints |
| `LifecycleIncident`, `MCLifecycle` | `IncidentIsAboutWrites` | a queued acquisition the browser has not touched is unresolved: the next pass opens the critical incident, which its own write preflight refuses it for. The state outlives the command's window; nothing but the owner's cancellation ends it |
| `LifecycleVerdict`, `MCLifecycle` | `RejectedOnFreshContext` | a rejected write may have been made after the context it is judged by was synced: the grace is counted from the creation of the command |
| `LifecycleReopened`, `MCLifecycle` | `NoneQueuedInFlight` | `in_season_execution.py:499`: "prior acquisition write(s) require reconciliation before another acquisition can be queued". An acquisition is refused before its write and the next pass settles it. The expert begins on that report, the owner reopens the command (`main.py:1862`, `main.py:1922`), the browser executes it, and the expert queues another acquisition. Retries are the only way without a fault (`OnlyRetriedInFlight`); with `Troubles = {{"faults"}}` a pass that raises leaves the report of an earlier one, which the expert of the same loop takes for current, and a profile change has the same effect. The report still covers every row its pass has read (`InFlightIsNewer`) |
| `LineupExecuting`, `MCSeasonWrites` | `PlanAwaitsTheExecution` | `in_season_execution.py:181`: "A lineup command is already being executed". A swap is leased and announced, and is no longer `leased` (`main.mjs:222`). A pass that still sees the old lineup queues its plan; the swap is clicked, and the first swap of the plan meets a lineup it does not start from. Without the swap under way the plan is carried out (`FreshPlanIsCarriedOut`) |
| `DraftRoomTwo`, `MCDraftRoom` | `OneDecisionPerBoard` | `draft_room.py:663`: "the monitor will not request or queue a second decision". The look for an existing command and the insert are two transactions with a model call between them, and monitor and scheduler both make them. The rooms normally get one answer (`OneAnswerPerBoard`); they differ when one reaches its deadline first and takes the fallback, or when their rankings differ. Both commands wait for the same board, and only one of them is ever drafted (`OneDraftPerBoard`) |
| `AlertsOutage`, `MCNotifications` | `OutageIsSurvived` | an outage of a few turns of the loop spends all attempts of an alert: a failed row is retried without back-off |
| `SourcesPolled`, `MCSources` | `CriticalSourcesArePolled` | `docs/intelligence-build-test-plan.md:103`: "Degraded scheduler cadence keeps critical sources at one- to five-minute polling instead of going quiet." The season's schedule is critical (`scheduler.py:163`), but its next run is six hours away in every profile (`scheduler.py:303`), and its incident blocks every plan until then |
| `CodexPlan`, `MCCodexWorker` | `CachedPlanIsUsable` | the comment at `in_season_expert.py:2065` lets "every executable identity" invalidate the cache. The hash covers the schedule and not the clock: a plan cached before a kickoff that moves the locked starter is found after it, refused, and not asked for again until something else in the context changes |
| `CodexCollision`, `MCCodexWorker` | `WritesDoNotCollide` | the comment at `in_season_expert.py:2803` explains why names with a pid collide between containers; `draft_expert.py:692` still has such a name. The second rename raises, and that room is blocked for the poll without its fallback |

## Proofs

All are for every value of the constants that the named assumptions allow.

`CommandOutboxProofs`: `TypeCorrect` and `RowsAgree` with no further assumption; under
`SoleAgent` (at most one browser process) `ClickedOnce`, `RetryEvidenceIsTrue`,
`HolderStaysCurrent` and `OutboxImplementsWriteOnce`. The assumption is needed:
`OutboxShared.cfg` is its counterexample, and it does hold of a deployment whose launchd
agent is stopped while a qualification script runs. `ActionMirrorsCommand` is inductive with
the types. The write-once properties are not: a clicked command is safe only because no
report that could reopen it is still on its way. `SafeInv` says so: the holder has the latest
lease (`LatestLease`); once clicked a command is out of reach and no retryable report about
it exists (`ClickedStaysOut`); a withdrawn command has no owner, so nothing about it passes
validation and no process passes the write preflight with it (`WithdrawnStaysOut`); an
engaged process's command is out of reach (`EngagedIsOut`); neither the process nor its
predecessors left a retryable report behind (`NoRetryReportYet`, `RetryReportsAreSingle`); a
command without a row has no owner (`NoRowNoOwner`). Each step either touches only rows, or
sends a report that allows no retry, or sends one that does, from before the click. The
refinement follows: `Click` maps to `Submit`, `Cancel` to `Withdraw`, everything else
stutters.

`AcquisitionLifecycleProofs`: `LifecycleTypeCorrect`, `OutcomesAreAnnounced` and
`CompletionsAreTrue` and `ReportProtectsWrites` with every fault and any retries;
`OnlyRetriesGetPast` speaks of the behaviours without raising jobs, restarts and profile changes
(`JobsAreSound`), and has to: `NoneQueuedInFlight` is violated with any one of the three troubles
in `LifecycleReopened.cfg`.
`AnnouncedBeforeReported` needs that what a pass is about to write has been announced
(`CommittedIsAnnounced`). `CompletionIsTrue` needs that the context and the pass under way tell
the truth (`HistoryIsTrue`, `ReadIsTrue`), and that a row before its write boundary has not
reached Sleeper (`UnpressedIsUnknown`). `ReportProtectsWrites` rests on `ProtectInv`: a command
that has not become ready since a pass read the rows, and whose outcome that pass resolved, is
settled (`Settled`: its row is missing or ended without a write, its transaction is public, or
its claim was retired), because the browser only moves commands whose status the pass counts as
active; this holds of the pass under way (`PassProtects`) and of the report on file
(`ReportProtects`). For `OnlyRetriesGetPast` it is added that from the reading of the rows
until the expert has queued nothing is created, which is what a raising pass or a tightened
profile breaks (`NothingCreatedInBetween`).

`NotificationOutboxProofs`: `TypeCorrect`, `NoNeedlessRepeat`, `DailyLimitBound` and
`AttemptsCounted`, for any number of workers. `IInv` adds what each place of a worker says of its
row (`PlaceOK`), that a lock has one holder (`Exclusive`) and that every message shown is
recorded, about to be, or counted as unrecorded (`MessagesAccounted`). The limit needs a count
per worker of what it may add to a day; hence its bound, limit + workers - 1. The attempts are
inductive with `IInv`: a start adds one to the runs and one holder to the event, an end turns
that holder into an attempt, a death into a crash.

`TrashTalkProofs`: `FeedImplementsOutbox` (`FeedSpec => Spec`: every step of the feed is a step
of the outbox, or leaves its rows alone), so the theorems above hold of the feed too; and
`FeedTypesHold`, `LeadChangesAreHeld`, `QueuedByConsent`, `FeedKeepsItsLimits`. A pending lead
was clear at every evaluation since it began (`PendingIsHeld`). The limits hold because they
are compared again in the transaction that writes the post, against posts that lie in the
past (`PostsAreDated`): adding one to a set under its bound keeps the bound, in its own day,
its own week and its own team, and changes no other.

`DraftRoomProofs`: for any teams, rounds, players and clock, and any number of rooms,
`DraftTypesHold`, `StalePicksFollowRelease`, `AgentWaitsForTheLastSeconds`,
`DecisionsBecomeOneDraft`. `DraftInv` ties every
decision of a room, row, hold of the agent and pick to the clock of its board: the n-th pick
is made within n times the timer (`ClockInv`), and what is decided opens in the last seconds
of that board (`ReleaseInv`), because a room that sees another board on its second read drops
its decision. That two decisions for a board never become two drafts is not inductive: the agent
clicks on whatever board there is, and needs to have seen, at its preflight, the board that none
of its drafts can have been decided on yet (`NotDraftedYet`).

`CodexWorkerProofs`: for any callers, contexts, timeouts and faults, `CodexTypesHold`,
`RunsAreCounted`, `RoomsAgree`, `WatchdogSparesWork`. What the worker still has to do has no
response (`Held`); a request without a response that is not running has lost as many answers
as it had runs (`Counted`), which is what lets it run once more; response file, cache and the
outcome of a call agree for a draft's question (`Agreed`), because a response is never
overwritten; and a worker that can go on has just beaten (`Fresh`).

`SeasonWritesProofs`: six properties of four families, for any players, rosters, reserve sizes
and bounds. `AgentHasOneOffer` and `AcceptsOnlyOnDecidedRosters` rest on `TradeInv`: a proposal
is staged only in a dialog without an active offer and nobody but the agent adds offers of its
own (`NoneBesideTheProposal`), and behind the preflight the rosters are those of the command
unless somebody else has acted (`RostersAsDecided`). `ClaimsOnce` rests on `NotYetClaimed`:
after the look at My Waivers only the owner adds claims, and one row fits a claim with a drop
when it is there. `CancelsOnlyTheDecidedClaim` rests on `PlaceRemembered`: the queue the agent
saw and the place of the only fitting row. The property speaks of a claim that is still in the
queue or that has a drop: one without a drop that is gone fits another claim for the same
player, which the agent then cancels, and two edits of the owner lead there.
`NeverMovesIntoAFullReserve` rests on `MovesSized`: from the plan to the agent's hand every
move is decided for a reserve with a free slot, and its agent has seen that reserve.
`EveryCompiledChainIsProved` says that two loops agree: what `CompileClaims` lets through, the
synchronisation's `Proof` proves. It needs induction over the number of claims, which is done
by the least counterexample (`LeastNumber`, from the smallest element of a set of naturals):
each loop's function has a next turn (`CompileNext`, `ProofNext`), one turn keeps the two in
step (`InStepAfterOne`), and so no length is the first at which they part (`CompiledInStep`).

`SourceProofs`: for any ages, waits, limits and numbers of processes,
`GateAllowsOnlyTheCurrentState`, `GateAllowsOnlyFreshReports`, `SourcesRecoverInTime`,
`QuotaAlwaysHolds`. The first two rest on `EvidenceInv`: history only grows (`HistoryIsKept`),
every page the agent holds or has filed was seen (`PagesWereSeen`), and a report is stamped
within a sync of its fetch (`ReportsAreStampedInTime`). The third is a bound on time proved as
an invariant, since liveness is out of reach: `ScheduleInv` says that a pass is over before the
clock goes on, but for a plan that is ready (`PassesAreInstant`), that the next plan is never
further away than the longest wait for one (`PlanIsNear`), and how long each source may still
be unwell after the last trouble, according to whether a plan has noticed (`SleeperComesBack`,
`NflverseComesBack`). It assumes `PlansAreRarest`: a profile only shortens the wait for a plan
(`expert_refresh_seconds` takes a minimum) and Sleeper's is shorter (five minutes against
`in_season_expert_minutes`, at least fifteen). The quota's bound holds because the times of the
ledger are close to those of the sending (`StampsAreClose`) and a count drops no request that
is still in the window (`LedgerKeepsTheWindow`); so the ledger's size at a grant bounds the
window's (`WindowIsWithinTheLimits`).

Only model-checked: liveness, for which TLAPS has no ENABLED; `MinimumSequence`,
`ReorderReachesTheOrder`, `FreshPlanIsCarriedOut` and `CancelledStaysOut`, whose operators select,
sort and fold sequences with recursive definitions of the library that the provers cannot
unfold; and the violated properties.

## Not modelled, and why

* Approval nonces, their expiry and their binding to a device: security checks. The approval
  step itself is in `CommandOutbox`.
* Of the evidence gate: the completeness counts (rosters, games, projections of starters), which
  may only refuse more. Of the scheduler: the due times of jobs the gate does not depend on.
* `optimize_lineup`, which nothing in the in-season loop calls; the expert's and the draft
  engine's scoring, championship simulation, projections, weather: floating-point numbers. A
  decision is any that the validation lets through.
* Several transactions of one add/drop identity in the reconciler, matched newest first; the
  free-agent qualification file.
* The composition of a retried command's second failure with the dedupe key of its alert
  (`main.py:2006`): both halves are modelled, apart.
* Selectors, log-in and launch of the browser; the parsing of what is ingested, weather, rankings
  and historical backfills; the dashboard; the retired macOS shim; deployment, migrations and
  backups, but for launchd's restarts.

What would add most next: a run of `CommandOutbox` with faults that shows which commands a
crash leaves in `preflight`, the reconciler's matching of several transactions, the compilers of
the lineup and of the pending queue rewritten as functions on turns so that they can be proved
about, and the discrete part of the draft engine (tiers, rosters still to fill).
