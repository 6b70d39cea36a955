--------------------------- MODULE CommandOutbox ---------------------------
(***************************************************************************)
(* The execution outbox: the rows of execution_commands and action_items,  *)
(* the HTTP handlers that move them, the scheduler transactions that       *)
(* withdraw or settle them, and the browser processes that lease a command *)
(* and press the final Sleeper control.                                    *)
(*                                                                         *)
(* A handler that locks its row (cancel, approve, lease, write preflight,  *)
(* retry) is one step.  agent_result and the two scheduler transactions    *)
(* read rows without a lock and write them when they commit, so each of    *)
(* them is a read step and a commit step; the commit writes only the       *)
(* columns the handler assigned, over whatever was committed in between.   *)
(***************************************************************************)
EXTENDS Integers, FiniteSets

CONSTANTS
  Command,        \* commands, one for each action_items.dedupe_key
  Agent,          \* running processes that use the agent API
  AgentIds,       \* agent_id values
  IdOf,           \* the agent_id each process sends; processes may share one
  NoId,           \* lease_owner IS NULL
  NoCommand,      \* what a process without a command holds
  Planned,        \* commands the in-season planner proposes and supersedes
  Acquisition,    \* ADD_FREE_AGENT and WAIVER_CLAIM commands
  FreeAgentAdd,   \* ADD_FREE_AGENT commands
  Retryable,      \* commands of an action type the retry endpoints accept
  NeedsApproval,  \* proposals that need the owner's approval
  NotBefore,      \* start of a command's execution window
  ExpiresAt,      \* end of a command's execution window
  LeaseTicks,     \* lease_seconds, in clock ticks
  RetryLimit,     \* the attempt_count at which a retry is refused
  MaxNow,         \* bound on the clock
  Faults          \* whether processes crash and calls are lost or time out

ASSUME OutboxAssumption ==
  /\ IdOf \in [Agent -> AgentIds]
  /\ NoId \notin AgentIds
  /\ NoCommand \notin Command
  /\ Planned \subseteq Command
  /\ FreeAgentAdd \subseteq Acquisition
  /\ Acquisition \subseteq Command
  /\ Retryable \subseteq Command
  /\ NeedsApproval \subseteq Command
  /\ NotBefore \in [Command -> Nat]
  /\ ExpiresAt \in [Command -> Nat]
  /\ LeaseTicks \in Nat \ {0}
  /\ RetryLimit \in Nat
  /\ MaxNow \in Nat
  /\ Faults \in BOOLEAN

VARIABLES
  now,         \* the database clock
  status,      \* execution_commands.status; "none" before the row exists
  owner,       \* execution_commands.lease_owner
  leaseUntil,  \* execution_commands.lease_until; 0 is NULL
  attempts,    \* execution_commands.attempt_count
  evidence,    \* result.evidence.write_attempted: "absent", "no" or "yes"
  action,      \* action_items.status; "none" before the row exists
  pc,          \* where a browser process is in its loop
  cmd,         \* the command it holds
  att,         \* the attempt_count of the lease it holds
  reply,       \* what it knows of the report it is waiting for
  reports,     \* result reports on the wire or inside agent_result
  job,         \* the scheduler's open transaction
  clicks,      \* history: final Sleeper controls pressed for a command
  withdrawn    \* history: commands whose cancellation the owner was told of

rowVars == <<status, owner, leaseUntil, attempts, evidence, action>>
agentVars == <<pc, cmd, att, reply>>
historyVars == <<clicks, withdrawn>>
vars == <<now, rowVars, agentVars, reports, job, historyVars>>

CommandStatus ==
  {"none", "ready", "leased", "preflight", "executing", "verifying",
   "verified", "unverified", "failed", "blocked", "cancelled"}
ActionStatus == CommandStatus \cup {"approval_required", "superseded"}
FinalStatus == {"verified", "unverified", "failed", "blocked"}
ReportTarget == FinalStatus \cup {"preflight", "executing", "verifying"}
Evidence == {"absent", "no", "yes"}

\* A body of POST /commands/{id}/result: the status after the server's own
\* rule for free-agent adds, and evidence.write_attempted.  "sent" has not
\* been handled; "read" has passed validation and will be committed.
Report == [cmd : Command, att : Nat, by : Agent, target : ReportTarget,
           wrote : Evidence, phase : {"sent", "read"}]

Waiting == {"await_preflight", "await_executing", "await_verifying", "await_final"}
AgentPc == Waiting \cup {"idle", "preparing", "cleared", "submitting", "submitted"}

\* Mutant: a table in which an interrupted submission cannot be reported.
TransitionsWithoutUncertainWrite ==
  [s \in CommandStatus |->
     CASE s = "ready"      -> {"leased"}
       [] s = "leased"     -> {"preflight", "blocked", "failed"}
       [] s = "preflight"  -> {"executing", "verified", "blocked", "failed"}
       [] s = "executing"  -> {"verifying", "failed", "blocked"}
       [] s = "verifying"  -> {"verified", "unverified", "failed", "blocked"}
       [] s = "unverified" -> {"verified", "failed"}
       [] OTHER            -> {}]

EXECUTION_TRANSITIONS ==
  [s \in CommandStatus |->
     CASE s = "ready"      -> {"leased"}
       [] s = "leased"     -> {"preflight", "blocked", "failed"}
       [] s = "preflight"  -> {"executing", "verified", "blocked", "failed"}
       [] s = "executing"  -> {"verifying", "unverified", "failed", "blocked"}
       [] s = "verifying"  -> {"verified", "unverified", "failed", "blocked"}
       [] s = "unverified" -> {"verified", "failed"}
       [] OTHER            -> {}]

Init ==
  /\ now = 0
  /\ status = [c \in Command |-> "none"]
  /\ owner = [c \in Command |-> NoId]
  /\ leaseUntil = [c \in Command |-> 0]
  /\ attempts = [c \in Command |-> 0]
  /\ evidence = [c \in Command |-> "absent"]
  /\ action = [c \in Command |-> "none"]
  /\ pc = [a \in Agent |-> "idle"]
  /\ cmd = [a \in Agent |-> NoCommand]
  /\ att = [a \in Agent |-> 0]
  /\ reply = [a \in Agent |-> "none"]
  /\ reports = {}
  /\ job = [kind |-> "idle", rows |-> {}]
  /\ clicks = [c \in Command |-> 0]
  /\ withdrawn = {}

-----------------------------------------------------------------------------
(* The clock, and the owner's and the planner's side of the outbox. *)

Tick ==
  /\ now < MaxNow
  /\ now' = now + 1
  /\ UNCHANGED <<rowVars, agentVars, reports, job, historyVars>>

\* propose_execution: a new dedupe_key becomes a ready command, or an action
\* that waits for approval and has no command yet.
FirstActionStatus(c) == IF c \in NeedsApproval THEN "approval_required" ELSE "ready"

\* A proposal from outside the planner (a draft pick, for one).
Propose(c) ==
  /\ c \notin Planned
  /\ action[c] = "none"
  /\ NotBefore[c] < ExpiresAt[c]
  /\ action' = [action EXCEPT ![c] = FirstActionStatus(c)]
  /\ status' = IF c \in NeedsApproval THEN status ELSE [status EXCEPT ![c] = "ready"]
  /\ UNCHANGED <<now, owner, leaseUntil, attempts, evidence, agentVars, reports, job, historyVars>>

\* approve_action with a valid nonce, before approval_expires_at.
Approve(c) ==
  /\ action[c] = "approval_required"
  /\ now < ExpiresAt[c]
  /\ action' = [action EXCEPT ![c] = "ready"]
  /\ status' = [status EXCEPT ![c] = "ready"]
  /\ UNCHANGED <<now, owner, leaseUntil, attempts, evidence, agentVars, reports, job, historyVars>>

_command_can_be_cancelled(c) ==
  \/ status[c] = "ready"
  \/ status[c] = "leased" /\ leaseUntil[c] # 0 /\ leaseUntil[c] <= now

\* Mutant: lease_owner is left on a cancelled command.
CancelKeepsOwner(c) ==
  /\ \/ action[c] = "approval_required" /\ status[c] = "none"
     \/ _command_can_be_cancelled(c)
  /\ IF status[c] = "none"
     THEN UNCHANGED <<status, leaseUntil, evidence>>
     ELSE /\ status' = [status EXCEPT ![c] = "cancelled"]
          /\ leaseUntil' = [leaseUntil EXCEPT ![c] = 0]
          /\ evidence' = [evidence EXCEPT ![c] = "absent"]
  /\ action' = [action EXCEPT ![c] = "cancelled"]
  /\ withdrawn' = withdrawn \cup {c}
  /\ UNCHANGED <<now, owner, attempts, agentVars, reports, job, clicks>>

\* cancel_action: allowed while no lease is live.  The owner's answer is the
\* promise that the command will not be carried out.
Cancel(c) ==
  /\ \/ action[c] = "approval_required" /\ status[c] = "none"
     \/ _command_can_be_cancelled(c)
  /\ IF status[c] = "none"
     THEN UNCHANGED <<status, owner, leaseUntil, evidence>>
     ELSE /\ status' = [status EXCEPT ![c] = "cancelled"]
          /\ owner' = [owner EXCEPT ![c] = NoId]
          /\ leaseUntil' = [leaseUntil EXCEPT ![c] = 0]
          /\ evidence' = [evidence EXCEPT ![c] = "absent"]
  /\ action' = [action EXCEPT ![c] = "cancelled"]
  /\ withdrawn' = withdrawn \cup {c}
  /\ UNCHANGED <<now, attempts, agentVars, reports, job, clicks>>

\* The evidence that lets a blocked command be tried again.
ProvenUnwritten(c) == status[c] = "blocked" /\ evidence[c] = "no"

\* Mutant: the retry forgets transition_action.
RetryWithoutTransition(c) ==
  /\ c \in Retryable
  /\ ProvenUnwritten(c)
  /\ attempts[c] < RetryLimit
  /\ now < ExpiresAt[c]
  /\ status' = [status EXCEPT ![c] = "ready"]
  /\ owner' = [owner EXCEPT ![c] = NoId]
  /\ leaseUntil' = [leaseUntil EXCEPT ![c] = 0]
  /\ UNCHANGED <<now, attempts, evidence, action, agentVars, reports, job, historyVars>>

\* retry_proven_prewrite_failure and retry_prewrite_qualification: neither
\* touches result, and neither looks at who holds the command.
Retry(c) ==
  /\ c \in Retryable
  /\ ProvenUnwritten(c)
  /\ attempts[c] < RetryLimit
  /\ now < ExpiresAt[c]
  /\ status' = [status EXCEPT ![c] = "ready"]
  /\ owner' = [owner EXCEPT ![c] = NoId]
  /\ leaseUntil' = [leaseUntil EXCEPT ![c] = 0]
  /\ action' = [action EXCEPT ![c] = "ready"]
  /\ UNCHANGED <<now, attempts, evidence, agentVars, reports, job, historyVars>>

-----------------------------------------------------------------------------
(* The scheduler: one process, one transaction at a time. *)

\* The unlocked read of a synchronize_*_actions call.  It returns without
\* writing when an active command is under a live lease; otherwise it will
\* withdraw the active commands the new plan no longer wants.
SyncRead ==
  /\ job.kind = "idle"
  /\ LET active == {c \in Planned : status[c] \in {"ready", "leased"}}
     IN /\ ~ \E c \in active : status[c] = "leased" /\ leaseUntil[c] > now
        /\ \E rows \in SUBSET active : job' = [kind |-> "supersede", rows |-> rows]
  /\ UNCHANGED <<now, rowVars, agentVars, reports, historyVars>>

\* Its commit: the withdrawn rows become blocked, their actions superseded,
\* and the new plan's commands appear.
SyncCommit ==
  /\ job.kind = "supersede"
  /\ \E new \in SUBSET {c \in Planned : action[c] = "none" /\ NotBefore[c] < ExpiresAt[c]} :
       /\ status' = [c \in Command |-> IF c \in job.rows THEN "blocked"
                                       ELSE IF c \in new \ NeedsApproval THEN "ready"
                                       ELSE status[c]]
       /\ action' = [c \in Command |-> IF c \in job.rows THEN "superseded"
                                       ELSE IF c \in new THEN FirstActionStatus(c)
                                       ELSE action[c]]
  /\ evidence' = [c \in Command |-> IF c \in job.rows THEN "absent" ELSE evidence[c]]
  /\ job' = [kind |-> "idle", rows |-> {}]
  /\ UNCHANGED <<now, owner, leaseUntil, attempts, agentVars, reports, historyVars>>

\* reconcile_acquisition_lifecycle found no transaction for an uncertain
\* write, or for a verified add.
ReconcileUnobserved ==
  /\ job.kind = "idle"
  /\ \E rows \in SUBSET {c \in Acquisition : \/ status[c] = "unverified"
                                             \/ c \in FreeAgentAdd /\ status[c] = "verified"} :
       /\ rows # {}
       /\ job' = [kind |-> "unobserved", rows |-> rows]
  /\ UNCHANGED <<now, rowVars, agentVars, reports, historyVars>>

\* It found a matching transaction that Sleeper rejected; the command may be
\* in any other state, since the owner can have made the same move by hand.
ReconcileRejected ==
  /\ job.kind = "idle"
  /\ \E rows \in SUBSET {c \in Acquisition : status[c] \notin {"none", "failed"}} :
       /\ rows # {}
       /\ job' = [kind |-> "rejected", rows |-> rows]
  /\ UNCHANGED <<now, rowVars, agentVars, reports, historyVars>>

ReconcileCommit ==
  /\ job.kind \in {"unobserved", "rejected"}
  /\ status' = [c \in Command |-> IF c \in job.rows THEN "failed" ELSE status[c]]
  /\ action' = [c \in Command |-> IF c \in job.rows THEN "failed" ELSE action[c]]
  /\ evidence' = [c \in Command |-> IF c \in job.rows /\ job.kind = "unobserved"
                                    THEN "yes" ELSE evidence[c]]
  /\ job' = [kind |-> "idle", rows |-> {}]
  /\ UNCHANGED <<now, owner, leaseUntil, attempts, agentVars, reports, historyVars>>

\* The scheduler process stops and its transaction rolls back.
JobRollback ==
  /\ Faults
  /\ job.kind # "idle"
  /\ job' = [kind |-> "idle", rows |-> {}]
  /\ UNCHANGED <<now, rowVars, agentVars, reports, historyVars>>

-----------------------------------------------------------------------------
(* POST /internal/agent/commands/{id}/result *)

AwaitedIn(target) ==
  CASE target = "preflight" -> "await_preflight"
    [] target = "executing" -> "await_executing"
    [] target = "verifying" -> "await_verifying"
    [] OTHER                -> "await_final"

\* The process that sent the report is still waiting for its answer.
IsAwaited(r) ==
  /\ pc[r.by] = AwaitedIn(r.target)
  /\ cmd[r.by] = r.cmd
  /\ att[r.by] = r.att
  /\ reply[r.by] = "none"

Answer(r, outcome) ==
  reply' = [reply EXCEPT ![r.by] = IF IsAwaited(r) THEN outcome ELSE @]

ReportIsValid(r) ==
  /\ owner[r.cmd] = IdOf[r.by]
  /\ r.target \in EXECUTION_TRANSITIONS[status[r.cmd]]

\* agent_result up to validate_execution_transition: session.get, no lock.
ReportRead(r) ==
  /\ r \in reports
  /\ r.phase = "sent"
  /\ ReportIsValid(r)
  /\ reports' = (reports \ {r}) \cup {[r EXCEPT !.phase = "read"]}
  /\ UNCHANGED <<now, rowVars, agentVars, job, historyVars>>

\* agent_result answers 404 or 409.
ReportReject(r) ==
  /\ r \in reports
  /\ r.phase = "sent"
  /\ ~ ReportIsValid(r)
  /\ reports' = reports \ {r}
  /\ Answer(r, "error")
  /\ UNCHANGED <<now, rowVars, pc, cmd, att, job, historyVars>>

\* agent_result from there to its commit: status, result and, for a final
\* status, lease_until; lease_owner stays.
ReportCommit(r) ==
  /\ r \in reports
  /\ r.phase = "read"
  /\ status' = [status EXCEPT ![r.cmd] = r.target]
  /\ evidence' = [evidence EXCEPT ![r.cmd] = r.wrote]
  /\ leaseUntil' = [leaseUntil EXCEPT ![r.cmd] = IF r.target \in FinalStatus THEN 0 ELSE @]
  /\ action' = [action EXCEPT ![r.cmd] = r.target]
  /\ reports' = reports \ {r}
  /\ Answer(r, "ok")
  /\ UNCHANGED <<now, owner, attempts, pc, cmd, att, job, historyVars>>

\* The request never arrives, or the server stops before it commits.
ReportLost(r) ==
  /\ Faults
  /\ r \in reports
  /\ reports' = reports \ {r}
  /\ Answer(r, "error")
  /\ UNCHANGED <<now, rowVars, pc, cmd, att, job, historyVars>>

\* REQUEST_TIMEOUT_MS passes: the process goes on as after an error, the
\* report stays where it is.
ReportTimeout(a) ==
  /\ Faults
  /\ pc[a] \in Waiting
  /\ reply[a] = "none"
  /\ reply' = [reply EXCEPT ![a] = "error"]
  /\ UNCHANGED <<now, rowVars, pc, cmd, att, reports, job, historyVars>>

-----------------------------------------------------------------------------
(* The browser process: main.mjs and executor.mjs *)

\* report(...) and wait for the answer.
SendAndWait(a, c, n, target, wrote) ==
  /\ reports' = reports \cup {[cmd |-> c, att |-> n, by |-> a, target |-> target,
                               wrote |-> wrote, phase |-> "sent"]}
  /\ pc' = [pc EXCEPT ![a] = AwaitedIn(target)]
  /\ reply' = [reply EXCEPT ![a] = "none"]

\* Mutant: an uncertain write is leased again when its window is still open.
LeasableWhenUncertain(c) ==
  /\ status[c] \in {"ready", "leased", "unverified"}
  /\ NotBefore[c] <= now \/ c \in NeedsApproval
  /\ now < ExpiresAt[c]
  /\ leaseUntil[c] < now \/ leaseUntil[c] = 0

\* Mutant: lease recovery extends to commands in preflight.
LeasableInPreflight(c) ==
  /\ status[c] \in {"ready", "leased", "preflight"}
  /\ NotBefore[c] <= now \/ c \in NeedsApproval
  /\ now < ExpiresAt[c]
  /\ leaseUntil[c] < now \/ leaseUntil[c] = 0

\* confirm_action passes no not_before on: an approved command is eligible
\* from its approval on.
Leasable(c) ==
  /\ status[c] \in {"ready", "leased"}
  /\ NotBefore[c] <= now \/ c \in NeedsApproval
  /\ now < ExpiresAt[c]
  /\ leaseUntil[c] < now \/ leaseUntil[c] = 0

GrantLease(a, c) ==
  /\ Leasable(c)
  /\ status' = [status EXCEPT ![c] = "leased"]
  /\ owner' = [owner EXCEPT ![c] = IdOf[a]]
  /\ leaseUntil' = [leaseUntil EXCEPT ![c] = now + LeaseTicks]
  /\ attempts' = [attempts EXCEPT ![c] = @ + 1]
  /\ UNCHANGED <<now, evidence, action, job, historyVars>>

\* lease_execution_command, and the "preflight" report main.mjs sends at once.
Lease(a, c) ==
  /\ pc[a] = "idle"
  /\ GrantLease(a, c)
  /\ cmd' = [cmd EXCEPT ![a] = c]
  /\ att' = [att EXCEPT ![a] = attempts[c] + 1]
  /\ SendAndWait(a, c, attempts[c] + 1, "preflight", "absent")

\* The lease is committed but its answer does not reach the process.
LeaseAnswerLost(a, c) ==
  /\ Faults
  /\ pc[a] = "idle"
  /\ GrantLease(a, c)
  /\ UNCHANGED <<agentVars, reports>>

\* executeCommand starts once the "preflight" report is acknowledged.
StartExecution(a) ==
  /\ pc[a] = "await_preflight"
  /\ reply[a] = "ok"
  /\ pc' = [pc EXCEPT ![a] = "preparing"]
  /\ UNCHANGED <<now, rowVars, cmd, att, reply, reports, job, historyVars>>

\* What agent_result makes of a claimed "verified": an add needs the exact
\* completed transaction among its evidence.
EffectiveStatus(c, claimed, transactionBacked) ==
  IF c \in FreeAgentAdd /\ claimed = "verified" /\ ~transactionBacked
  THEN "unverified" ELSE claimed

\* executeCommand returns before the write boundary: blocked by a check, by
\* the backend gate or by an exception; or verified, because the post-state
\* already exists or EXECUTION_MODE is a dry run.  Neither "verified" result
\* carries the transaction evidence of an add.
FinishWithoutWrite(a) ==
  /\ pc[a] = "preparing"
  /\ \E claimed \in {"blocked", "verified"} :
       SendAndWait(a, cmd[a], att[a], EffectiveStatus(cmd[a], claimed, FALSE), "no")
  /\ UNCHANGED <<now, rowVars, cmd, att, job, historyVars>>

\* agent_write_preflight with every evidence check passing.
WritePreflight(a) ==
  /\ pc[a] = "preparing"
  /\ owner[cmd[a]] = IdOf[a]
  /\ status[cmd[a]] \in {"leased", "preflight"}
  /\ now < ExpiresAt[cmd[a]]
  /\ pc' = [pc EXCEPT ![a] = "cleared"]
  /\ UNCHANGED <<now, rowVars, cmd, att, reply, reports, job, historyVars>>

\* beforeWrite allowed the click and executor.mjs announces "executing".
AnnounceExecuting(a) ==
  /\ pc[a] = "cleared"
  /\ SendAndWait(a, cmd[a], att[a], "executing", "no")
  /\ UNCHANGED <<now, rowVars, cmd, att, job, historyVars>>

\* The announcement failed: the exception is caught with write_attempted
\* false.
AnnouncementFailed(a) ==
  /\ pc[a] = "await_executing"
  /\ reply[a] = "error"
  /\ SendAndWait(a, cmd[a], att[a], "blocked", "no")
  /\ UNCHANGED <<now, rowVars, cmd, att, job, historyVars>>

CrossWriteBoundary(a) ==
  /\ pc[a] = "await_executing"
  /\ reply[a] = "ok"
  /\ pc' = [pc EXCEPT ![a] = "submitting"]
  /\ UNCHANGED <<now, rowVars, cmd, att, reply, reports, job, historyVars>>

\* The final Sleeper control is pressed.
Click(a) ==
  /\ pc[a] = "submitting"
  /\ clicks' = [clicks EXCEPT ![cmd[a]] = @ + 1]
  /\ pc' = [pc EXCEPT ![a] = "submitted"]
  /\ UNCHANGED <<now, rowVars, cmd, att, reply, reports, job, withdrawn>>

\* Mutant: write_attempted is set after the commit call instead of before it.
SubmissionThrowsUnmarked(a) ==
  /\ pc[a] \in {"submitting", "submitted"}
  /\ SendAndWait(a, cmd[a], att[a], "blocked", "no")
  /\ UNCHANGED <<now, rowVars, cmd, att, job, historyVars>>

\* The driver throws, before the control is pressed or after it.
SubmissionThrows(a) ==
  /\ pc[a] \in {"submitting", "submitted"}
  /\ SendAndWait(a, cmd[a], att[a], "unverified", "yes")
  /\ UNCHANGED <<now, rowVars, cmd, att, job, historyVars>>

AnnounceVerifying(a) ==
  /\ pc[a] = "submitted"
  /\ SendAndWait(a, cmd[a], att[a], "verifying", "yes")
  /\ UNCHANGED <<now, rowVars, cmd, att, job, historyVars>>

\* The outcome check after the write; a failed announcement counts as an
\* uncertain write.
FinishAfterWrite(a) ==
  /\ pc[a] = "await_verifying"
  /\ reply[a] # "none"
  /\ \E claimed \in {"unverified"} \cup (IF reply[a] = "ok" THEN {"verified"} ELSE {}) :
       SendAndWait(a, cmd[a], att[a], EffectiveStatus(cmd[a], claimed, TRUE), "yes")
  /\ UNCHANGED <<now, rowVars, cmd, att, job, historyVars>>

\* The loop comes round again: the final report is answered, or a failed
\* report was thrown up to the loop's own catch.
BackToLoop(a) ==
  /\ \/ pc[a] = "await_final" /\ reply[a] # "none"
     \/ pc[a] = "await_preflight" /\ reply[a] = "error"
  /\ pc' = [pc EXCEPT ![a] = "idle"]
  /\ cmd' = [cmd EXCEPT ![a] = NoCommand]
  /\ att' = [att EXCEPT ![a] = 0]
  /\ reply' = [reply EXCEPT ![a] = "none"]
  /\ UNCHANGED <<now, rowVars, reports, job, historyVars>>

\* The process dies and launchd starts it again, or a page error outside
\* executeCommand's try block drops the command.
Crash(a) ==
  /\ Faults
  /\ pc[a] # "idle"
  /\ pc' = [pc EXCEPT ![a] = "idle"]
  /\ cmd' = [cmd EXCEPT ![a] = NoCommand]
  /\ att' = [att EXCEPT ![a] = 0]
  /\ reply' = [reply EXCEPT ![a] = "none"]
  /\ UNCHANGED <<now, rowVars, reports, job, historyVars>>

\* reconcile-qualified-waiver.mjs: a claim seen in My Waivers is reported
\* verified under the loop's agent_id, without a lease and whatever the
\* status of the command.
ReconcileScript(a, c) ==
  /\ c \in Acquisition \ FreeAgentAdd
  /\ status[c] # "none"
  /\ reports' = reports \cup {[cmd |-> c, att |-> 0, by |-> a, target |-> "verified",
                               wrote |-> "yes", phase |-> "sent"]}
  /\ UNCHANGED <<now, rowVars, agentVars, job, historyVars>>

-----------------------------------------------------------------------------

AgentStep(a) ==
  \/ \E c \in Command : Lease(a, c)
  \/ StartExecution(a)
  \/ FinishWithoutWrite(a)
  \/ WritePreflight(a)
  \/ AnnounceExecuting(a)
  \/ AnnouncementFailed(a)
  \/ CrossWriteBoundary(a)
  \/ Click(a)
  \/ SubmissionThrows(a)
  \/ AnnounceVerifying(a)
  \/ FinishAfterWrite(a)
  \/ BackToLoop(a)

ServerStep == \E r \in reports : ReportRead(r) \/ ReportReject(r) \/ ReportCommit(r)

AgentFault(a) ==
  \/ \E c \in Command : LeaseAnswerLost(a, c)
  \/ ReportTimeout(a)
  \/ Crash(a)

SchedulerStep ==
  \/ SyncRead
  \/ SyncCommit
  \/ ReconcileUnobserved
  \/ ReconcileRejected
  \/ ReconcileCommit
  \/ JobRollback

OwnerStep(c) == Propose(c) \/ Approve(c) \/ Cancel(c) \/ Retry(c)

Next ==
  \/ Tick
  \/ \E c \in Command : OwnerStep(c)
  \/ SchedulerStep
  \/ ServerStep
  \/ \E r \in reports : ReportLost(r)
  \/ \E a \in Agent : AgentStep(a) \/ AgentFault(a)
  \/ \E a \in Agent, c \in Command : ReconcileScript(a, c)

Spec == Init /\ [][Next]_vars

TypeOK ==
  /\ now \in Nat
  /\ status \in [Command -> CommandStatus]
  /\ owner \in [Command -> AgentIds \cup {NoId}]
  /\ leaseUntil \in [Command -> Nat]
  /\ attempts \in [Command -> Nat]
  /\ evidence \in [Command -> Evidence]
  /\ action \in [Command -> ActionStatus]
  /\ pc \in [Agent -> AgentPc]
  /\ cmd \in [Agent -> Command \cup {NoCommand}]
  /\ att \in [Agent -> Nat]
  /\ reply \in [Agent -> {"none", "ok", "error"}]
  /\ reports \subseteq Report
  /\ job \in [kind : {"idle", "supersede", "unobserved", "rejected"}, rows : SUBSET Command]
  /\ clicks \in [Command -> Nat]
  /\ withdrawn \subseteq Command

-----------------------------------------------------------------------------
(* Safety *)

\* However leases lapse, processes restart, reports arrive late and operators
\* retry, the final control of a command is pressed at most once
\* (executor.mjs crosses its write boundary once per command).
AtMostOneClick == \A c \in Command : clicks[c] <= 1

\* "blocked" with write_attempted = false is what the retry endpoints take as
\* proof that no click occurred: it must never be on record for a command
\* that was clicked, in this attempt or an earlier one.
BlockedProofIsTrue == \A c \in Command : ProvenUnwritten(c) => clicks[c] = 0

WriteSide == {"preparing", "cleared", "await_executing", "submitting", "submitted", "await_verifying"}

\* From the acknowledged "preflight" report to the outcome check, the command
\* a process holds is still the latest lease of that command, and its row is
\* in no state from which it could be leased again, cancelled or retried.
HolderIsCurrent ==
  \A a \in Agent : pc[a] \in WriteSide =>
    /\ att[a] = attempts[cmd[a]]
    /\ status[cmd[a]] \notin {"none", "ready", "leased", "cancelled"}
    /\ ~ ProvenUnwritten(cmd[a])

\* The status the dashboard shows (action_items) and the status the outbox
\* acts on (execution_commands) tell the same story, although seven handlers
\* write the two rows separately.
ActionMirrorsCommand ==
  \A c \in Command :
    CASE status[c] = "none"                 -> action[c] \in {"none", "approval_required", "cancelled"}
      [] status[c] \in {"ready", "leased"}  -> action[c] = "ready"
      [] status[c] = "blocked"              -> action[c] \in {"blocked", "superseded"}
      [] OTHER                              -> action[c] = status[c]

WO == INSTANCE WriteOnce WITH Command <- Command, clicks <- clicks, withdrawn <- withdrawn

\* The outbox implements WriteOnce: every click is the first one, and neither
\* precedes nor follows an accepted cancellation.
ImplementsWriteOnce == WO!Spec

\* "Cancellation is durable and suppresses the identical grounded plan"
\* (docs/in-season-data-plan.md): the planner looks for action_items that are
\* "cancelled", so that status must last, until Sleeper's own history says
\* that the move failed.
CancellationIsDurable ==
  [][\A c \in Command :
       action[c] = "cancelled" => action'[c] \in {"cancelled", "failed"}]_vars

(* Progress *)

\* The processes keep running (every browser and HTTP call of the loop has a
\* timeout, and its catch returns to the loop) and the server handles what it
\* receives; nothing makes the owner or the planner act.
FairSpec ==
  /\ Spec
  /\ \A a \in Agent : WF_vars(AgentStep(a))
  /\ WF_vars(ServerStep)

Held(c) == status[c] \in {"leased", "preflight", "executing", "verifying"}

Settles(c) == (Held(c) /\ c \notin withdrawn) ~> (~ Held(c) \/ c \in withdrawn)

\* Without faults, a leased command that the owner does not cancel leaves the
\* browser's hands again (main.mjs's loop, agent_result).
HeldCommandSettles == \A c \in Command \ FreeAgentAdd : Settles(c)

\* The same of free-agent adds: the lifecycle of docs/architecture.md ends
\* every command that reached "preflight" in verified, unverified, failed or
\* blocked.
FreeAgentAddSettles == \A c \in FreeAgentAdd : Settles(c)
=============================================================================
