------------------------ MODULE CommandOutboxProofs ------------------------
(***************************************************************************)
(* What CommandOutbox guarantees for every set of commands, windows, lease *)
(* length and clock bound: type correctness and the agreement of the two   *)
(* rows for any processes, and the write-once guarantees when one process  *)
(* executes commands.                                                      *)
(***************************************************************************)
EXTENDS CommandOutbox, TLAPS

-----------------------------------------------------------------------------
(* Type correctness and the agreement of the two rows, for any processes. *)

\* A busy process holds a command.
BusyInv == \A a \in Agent : pc[a] # "idle" => cmd[a] \in Command

TypeInv == TypeOK /\ BusyInv

\* TypeInv holds of a database without commands and idle processes.
LEMMA TypeInit == Init => TypeInv
  BY OutboxAssumption
  DEF Init, TypeInv, TypeOK, BusyInv, CommandStatus, ActionStatus, Evidence, AgentPc, Waiting

\* What a report of this process looks like, and where it waits.
LEMMA SendTyped ==
  ASSUME TypeOK, NEW a \in Agent, NEW c \in Command, NEW n \in Nat,
         NEW target \in ReportTarget, NEW wrote \in Evidence,
         SendAndWait(a, c, n, target, wrote)
  PROVE  /\ reports' \subseteq Report
         /\ pc' \in [Agent -> AgentPc]
         /\ reply' \in [Agent -> {"none", "ok", "error"}]
         /\ \A b \in Agent : b # a => pc'[b] = pc[b]
  BY DEF SendAndWait, TypeOK, Report, AgentPc, Waiting, AwaitedIn, ReportTarget, FinalStatus

\* agent_result's own rule yields a status a report can carry.
LEMMA EffectiveTyped ==
  ASSUME NEW c, NEW claimed \in FinalStatus, NEW backed \in BOOLEAN
  PROVE  EffectiveStatus(c, claimed, backed) \in ReportTarget
  BY DEF EffectiveStatus, ReportTarget, FinalStatus

\* Every step keeps TypeInv, one case for each action.
LEMMA TypeStep == TypeInv /\ [Next]_vars => TypeInv'
<1> SUFFICES ASSUME TypeOK, BusyInv, [Next]_vars PROVE TypeOK' /\ BusyInv'
  BY DEF TypeInv
<1> USE OutboxAssumption
<1>1. CASE Tick
  BY <1>1 DEF Tick, TypeOK, BusyInv, rowVars, agentVars, historyVars
<1>2. ASSUME NEW c \in Command, Propose(c) PROVE TypeOK' /\ BusyInv'
  BY <1>2 DEF Propose, FirstActionStatus, TypeOK, BusyInv, CommandStatus, ActionStatus,
              agentVars, historyVars
<1>3. ASSUME NEW c \in Command, Approve(c) PROVE TypeOK' /\ BusyInv'
  BY <1>3 DEF Approve, TypeOK, BusyInv, CommandStatus, ActionStatus, agentVars, historyVars
<1>4. ASSUME NEW c \in Command, Cancel(c) PROVE TypeOK' /\ BusyInv'
  BY <1>4 DEF Cancel, TypeOK, BusyInv, CommandStatus, ActionStatus, Evidence, agentVars
<1>5. ASSUME NEW c \in Command, Retry(c) PROVE TypeOK' /\ BusyInv'
  BY <1>5 DEF Retry, TypeOK, BusyInv, CommandStatus, ActionStatus, agentVars, historyVars
<1>6. CASE SyncRead
  BY <1>6 DEF SyncRead, TypeOK, BusyInv, rowVars, agentVars, historyVars
<1>7. CASE SyncCommit
  BY <1>7 DEF SyncCommit, FirstActionStatus, TypeOK, BusyInv, CommandStatus, ActionStatus,
              Evidence, agentVars, historyVars
<1>8. CASE ReconcileUnobserved \/ ReconcileRejected
  BY <1>8 DEF ReconcileUnobserved, ReconcileRejected, TypeOK, BusyInv, rowVars, agentVars,
              historyVars
<1>9. CASE ReconcileCommit
  BY <1>9 DEF ReconcileCommit, TypeOK, BusyInv, CommandStatus, ActionStatus, Evidence,
              agentVars, historyVars
<1>10. CASE JobRollback
  BY <1>10 DEF JobRollback, TypeOK, BusyInv, rowVars, agentVars, historyVars
<1>11. ASSUME NEW r \in reports, ReportRead(r) PROVE TypeOK' /\ BusyInv'
  BY <1>11 DEF ReportRead, TypeOK, BusyInv, Report, rowVars, agentVars, historyVars
<1>12. ASSUME NEW r \in reports, ReportReject(r) \/ ReportLost(r) PROVE TypeOK' /\ BusyInv'
  BY <1>12 DEF ReportReject, ReportLost, Answer, TypeOK, BusyInv, Report, rowVars, historyVars
<1>13. ASSUME NEW r \in reports, ReportCommit(r) PROVE TypeOK' /\ BusyInv'
  BY <1>13 DEF ReportCommit, Answer, TypeOK, BusyInv, Report, ReportTarget, FinalStatus,
               CommandStatus, ActionStatus, Evidence, historyVars
<1>14. ASSUME NEW a \in Agent, ReportTimeout(a) PROVE TypeOK' /\ BusyInv'
  BY <1>14 DEF ReportTimeout, TypeOK, BusyInv, rowVars, historyVars
<1>15. ASSUME NEW a \in Agent, NEW c \in Command, Lease(a, c) PROVE TypeOK' /\ BusyInv'
  <2>1. SendAndWait(a, c, attempts[c] + 1, "preflight", "absent") /\ attempts[c] + 1 \in Nat
    BY <1>15 DEF Lease, TypeOK
  <2>2. /\ reports' \subseteq Report
        /\ pc' \in [Agent -> AgentPc]
        /\ reply' \in [Agent -> {"none", "ok", "error"}]
        /\ \A b \in Agent : b # a => pc'[b] = pc[b]
    BY <2>1, SendTyped DEF ReportTarget, Evidence
  <2>3. cmd' = [cmd EXCEPT ![a] = c] /\ att' = [att EXCEPT ![a] = attempts[c] + 1]
    BY <1>15 DEF Lease
  <2>4. BusyInv'
    BY <2>2, <2>3 DEF TypeOK, BusyInv
  <2>5. /\ status' \in [Command -> CommandStatus]
        /\ owner' \in [Command -> AgentIds \cup {NoId}]
        /\ leaseUntil' \in [Command -> Nat]
        /\ attempts' \in [Command -> Nat]
        /\ UNCHANGED <<now, evidence, action, job, historyVars>>
    BY <1>15 DEF Lease, GrantLease, TypeOK, CommandStatus
  <2> QED
    BY <2>1, <2>2, <2>3, <2>4, <2>5 DEF TypeOK, historyVars
<1>16. ASSUME NEW a \in Agent, NEW c \in Command, LeaseAnswerLost(a, c) PROVE TypeOK' /\ BusyInv'
  BY <1>16 DEF LeaseAnswerLost, GrantLease, TypeOK, BusyInv, CommandStatus, agentVars, historyVars
<1>17. ASSUME NEW a \in Agent,
              StartExecution(a) \/ WritePreflight(a) \/ CrossWriteBoundary(a)
       PROVE  TypeOK' /\ BusyInv'
  BY <1>17 DEF StartExecution, WritePreflight, CrossWriteBoundary, TypeOK, BusyInv, AgentPc,
               Waiting, rowVars, historyVars
<1>18. ASSUME NEW a \in Agent, Click(a) PROVE TypeOK' /\ BusyInv'
  BY <1>18 DEF Click, TypeOK, BusyInv, AgentPc, rowVars
<1>19. ASSUME NEW a \in Agent, NEW target \in ReportTarget, NEW wrote \in Evidence,
              pc[a] # "idle",
              SendAndWait(a, cmd[a], att[a], target, wrote),
              UNCHANGED <<now, rowVars, cmd, att, job, historyVars>>
       PROVE  TypeOK' /\ BusyInv'
  <2>1. cmd[a] \in Command /\ att[a] \in Nat
    BY <1>19 DEF TypeOK, BusyInv
  <2>2. /\ reports' \subseteq Report
        /\ pc' \in [Agent -> AgentPc]
        /\ reply' \in [Agent -> {"none", "ok", "error"}]
        /\ \A b \in Agent : b # a => pc'[b] = pc[b]
    BY <1>19, <2>1, SendTyped
  <2> QED
    BY <1>19, <2>1, <2>2 DEF TypeOK, BusyInv, rowVars, historyVars
<1>20. ASSUME NEW a \in Agent, FinishWithoutWrite(a) PROVE TypeOK' /\ BusyInv'
  <2>1. PICK claimed \in {"blocked", "verified"} :
          SendAndWait(a, cmd[a], att[a], EffectiveStatus(cmd[a], claimed, FALSE), "no")
    BY <1>20 DEF FinishWithoutWrite
  <2>2. EffectiveStatus(cmd[a], claimed, FALSE) \in ReportTarget
    BY EffectiveTyped DEF FinalStatus
  <2> QED
    BY <1>19, <1>20, <2>1, <2>2 DEF FinishWithoutWrite, Evidence
<1>21. ASSUME NEW a \in Agent, FinishAfterWrite(a) PROVE TypeOK' /\ BusyInv'
  <2>1. PICK claimed \in {"unverified", "verified"} :
          SendAndWait(a, cmd[a], att[a], EffectiveStatus(cmd[a], claimed, TRUE), "yes")
    BY <1>21 DEF FinishAfterWrite
  <2>2. EffectiveStatus(cmd[a], claimed, TRUE) \in ReportTarget
    BY EffectiveTyped DEF FinalStatus
  <2> QED
    BY <1>19, <1>21, <2>1, <2>2 DEF FinishAfterWrite, Evidence
<1>22. ASSUME NEW a \in Agent,
              \/ AnnounceExecuting(a) \/ AnnouncementFailed(a)
              \/ SubmissionThrows(a) \/ AnnounceVerifying(a)
       PROVE  TypeOK' /\ BusyInv'
  BY <1>19, <1>22 DEF AnnounceExecuting, AnnouncementFailed, SubmissionThrows, AnnounceVerifying,
                      ReportTarget, FinalStatus, Evidence
<1>23. ASSUME NEW a \in Agent, BackToLoop(a) \/ Crash(a) PROVE TypeOK' /\ BusyInv'
  BY <1>23 DEF BackToLoop, Crash, TypeOK, BusyInv, AgentPc, rowVars, historyVars
<1>24. ASSUME NEW a \in Agent, NEW c \in Command, ReconcileScript(a, c) PROVE TypeOK' /\ BusyInv'
  BY <1>24 DEF ReconcileScript, TypeOK, BusyInv, Report, ReportTarget, FinalStatus, Evidence,
               rowVars, agentVars, historyVars
<1>25. CASE UNCHANGED vars
  BY <1>25 DEF vars, TypeOK, BusyInv, rowVars, agentVars, historyVars
<1> QED
  BY <1>1, <1>2, <1>3, <1>4, <1>5, <1>6, <1>7, <1>8, <1>9, <1>10, <1>11, <1>12, <1>13, <1>14,
     <1>15, <1>16, <1>17, <1>18, <1>20, <1>21, <1>22, <1>23, <1>24, <1>25
  DEF Next, OwnerStep, SchedulerStep, ServerStep, AgentStep, AgentFault

\* TypeInv is an invariant.
LEMMA TypeInvariant == Spec => []TypeInv
  BY TypeInit, TypeStep, PTL DEF Spec

\* Every variable keeps its type, whatever the processes and their agent_ids.
THEOREM TypeCorrect == Spec => []TypeOK
  BY TypeInvariant, PTL DEF TypeInv
-----------------------------------------------------------------------------
(***************************************************************************)
(* The two rows agree.                                                     *)
(***************************************************************************)

\* No row exists at first.
LEMMA MirrorInit == Init => ActionMirrorsCommand
  BY DEF Init, ActionMirrorsCommand

\* Every handler that writes one of the two rows writes the other to match.
LEMMA MirrorStep == TypeInv /\ ActionMirrorsCommand /\ [Next]_vars => ActionMirrorsCommand'
<1> SUFFICES ASSUME TypeOK, BusyInv, ActionMirrorsCommand, [Next]_vars
             PROVE  ActionMirrorsCommand'
  BY DEF TypeInv
<1>1. CASE UNCHANGED <<status, action>>
  BY <1>1 DEF ActionMirrorsCommand
<1>2. ASSUME NEW c \in Command, Propose(c) PROVE ActionMirrorsCommand'
  BY <1>2 DEF Propose, FirstActionStatus, TypeOK, ActionMirrorsCommand, CommandStatus
<1>3. ASSUME NEW c \in Command, Approve(c) \/ Retry(c) PROVE ActionMirrorsCommand'
  BY <1>3 DEF Approve, Retry, TypeOK, ActionMirrorsCommand
<1>4. ASSUME NEW c \in Command, Cancel(c) PROVE ActionMirrorsCommand'
  BY <1>4 DEF Cancel, TypeOK, ActionMirrorsCommand
<1>5. CASE SyncCommit
  BY <1>5 DEF SyncCommit, FirstActionStatus, TypeOK, ActionMirrorsCommand, CommandStatus
<1>6. CASE ReconcileCommit
  BY <1>6 DEF ReconcileCommit, TypeOK, ActionMirrorsCommand
<1>7. ASSUME NEW r \in reports, ReportCommit(r) PROVE ActionMirrorsCommand'
  BY <1>7 DEF ReportCommit, TypeOK, Report, ReportTarget, FinalStatus, ActionMirrorsCommand
<1>8. ASSUME NEW a \in Agent, NEW c \in Command, GrantLease(a, c) PROVE ActionMirrorsCommand'
  BY <1>8 DEF GrantLease, Leasable, TypeOK, ActionMirrorsCommand
<1> QED
  BY <1>1, <1>2, <1>3, <1>4, <1>5, <1>6, <1>7, <1>8
  DEF Next, vars, rowVars, OwnerStep, SchedulerStep, ServerStep, AgentStep, AgentFault,
      Tick, SyncRead, ReconcileUnobserved, ReconcileRejected, JobRollback,
      ReportRead, ReportReject, ReportLost, ReportTimeout, Lease, LeaseAnswerLost,
      StartExecution, FinishWithoutWrite, WritePreflight, AnnounceExecuting,
      AnnouncementFailed, CrossWriteBoundary, Click, SubmissionThrows, AnnounceVerifying,
      FinishAfterWrite, BackToLoop, Crash, ReconcileScript

\* Types and the agreement of the rows hold together.
LEMMA MirrorInvariant == Spec => [](TypeInv /\ ActionMirrorsCommand)
<1>1. TypeInv /\ ActionMirrorsCommand /\ [Next]_vars => ActionMirrorsCommand'
  BY MirrorStep
<1> QED
  BY <1>1, MirrorInit, TypeInvariant, PTL DEF Spec

\* execution_commands and action_items agree after every handler, even though
\* agent_result and the scheduler write them without a lock.
THEOREM RowsAgree == Spec => []ActionMirrorsCommand
  BY MirrorInvariant, PTL

-----------------------------------------------------------------------------
(***************************************************************************)
(* One browser process: the final control is pressed at most once.         *)
(***************************************************************************)

\* At most one process uses the agent API: the launchd loop, while no
\* qualification script runs next to it.
SoleAgent == \A a, b \in Agent : a = b

\* The row is in no state from which it could be leased, cancelled or
\* retried.
Out(c) ==
  /\ status[c] \notin {"none", "ready", "leased"}
  /\ ~ ProvenUnwritten(c)

\* The report that would open the row for a retry.
RetryReport(r) == r.target = "blocked" /\ r.wrote = "no"

\* The process knows that its "preflight" report was committed.
Engaged(a) ==
  \/ pc[a] \in WriteSide
  \/ pc[a] = "await_preflight" /\ reply[a] = "ok"

BeforeClick ==
  {"await_preflight", "preparing", "cleared", "await_executing", "submitting"}

PastGate == {"cleared", "await_executing", "submitting", "submitted", "await_verifying"}

\* A busy process holds the latest lease of its command.
LatestLease == \A a \in Agent : pc[a] # "idle" => att[a] = attempts[cmd[a]]

\* Once clicked, a command stays out of reach: no report that would open it
\* for a retry is on its way.
ClickedStaysOut ==
  \A c \in Command : clicks[c] > 0 =>
    /\ clicks[c] = 1
    /\ Out(c)
    /\ \A r \in reports : r.cmd = c => ~ RetryReport(r)

\* A cancelled command has no owner, so no report about it passes validation
\* any more and no process gets past the write preflight with it.
WithdrawnStaysOut ==
  \A c \in withdrawn :
    /\ clicks[c] = 0
    /\ owner[c] = NoId
    /\ (status[c] = "none" /\ action[c] = "cancelled") \/ Out(c)
    /\ \A r \in reports : r.cmd = c /\ r.phase = "read" => ~ RetryReport(r)
    /\ \A a \in Agent : cmd[a] = c => pc[a] \notin PastGate

EngagedIsOut == \A a \in Agent : Engaged(a) => Out(cmd[a]) /\ status[cmd[a]] # "cancelled"

\* A process that has not finished has sent no report that allows a retry,
\* nor has one of its predecessors left one behind.
NoRetryReportYet ==
  \A a \in Agent : pc[a] \in WriteSide \cup {"await_preflight"} =>
    /\ \A r \in reports : r.cmd = cmd[a] => ~ RetryReport(r)
    /\ pc[a] \in BeforeClick => clicks[cmd[a]] = 0

\* A report that allows a retry finds a row that cannot be leased meanwhile,
\* and it is the only one for its command.
RetryReportsAreSingle ==
  /\ \A r \in reports : RetryReport(r) => Out(r.cmd)
  /\ \A r, q \in reports : RetryReport(r) /\ RetryReport(q) /\ r.cmd = q.cmd => r = q

NoRowNoOwner == \A c \in Command : status[c] = "none" => owner[c] = NoId

SafeInv ==
  /\ LatestLease
  /\ ClickedStaysOut
  /\ WithdrawnStaysOut
  /\ EngagedIsOut
  /\ NoRetryReportYet
  /\ RetryReportsAreSingle
  /\ NoRowNoOwner

\* SafeInv holds before anything is proposed.
LEMMA SafeInit == Init => SafeInv
  BY DEF Init, SafeInv, LatestLease, ClickedStaysOut, WithdrawnStaysOut, EngagedIsOut, Engaged,
         WriteSide, NoRetryReportYet, RetryReportsAreSingle, NoRowNoOwner

\* A step on the rows alone keeps SafeInv when a row that is out stays out and
\* only rows that are not out become withdrawn.
LEMMA RowsOnlyStep ==
  ASSUME TypeOK, BusyInv, SafeInv,
         UNCHANGED <<attempts, agentVars, reports, clicks>>,
         \A c \in Command : Out(c) => Out(c)' /\ owner'[c] \in {owner[c], NoId},
         \A c \in Command : status'[c] = "none" => status[c] = "none" /\ owner'[c] = owner[c],
         \A c \in Command : status'[c] = "cancelled" => status[c] = "cancelled" \/ ~ Out(c),
         \A c \in withdrawn :
           /\ owner'[c] \in {owner[c], NoId}
           /\ UNCHANGED <<status[c], action[c]>> \/ Out(c)',
         \A c \in withdrawn' \ withdrawn :
           /\ c \in Command
           /\ ~ Out(c)
           /\ owner'[c] = NoId
           /\ (status'[c] = "none" /\ action'[c] = "cancelled") \/ Out(c)',
         withdrawn \subseteq withdrawn'
  PROVE  SafeInv'
<1>1. LatestLease'
  BY DEF SafeInv, LatestLease, agentVars
<1>2. ClickedStaysOut'
  BY DEF SafeInv, ClickedStaysOut, RetryReport
<1>3. ASSUME NEW c \in withdrawn' \ withdrawn
      PROVE  /\ clicks'[c] = 0
             /\ \A r \in reports' : r.cmd = c => ~ RetryReport(r)
             /\ \A a \in Agent : cmd'[a] = c => pc'[a] \notin PastGate
  BY <1>3 DEF SafeInv, ClickedStaysOut, EngagedIsOut, RetryReportsAreSingle, Engaged, WriteSide,
              PastGate, TypeOK, agentVars
<1>4. ASSUME NEW c \in withdrawn
      PROVE  /\ c \in Command
             /\ clicks'[c] = 0
             /\ owner'[c] = NoId
             /\ (status'[c] = "none" /\ action'[c] = "cancelled") \/ Out(c)'
             /\ \A r \in reports' : r.cmd = c /\ r.phase = "read" => ~ RetryReport(r)
             /\ \A a \in Agent : cmd'[a] = c => pc'[a] \notin PastGate
  <2>1. /\ c \in Command
        /\ owner[c] = NoId
        /\ (status[c] = "none" /\ action[c] = "cancelled") \/ Out(c)
    BY <1>4 DEF SafeInv, WithdrawnStaysOut, TypeOK
  <2>2. /\ owner'[c] = NoId
        /\ (status'[c] = "none" /\ action'[c] = "cancelled") \/ Out(c)'
    BY <2>1, <1>4
  <2> QED
    BY <2>1, <2>2, <1>4 DEF SafeInv, WithdrawnStaysOut, agentVars
<1>5. WithdrawnStaysOut'
  <2> SUFFICES ASSUME NEW c \in withdrawn'
               PROVE  /\ clicks'[c] = 0
                      /\ owner'[c] = NoId
                      /\ (status'[c] = "none" /\ action'[c] = "cancelled") \/ Out(c)'
                      /\ \A r \in reports' : r.cmd = c /\ r.phase = "read" => ~ RetryReport(r)
                      /\ \A a \in Agent : cmd'[a] = c => pc'[a] \notin PastGate
    BY DEF WithdrawnStaysOut, RetryReport
  <2>1. CASE c \in withdrawn
    BY <2>1, <1>4
  <2>2. CASE c \notin withdrawn
    BY <2>2, <1>3
  <2> QED
    BY <2>1, <2>2
<1>6. EngagedIsOut'
  <2> SUFFICES ASSUME NEW a \in Agent, Engaged(a)
               PROVE  Out(cmd[a])' /\ status'[cmd[a]] # "cancelled"
    BY DEF EngagedIsOut, Engaged, agentVars
  <2>1. cmd[a] \in Command
    BY DEF Engaged, BusyInv, WriteSide
  <2>2. Out(cmd[a]) /\ status[cmd[a]] # "cancelled"
    BY DEF SafeInv, EngagedIsOut
  <2>3. UNCHANGED cmd[a]
    BY DEF agentVars
  <2> QED
    BY <2>1, <2>2, <2>3 DEF Out, ProvenUnwritten
<1>7. NoRetryReportYet'
  BY DEF SafeInv, NoRetryReportYet, RetryReport, agentVars
<1>8. RetryReportsAreSingle'
  BY DEF SafeInv, RetryReportsAreSingle, RetryReport, TypeOK, Report
<1>9. NoRowNoOwner'
  BY DEF SafeInv, NoRowNoOwner
<1> QED
  BY <1>1, <1>2, <1>5, <1>6, <1>7, <1>8, <1>9 DEF SafeInv

\* Sending a report that allows no retry.
LEMMA SendOtherStep ==
  ASSUME SoleAgent, TypeOK, BusyInv, SafeInv,
         NEW a \in Agent, pc[a] # "idle",
         NEW target \in ReportTarget \ {"preflight"}, NEW wrote \in Evidence,
         target # "blocked" \/ wrote # "no",
         target = "executing" => pc[a] \in PastGate \cap BeforeClick,
         target = "verifying" => pc[a] \in PastGate,
         SendAndWait(a, cmd[a], att[a], target, wrote),
         UNCHANGED <<now, rowVars, cmd, att, job, historyVars>>
  PROVE  SafeInv'
<1> DEFINE sent == [cmd |-> cmd[a], att |-> att[a], by |-> a, target |-> target,
                    wrote |-> wrote, phase |-> "sent"]
<1>1. /\ reports' = reports \cup {sent}
      /\ ~ RetryReport(sent)
      /\ sent.cmd = cmd[a] /\ sent.phase = "sent"
  BY DEF SendAndWait, RetryReport
<1> HIDE DEF sent
<1>2. /\ cmd[a] \in Command
      /\ \A b \in Agent : b = a
      /\ pc' = [pc EXCEPT ![a] = AwaitedIn(target)]
      /\ AwaitedIn(target) \in {"await_executing", "await_verifying", "await_final"}
      /\ AwaitedIn(target) = "await_executing" => target = "executing"
      /\ AwaitedIn(target) = "await_verifying" => target = "verifying"
  BY DEF SoleAgent, BusyInv, SendAndWait, AwaitedIn, ReportTarget, FinalStatus
<1>3. LatestLease'
  BY <1>2 DEF SafeInv, LatestLease, rowVars
<1>4. ClickedStaysOut'
  BY <1>1 DEF SafeInv, ClickedStaysOut, RetryReport, Out, ProvenUnwritten, rowVars, historyVars
<1>5. WithdrawnStaysOut'
  BY <1>1, <1>2 DEF SafeInv, WithdrawnStaysOut, RetryReport, Out, ProvenUnwritten, PastGate,
                    TypeOK, rowVars, historyVars
<1>6. EngagedIsOut'
  BY <1>2 DEF SafeInv, EngagedIsOut, Engaged, WriteSide, PastGate, Out, ProvenUnwritten,
              TypeOK, rowVars
<1>7. NoRetryReportYet'
  BY <1>1, <1>2 DEF SafeInv, NoRetryReportYet, RetryReport, WriteSide, PastGate, BeforeClick,
                    TypeOK, historyVars
<1>8. RetryReportsAreSingle'
  BY <1>1 DEF SafeInv, RetryReportsAreSingle, RetryReport, Out, ProvenUnwritten, rowVars
<1>9. NoRowNoOwner'
  BY DEF SafeInv, NoRowNoOwner, rowVars
<1> QED
  BY <1>3, <1>4, <1>5, <1>6, <1>7, <1>8, <1>9 DEF SafeInv

\* Reporting "blocked" without a write attempt, from before the click.
LEMMA SendRetryableStep ==
  ASSUME SoleAgent, TypeOK, BusyInv, SafeInv,
         NEW a \in Agent, pc[a] \in WriteSide \cap BeforeClick,
         SendAndWait(a, cmd[a], att[a], "blocked", "no"),
         UNCHANGED <<now, rowVars, cmd, att, job, historyVars>>
  PROVE  SafeInv'
<1> DEFINE sent == [cmd |-> cmd[a], att |-> att[a], by |-> a, target |-> "blocked",
                    wrote |-> "no", phase |-> "sent"]
<1>1. /\ reports' = reports \cup {sent}
      /\ sent.cmd = cmd[a] /\ sent.phase = "sent"
  BY DEF SendAndWait
<1> HIDE DEF sent
<1>2. /\ cmd[a] \in Command
      /\ \A b \in Agent : b = a
      /\ pc' = [pc EXCEPT ![a] = "await_final"]
  BY DEF SoleAgent, BusyInv, SendAndWait, AwaitedIn, WriteSide
<1>3. /\ Out(cmd[a])
      /\ clicks[cmd[a]] = 0
      /\ \A r \in reports : r.cmd = cmd[a] => ~ RetryReport(r)
  BY DEF SafeInv, EngagedIsOut, Engaged, NoRetryReportYet
<1>4. LatestLease'
  BY <1>2 DEF SafeInv, LatestLease, WriteSide, rowVars
<1>5. ClickedStaysOut'
  BY <1>1, <1>3 DEF SafeInv, ClickedStaysOut, RetryReport, Out, ProvenUnwritten, rowVars,
                    historyVars
<1>6. WithdrawnStaysOut'
  BY <1>1, <1>2 DEF SafeInv, WithdrawnStaysOut, RetryReport, Out, ProvenUnwritten, PastGate,
                    TypeOK, rowVars, historyVars
<1>7. EngagedIsOut'
  BY <1>2 DEF EngagedIsOut, Engaged, WriteSide, TypeOK
<1>8. NoRetryReportYet'
  BY <1>2 DEF NoRetryReportYet, WriteSide, TypeOK
<1>9. RetryReportsAreSingle'
  BY <1>1, <1>3 DEF SafeInv, RetryReportsAreSingle, RetryReport, Out, ProvenUnwritten, rowVars
<1>10. NoRowNoOwner'
  BY DEF SafeInv, NoRowNoOwner, rowVars
<1> QED
  BY <1>4, <1>5, <1>6, <1>7, <1>8, <1>9, <1>10 DEF SafeInv
\* Every step of a sole process, the server, the owner and the scheduler keeps
\* SafeInv.
LEMMA SafeStep ==
  ASSUME SoleAgent, TypeInv, ActionMirrorsCommand, SafeInv, [Next]_vars
  PROVE  SafeInv'
<1> USE OutboxAssumption DEF TypeInv
<1>1. CASE UNCHANGED <<status, owner, attempts, evidence, action, agentVars, reports, historyVars>>
  <2>1. \A c \in Command : UNCHANGED Out(c)
    BY <1>1 DEF Out, ProvenUnwritten
  <2> QED
    BY <1>1, <2>1, RowsOnlyStep DEF historyVars
<1>2. ASSUME NEW c \in Command, Propose(c) \/ Approve(c) PROVE SafeInv'
  <2>1. status[c] = "none" /\ c \notin withdrawn
    BY <1>2 DEF Propose, Approve, ActionMirrorsCommand, SafeInv, WithdrawnStaysOut, Out, TypeOK,
                CommandStatus
  <2>2. /\ \A d \in Command \ {c} : UNCHANGED <<status[d], action[d]>>
        /\ status'[c] \in {"none", "ready"}
        /\ UNCHANGED <<owner, attempts, evidence, agentVars, reports, historyVars>>
    BY <1>2, <2>1 DEF Propose, Approve, TypeOK
  <2>3. \A d \in Command \ {c} : UNCHANGED Out(d)
    BY <2>2 DEF Out, ProvenUnwritten
  <2> QED
    BY <2>1, <2>2, <2>3, RowsOnlyStep DEF Out, TypeOK, historyVars
<1>3. ASSUME NEW c \in Command, Cancel(c) PROVE SafeInv'
  <2>1. ~ Out(c)
    BY <1>3 DEF Cancel, _command_can_be_cancelled, Out
  <2>2. /\ \A d \in Command \ {c} : UNCHANGED <<status[d], owner[d], evidence[d], action[d]>>
        /\ \/ status[c] = "none" /\ status'[c] = "none" /\ UNCHANGED owner[c]
           \/ status'[c] = "cancelled" /\ owner'[c] = NoId
        /\ action'[c] = "cancelled"
        /\ withdrawn' = withdrawn \cup {c}
        /\ UNCHANGED <<attempts, agentVars, reports, clicks>>
    BY <1>3 DEF Cancel, TypeOK
  <2>3. /\ \A d \in Command \ {c} : UNCHANGED Out(d)
        /\ status'[c] = "cancelled" => Out(c)'
    BY <2>2 DEF Out, ProvenUnwritten
  <2>4. owner'[c] = NoId
    BY <2>2 DEF SafeInv, NoRowNoOwner
  <2>5. \A d \in withdrawn : UNCHANGED <<status[d], action[d]>> \/ Out(d)'
    BY <2>1, <2>2, <2>3 DEF SafeInv, WithdrawnStaysOut, TypeOK
  <2> QED
    BY <2>1, <2>2, <2>3, <2>4, <2>5, RowsOnlyStep DEF TypeOK
<1>4. ASSUME NEW c \in Command, Retry(c) PROVE SafeInv'
  <2>1. status[c] = "blocked" /\ ~ Out(c) /\ c \notin withdrawn
    BY <1>4 DEF Retry, ProvenUnwritten, Out, SafeInv, WithdrawnStaysOut
  <2>2. /\ \A d \in Command \ {c} : UNCHANGED <<status[d], owner[d], action[d]>>
        /\ status'[c] = "ready" /\ owner'[c] = NoId
        /\ UNCHANGED <<attempts, evidence, agentVars, reports, historyVars>>
    BY <1>4 DEF Retry, TypeOK
  <2>3. \A d \in Command \ {c} : UNCHANGED Out(d)
    BY <2>2 DEF Out, ProvenUnwritten
  <2> QED
    BY <2>1, <2>2, <2>3, RowsOnlyStep DEF Out, TypeOK, historyVars
<1>5. CASE SyncCommit
  <2>1. \A c \in Command :
          \/ UNCHANGED <<status[c], action[c], evidence[c]>>
          \/ status'[c] = "blocked" /\ evidence'[c] = "absent"
          \/ /\ action[c] = "none"
             /\ status'[c] \in {status[c], "ready"}
             /\ UNCHANGED evidence[c]
    BY <1>5 DEF SyncCommit, TypeOK
  <2>2. UNCHANGED <<owner, attempts, agentVars, reports, historyVars>>
    BY <1>5 DEF SyncCommit
  <2>3. \A c \in Command : action[c] = "none" => status[c] = "none" /\ c \notin withdrawn
    BY DEF ActionMirrorsCommand, SafeInv, WithdrawnStaysOut, Out, TypeOK, CommandStatus
  <2>4. \A c \in Command : Out(c) => Out(c)'
    BY <2>1, <2>3 DEF Out, ProvenUnwritten
  <2>5. \A c \in withdrawn : UNCHANGED <<status[c], action[c]>> \/ Out(c)'
    BY <2>1, <2>3 DEF Out, ProvenUnwritten, TypeOK
  <2> QED
    BY <2>1, <2>2, <2>3, <2>4, <2>5, RowsOnlyStep DEF TypeOK, historyVars
<1>6. CASE ReconcileCommit
  <2>1. /\ \A c \in Command :
             \/ UNCHANGED <<status[c], action[c], evidence[c]>>
             \/ status'[c] = "failed"
        /\ UNCHANGED <<owner, attempts, agentVars, reports, historyVars>>
    BY <1>6 DEF ReconcileCommit, TypeOK
  <2>2. \A c \in Command : (Out(c) => Out(c)') /\ (UNCHANGED <<status[c], action[c]>> \/ Out(c)')
    BY <2>1 DEF Out, ProvenUnwritten
  <2> QED
    BY <2>1, <2>2, RowsOnlyStep DEF TypeOK, historyVars
<1>7. ASSUME NEW r \in reports, ReportRead(r) PROVE SafeInv'
  <2> DEFINE readr == [r EXCEPT !.phase = "read"]
  <2>1. /\ r \in Report /\ readr \in Report
        /\ readr.cmd = r.cmd
        /\ RetryReport(readr) <=> RetryReport(r)
        /\ reports' = (reports \ {r}) \cup {readr}
        /\ owner[r.cmd] # NoId
        /\ UNCHANGED <<rowVars, agentVars, historyVars>>
    BY <1>7 DEF ReportRead, ReportIsValid, TypeOK, Report, RetryReport
  <2> HIDE DEF readr
  <2>2. ClickedStaysOut'
    BY <2>1 DEF SafeInv, ClickedStaysOut, RetryReport, Out, ProvenUnwritten, rowVars, historyVars
  <2>3. WithdrawnStaysOut'
    BY <2>1 DEF SafeInv, WithdrawnStaysOut, RetryReport, Out, ProvenUnwritten, rowVars,
                agentVars, historyVars
  <2>4. NoRetryReportYet'
    BY <2>1 DEF SafeInv, NoRetryReportYet, RetryReport, agentVars, historyVars
  <2>5. RetryReportsAreSingle'
    BY <2>1 DEF SafeInv, RetryReportsAreSingle, RetryReport, Out, ProvenUnwritten, rowVars
  <2>6. LatestLease' /\ EngagedIsOut' /\ NoRowNoOwner'
    BY <2>1 DEF SafeInv, LatestLease, EngagedIsOut, Engaged, Out, ProvenUnwritten, NoRowNoOwner,
                rowVars, agentVars
  <2> QED
    BY <2>2, <2>3, <2>4, <2>5, <2>6 DEF SafeInv
<1>8. ASSUME NEW r \in reports, ReportCommit(r) PROVE SafeInv'
  <2>1. /\ r \in Report /\ r.cmd \in Command /\ r.by \in Agent /\ r.target \in ReportTarget
        /\ reports' = reports \ {r}
        /\ \A c \in Command \ {r.cmd} : UNCHANGED <<status[c], evidence[c], action[c]>>
        /\ status'[r.cmd] = r.target /\ evidence'[r.cmd] = r.wrote
        /\ UNCHANGED <<owner, attempts, pc, cmd, att, historyVars>>
    BY <1>8 DEF ReportCommit, TypeOK, Report
  <2>2. /\ \A c \in Command \ {r.cmd} : UNCHANGED Out(c)
        /\ Out(r.cmd)' \/ RetryReport(r)
    BY <2>1 DEF Out, ProvenUnwritten, RetryReport, ReportTarget, FinalStatus
  <2>3. LatestLease' /\ NoRowNoOwner'
    BY <2>1 DEF SafeInv, LatestLease, NoRowNoOwner, ReportTarget, FinalStatus
  <2>4. ClickedStaysOut'
    BY <2>1, <2>2 DEF SafeInv, ClickedStaysOut, RetryReport, historyVars
  <2>5. WithdrawnStaysOut'
    <3>1. \A c \in withdrawn : Out(c)' \/ (c # r.cmd /\ UNCHANGED <<status[c], action[c], Out(c)>>)
      BY <1>8, <2>1, <2>2 DEF SafeInv, WithdrawnStaysOut, ReportCommit, TypeOK
    <3> QED
      BY <2>1, <3>1 DEF SafeInv, WithdrawnStaysOut, RetryReport, historyVars
  <2>6. EngagedIsOut'
    <3> SUFFICES ASSUME NEW a \in Agent, Engaged(a)'
                 PROVE  Out(cmd[a])' /\ status'[cmd[a]] # "cancelled"
      BY <2>1 DEF EngagedIsOut
    <3>1. cmd[a] \in Command
      BY <2>1 DEF Engaged, BusyInv, WriteSide
    <3>2. cmd[a] = r.cmd => ~ RetryReport(r)
      BY <2>1 DEF SafeInv, NoRetryReportYet, Engaged, WriteSide
    <3>3. Engaged(a) \/ cmd[a] = r.cmd
      BY <1>8, <2>1 DEF Engaged, ReportCommit, Answer, IsAwaited, TypeOK
    <3>4. CASE cmd[a] = r.cmd
      BY <2>1, <2>2, <3>1, <3>2, <3>4 DEF ReportTarget, FinalStatus
    <3>5. CASE cmd[a] # r.cmd
      BY <2>1, <2>2, <3>1, <3>3, <3>5 DEF SafeInv, EngagedIsOut
    <3> QED
      BY <3>4, <3>5
  <2>7. NoRetryReportYet'
    BY <2>1 DEF SafeInv, NoRetryReportYet, RetryReport, historyVars
  <2>8. RetryReportsAreSingle'
    BY <2>1, <2>2 DEF SafeInv, RetryReportsAreSingle, RetryReport, TypeOK, Report
  <2> QED
    BY <2>3, <2>4, <2>5, <2>6, <2>7, <2>8 DEF SafeInv
<1>9. ASSUME NEW r \in reports, ReportReject(r) \/ ReportLost(r) PROVE SafeInv'
  <2>1. /\ reports' \subseteq reports
        /\ \A a \in Agent : reply'[a] = "ok" => reply[a] = "ok"
        /\ UNCHANGED <<rowVars, pc, cmd, att, historyVars>>
    BY <1>9 DEF ReportReject, ReportLost, Answer, TypeOK
  <2> QED
    BY <2>1 DEF SafeInv, LatestLease, ClickedStaysOut, WithdrawnStaysOut, EngagedIsOut, Engaged,
                NoRetryReportYet, RetryReportsAreSingle, NoRowNoOwner, Out, ProvenUnwritten,
                RetryReport, rowVars, historyVars
<1>10. ASSUME NEW a \in Agent, ReportTimeout(a) \/ BackToLoop(a) \/ Crash(a) PROVE SafeInv'
  <2>1. /\ \A b \in Agent : reply'[b] = "ok" => reply[b] = "ok"
        /\ \A b \in Agent : pc'[b] = "idle" \/ UNCHANGED <<pc[b], cmd[b], att[b]>>
        /\ UNCHANGED <<rowVars, reports, historyVars>>
    BY <1>10 DEF ReportTimeout, BackToLoop, Crash, TypeOK
  <2> QED
    BY <2>1 DEF SafeInv, LatestLease, ClickedStaysOut, WithdrawnStaysOut, EngagedIsOut, Engaged,
                NoRetryReportYet, RetryReportsAreSingle, NoRowNoOwner, Out, ProvenUnwritten,
                RetryReport, PastGate, WriteSide, rowVars, historyVars
<1>11. ASSUME NEW a \in Agent, NEW c \in Command, GrantLease(a, c), pc[a] = "idle",
              UNCHANGED withdrawn
       PROVE  /\ ~ Out(c) /\ status[c] \in {"ready", "leased"}
              /\ \A d \in Command \ {c} : UNCHANGED <<status[d], owner[d], attempts[d], evidence[d]>>
              /\ \A d \in Command \ {c} : UNCHANGED Out(d)
              /\ status'[c] = "leased" /\ attempts'[c] = attempts[c] + 1
              /\ \A b \in Agent : b = a
              /\ c \notin withdrawn
              /\ clicks[c] = 0
              /\ \A r \in reports : r.cmd = c => ~ RetryReport(r)
              /\ UNCHANGED <<action, historyVars>>
  <2>1. ~ Out(c) /\ status[c] \in {"ready", "leased"}
    BY <1>11 DEF GrantLease, Leasable, Out
  <2>2. /\ \A d \in Command \ {c} : UNCHANGED <<status[d], owner[d], attempts[d], evidence[d]>>
        /\ status'[c] = "leased" /\ attempts'[c] = attempts[c] + 1
        /\ UNCHANGED <<action, historyVars>>
    BY <1>11 DEF GrantLease, TypeOK
  <2>3. \A d \in Command \ {c} : UNCHANGED Out(d)
    BY <2>2 DEF Out, ProvenUnwritten
  <2>4. c \notin withdrawn /\ clicks[c] = 0
    BY <2>1 DEF SafeInv, WithdrawnStaysOut, ClickedStaysOut, TypeOK
  <2> QED
    BY <1>11, <2>1, <2>2, <2>3, <2>4 DEF SoleAgent, SafeInv, RetryReportsAreSingle
<1>12. ASSUME NEW a \in Agent, NEW c \in Command, Lease(a, c) PROVE SafeInv'
  <2> DEFINE sent == [cmd |-> c, att |-> attempts[c] + 1, by |-> a, target |-> "preflight",
                      wrote |-> "absent", phase |-> "sent"]
  <2>1. /\ reports' = reports \cup {sent}
        /\ ~ RetryReport(sent) /\ sent.cmd = c /\ sent.phase = "sent"
        /\ cmd' = [cmd EXCEPT ![a] = c] /\ att' = [att EXCEPT ![a] = attempts[c] + 1]
        /\ pc' = [pc EXCEPT ![a] = "await_preflight"] /\ reply' = [reply EXCEPT ![a] = "none"]
        /\ GrantLease(a, c) /\ pc[a] = "idle" /\ UNCHANGED withdrawn
    BY <1>12 DEF Lease, GrantLease, SendAndWait, AwaitedIn, RetryReport, historyVars
  <2> HIDE DEF sent
  <2>2. /\ ~ Out(c) /\ status[c] \in {"ready", "leased"}
        /\ \A d \in Command \ {c} : UNCHANGED <<status[d], owner[d], attempts[d], evidence[d]>>
        /\ \A d \in Command \ {c} : UNCHANGED Out(d)
        /\ status'[c] = "leased" /\ attempts'[c] = attempts[c] + 1
        /\ \A b \in Agent : b = a
        /\ c \notin withdrawn
        /\ clicks[c] = 0
        /\ \A r \in reports : r.cmd = c => ~ RetryReport(r)
        /\ UNCHANGED <<action, historyVars>>
    BY <1>11, <2>1
  <2>3. LatestLease' /\ NoRowNoOwner'
    BY <2>1, <2>2 DEF SafeInv, LatestLease, NoRowNoOwner, TypeOK
  <2>4. ClickedStaysOut'
    BY <2>1, <2>2 DEF SafeInv, ClickedStaysOut, RetryReport, historyVars
  <2>5. WithdrawnStaysOut'
    BY <2>1, <2>2 DEF SafeInv, WithdrawnStaysOut, RetryReport, PastGate, TypeOK, historyVars
  <2>6. EngagedIsOut'
    BY <2>1, <2>2 DEF EngagedIsOut, Engaged, WriteSide, TypeOK
  <2>7. NoRetryReportYet'
    BY <2>1, <2>2 DEF NoRetryReportYet, RetryReport, TypeOK, historyVars
  <2>8. RetryReportsAreSingle'
    BY <2>1, <2>2 DEF SafeInv, RetryReportsAreSingle, RetryReport, TypeOK, Report
  <2> QED
    BY <2>3, <2>4, <2>5, <2>6, <2>7, <2>8 DEF SafeInv
<1>13. ASSUME NEW a \in Agent, NEW c \in Command, LeaseAnswerLost(a, c) PROVE SafeInv'
  <2>1. GrantLease(a, c) /\ pc[a] = "idle" /\ UNCHANGED <<agentVars, reports, withdrawn>>
    BY <1>13 DEF LeaseAnswerLost, GrantLease, historyVars
  <2>2. /\ \A d \in Command \ {c} : UNCHANGED <<status[d], owner[d], attempts[d], evidence[d]>>
        /\ \A d \in Command \ {c} : UNCHANGED Out(d)
        /\ status'[c] = "leased"
        /\ \A b \in Agent : b = a
        /\ c \notin withdrawn
        /\ clicks[c] = 0
        /\ \A r \in reports : r.cmd = c => ~ RetryReport(r)
        /\ UNCHANGED <<action, historyVars>>
    BY <1>11, <2>1
  <2>3. LatestLease' /\ NoRowNoOwner' /\ EngagedIsOut' /\ NoRetryReportYet'
    BY <2>1, <2>2 DEF SafeInv, LatestLease, NoRowNoOwner, EngagedIsOut, NoRetryReportYet, Engaged,
                      WriteSide, agentVars
  <2>4. ClickedStaysOut'
    BY <2>1, <2>2 DEF SafeInv, ClickedStaysOut, RetryReport, historyVars
  <2>5. WithdrawnStaysOut'
    BY <2>1, <2>2 DEF SafeInv, WithdrawnStaysOut, RetryReport, TypeOK, agentVars, historyVars
  <2>6. RetryReportsAreSingle'
    BY <2>1, <2>2 DEF SafeInv, RetryReportsAreSingle, RetryReport, TypeOK, Report
  <2> QED
    BY <2>3, <2>4, <2>5, <2>6 DEF SafeInv
<1>14. ASSUME NEW a \in Agent, StartExecution(a) \/ WritePreflight(a) \/ CrossWriteBoundary(a)
       PROVE  SafeInv'
  <2>1. /\ UNCHANGED <<rowVars, cmd, att, reply, reports, historyVars>>
        /\ \/ pc[a] = "await_preflight" /\ reply[a] = "ok" /\ pc' = [pc EXCEPT ![a] = "preparing"]
           \/ /\ pc[a] = "preparing" /\ pc' = [pc EXCEPT ![a] = "cleared"]
              /\ owner[cmd[a]] # NoId
           \/ pc[a] = "await_executing" /\ pc' = [pc EXCEPT ![a] = "submitting"]
    BY <1>14 DEF StartExecution, WritePreflight, CrossWriteBoundary
  <2>2. LatestLease' /\ ClickedStaysOut' /\ RetryReportsAreSingle' /\ NoRowNoOwner'
    BY <2>1 DEF SafeInv, LatestLease, ClickedStaysOut, RetryReportsAreSingle, NoRowNoOwner, Out,
                ProvenUnwritten, RetryReport, TypeOK, rowVars, historyVars
  <2>3. WithdrawnStaysOut'
    BY <2>1 DEF SafeInv, WithdrawnStaysOut, RetryReport, Out, ProvenUnwritten, PastGate, TypeOK,
                rowVars, historyVars
  <2>4. EngagedIsOut'
    BY <2>1 DEF SafeInv, EngagedIsOut, Engaged, WriteSide, Out, ProvenUnwritten, TypeOK, rowVars
  <2>5. NoRetryReportYet'
    BY <2>1 DEF SafeInv, NoRetryReportYet, RetryReport, WriteSide, BeforeClick, TypeOK, historyVars
  <2> QED
    BY <2>2, <2>3, <2>4, <2>5 DEF SafeInv
<1>15. ASSUME NEW a \in Agent, Click(a) PROVE SafeInv'
  <2>1. /\ pc[a] = "submitting" /\ pc' = [pc EXCEPT ![a] = "submitted"]
        /\ cmd[a] \in Command
        /\ \A c \in Command \ {cmd[a]} : UNCHANGED clicks[c]
        /\ clicks'[cmd[a]] = clicks[cmd[a]] + 1
        /\ UNCHANGED <<rowVars, cmd, att, reply, reports, withdrawn>>
        /\ \A b \in Agent : b = a
    BY <1>15 DEF Click, TypeOK, BusyInv, SoleAgent
  <2>2. /\ Out(cmd[a])
        /\ clicks[cmd[a]] = 0
        /\ cmd[a] \notin withdrawn
        /\ \A r \in reports : r.cmd = cmd[a] => ~ RetryReport(r)
    BY <2>1 DEF SafeInv, EngagedIsOut, Engaged, WriteSide, NoRetryReportYet, BeforeClick,
                WithdrawnStaysOut, PastGate
  <2>3. \A c \in Command : UNCHANGED Out(c)
    BY <2>1 DEF Out, ProvenUnwritten, rowVars
  <2>4. ClickedStaysOut'
    BY <2>1, <2>2, <2>3 DEF SafeInv, ClickedStaysOut, RetryReport
  <2>5. WithdrawnStaysOut'
    BY <2>1, <2>2, <2>3 DEF SafeInv, WithdrawnStaysOut, RetryReport, PastGate, TypeOK, rowVars
  <2>6. LatestLease' /\ EngagedIsOut' /\ NoRowNoOwner'
    BY <2>1, <2>2, <2>3 DEF SafeInv, LatestLease, EngagedIsOut, Engaged, WriteSide, NoRowNoOwner,
                            TypeOK, rowVars
  <2>7. NoRetryReportYet'
    BY <2>1, <2>2 DEF NoRetryReportYet, RetryReport, BeforeClick, TypeOK
  <2>8. RetryReportsAreSingle'
    BY <2>1, <2>3 DEF SafeInv, RetryReportsAreSingle, RetryReport, TypeOK, Report
  <2> QED
    BY <2>4, <2>5, <2>6, <2>7, <2>8 DEF SafeInv
<1>16. ASSUME NEW a \in Agent, FinishWithoutWrite(a) PROVE SafeInv'
  <2>1. PICK claimed \in {"blocked", "verified"} :
          SendAndWait(a, cmd[a], att[a], EffectiveStatus(cmd[a], claimed, FALSE), "no")
    BY <1>16 DEF FinishWithoutWrite
  <2>2. EffectiveStatus(cmd[a], claimed, FALSE) \in {"blocked", "verified", "unverified"}
    BY DEF EffectiveStatus
  <2>3. CASE EffectiveStatus(cmd[a], claimed, FALSE) = "blocked"
    BY <1>16, <2>1, <2>3, SendRetryableStep DEF FinishWithoutWrite, WriteSide, BeforeClick
  <2>4. CASE EffectiveStatus(cmd[a], claimed, FALSE) \in {"verified", "unverified"}
    BY <1>16, <2>1, <2>4, SendOtherStep DEF FinishWithoutWrite, ReportTarget, FinalStatus, Evidence
  <2> QED
    BY <2>2, <2>3, <2>4
<1>17. ASSUME NEW a \in Agent, AnnouncementFailed(a) PROVE SafeInv'
  BY <1>17, SendRetryableStep DEF AnnouncementFailed, WriteSide, BeforeClick
<1>18. ASSUME NEW a \in Agent,
              AnnounceExecuting(a) \/ SubmissionThrows(a) \/ AnnounceVerifying(a)
       PROVE  SafeInv'
  BY <1>18, SendOtherStep DEF AnnounceExecuting, SubmissionThrows, AnnounceVerifying, PastGate,
                              BeforeClick, ReportTarget, FinalStatus, Evidence
<1>19. ASSUME NEW a \in Agent, FinishAfterWrite(a) PROVE SafeInv'
  <2>1. PICK claimed \in {"unverified", "verified"} :
          SendAndWait(a, cmd[a], att[a], EffectiveStatus(cmd[a], claimed, TRUE), "yes")
    BY <1>19 DEF FinishAfterWrite
  <2>2. EffectiveStatus(cmd[a], claimed, TRUE) \in {"verified", "unverified"}
    BY DEF EffectiveStatus
  <2> QED
    BY <1>19, <2>1, <2>2, SendOtherStep DEF FinishAfterWrite, ReportTarget, FinalStatus, Evidence
<1>20. ASSUME NEW a \in Agent, NEW c \in Command, ReconcileScript(a, c) PROVE SafeInv'
  <2> DEFINE sent == [cmd |-> c, att |-> 0, by |-> a, target |-> "verified",
                      wrote |-> "yes", phase |-> "sent"]
  <2>1. /\ reports' = reports \cup {sent}
        /\ ~ RetryReport(sent) /\ sent.phase = "sent"
        /\ UNCHANGED <<rowVars, agentVars, historyVars>>
    BY <1>20 DEF ReconcileScript, RetryReport
  <2> HIDE DEF sent
  <2> QED
    BY <2>1 DEF SafeInv, LatestLease, ClickedStaysOut, WithdrawnStaysOut, EngagedIsOut, Engaged,
                NoRetryReportYet, RetryReportsAreSingle, NoRowNoOwner, Out, ProvenUnwritten,
                RetryReport, rowVars, agentVars, historyVars
<1> QED
  BY <1>1, <1>2, <1>3, <1>4, <1>5, <1>6, <1>7, <1>8, <1>9, <1>10, <1>12, <1>13, <1>14, <1>15,
     <1>16, <1>17, <1>18, <1>19, <1>20
  DEF Next, vars, rowVars, historyVars, OwnerStep, SchedulerStep, ServerStep, AgentStep, AgentFault,
      Tick, SyncRead, ReconcileUnobserved, ReconcileRejected, JobRollback

\* With one browser process SafeInv is an invariant.
LEMMA SafeInvariant ==
  ASSUME SoleAgent
  PROVE  Spec => [](TypeInv /\ ActionMirrorsCommand /\ SafeInv)
<1>1. TypeInv /\ ActionMirrorsCommand /\ SafeInv /\ [Next]_vars => SafeInv'
  BY SafeStep
<1> QED
  BY <1>1, SafeInit, MirrorInvariant, PTL DEF Spec

\* With one browser process the final control of a command is pressed at most
\* once, through any number of lapsed leases, lost reports, restarts and
\* retries.
THEOREM ClickedOnce == ASSUME SoleAgent PROVE Spec => []AtMostOneClick
<1>1. TypeInv /\ SafeInv => AtMostOneClick
  BY DEF TypeInv, TypeOK, SafeInv, ClickedStaysOut, AtMostOneClick
<1> QED
  BY <1>1, SafeInvariant, PTL

\* With one browser process, the evidence that lets an operator retry a
\* blocked command is true: the command was never clicked.
THEOREM RetryEvidenceIsTrue == ASSUME SoleAgent PROVE Spec => []BlockedProofIsTrue
<1>1. TypeInv /\ SafeInv => BlockedProofIsTrue
  BY DEF TypeInv, TypeOK, SafeInv, ClickedStaysOut, Out, BlockedProofIsTrue
<1> QED
  BY <1>1, SafeInvariant, PTL

\* With one browser process, nobody can lease, cancel or retry the command
\* that the process has in hand.
THEOREM HolderStaysCurrent == ASSUME SoleAgent PROVE Spec => []HolderIsCurrent
<1>1. TypeInv /\ SafeInv => HolderIsCurrent
  BY DEF TypeInv, SafeInv, LatestLease, EngagedIsOut, Engaged, WriteSide, Out, HolderIsCurrent
<1> QED
  BY <1>1, SafeInvariant, PTL

\* With one browser process the outbox implements WriteOnce: a click is the
\* first one of its command and neither precedes nor follows an accepted
\* cancellation.
THEOREM OutboxImplementsWriteOnce == ASSUME SoleAgent PROVE Spec => ImplementsWriteOnce
<1>1. Init => WO!Init
  BY DEF Init, WO!Init
<1>2. TypeInv /\ ActionMirrorsCommand /\ SafeInv /\ [Next]_vars => [WO!Next]_(WO!vars)
  <2> SUFFICES ASSUME TypeOK, BusyInv, SafeInv, ActionMirrorsCommand, [Next]_vars
               PROVE  [WO!Next]_(WO!vars)
    BY DEF TypeInv
  <2>1. ASSUME NEW c \in Command, Cancel(c) PROVE WO!Withdraw(c)
    <3>1. ~ Out(c)
      BY <2>1 DEF Cancel, _command_can_be_cancelled, Out
    <3>2. clicks[c] = 0
      BY <3>1 DEF SafeInv, ClickedStaysOut, TypeOK
    <3> QED
      BY <2>1, <3>2 DEF Cancel, WO!Withdraw
  <2>2. ASSUME NEW a \in Agent, Click(a) PROVE cmd[a] \in Command /\ WO!Submit(cmd[a])
    <3>1. cmd[a] \in Command
      BY <2>2 DEF Click, BusyInv
    <3>2. clicks[cmd[a]] = 0 /\ cmd[a] \notin withdrawn
      BY <2>2 DEF Click, SafeInv, NoRetryReportYet, WriteSide, BeforeClick, WithdrawnStaysOut,
                  PastGate
    <3> QED
      BY <2>2, <3>1, <3>2 DEF Click, WO!Submit, TypeOK
  <2>3. CASE UNCHANGED historyVars
    BY <2>3 DEF historyVars, WO!vars
  <2> QED
    BY <2>1, <2>2, <2>3
    DEF Next, vars, WO!Next, OwnerStep, SchedulerStep, ServerStep, AgentStep, AgentFault,
        Tick, Propose, Approve, Retry, SyncRead, SyncCommit, ReconcileUnobserved,
        ReconcileRejected, ReconcileCommit, JobRollback, ReportRead, ReportReject, ReportCommit,
        ReportLost, ReportTimeout, Lease, LeaseAnswerLost, GrantLease, StartExecution,
        FinishWithoutWrite, WritePreflight, AnnounceExecuting, AnnouncementFailed,
        CrossWriteBoundary, SubmissionThrows, AnnounceVerifying, FinishAfterWrite, BackToLoop,
        Crash, ReconcileScript
<1> QED
  BY <1>1, <1>2, SafeInvariant, PTL DEF Spec, WO!Spec, ImplementsWriteOnce
=============================================================================
