--------------------- MODULE AcquisitionLifecycleProofs ---------------------
(***************************************************************************)
(* What AcquisitionLifecycle guarantees for every set of commands, every   *)
(* list of decisions, every window, grace and clock bound, and with every  *)
(* fault: type correctness, that a reported outcome has been announced,    *)
(* that an announced completion is one of Sleeper's, and that a write in   *)
(* flight while the expert queues was opened after the pass had read the   *)
(* rows; without faults and profile changes, by a retry.                   *)
(***************************************************************************)
EXTENDS AcquisitionLifecycle, TLAPS

-----------------------------------------------------------------------------
(* Type correctness. *)

\* The operators of a pass have values of the type TypeOK asks for.
LEMMA OutcomeTyped ==
  ASSUME TypeOK, NEW c \in Command
  PROVE  OutcomeOf(c) \in Outcome
  BY DEF OutcomeOf, TypeOK, Outcome, TerminalOutcome, UNRESOLVED_OUTCOMES

LEMMA AnnounceTyped ==
  ASSUME TypeOK
  PROVE  Announce \subseteq Command \X {"completed", "failed"}
  BY DEF Announce, TypeOK

LEMMA AtRestTyped ==
  AtRest \in [step : LoopStep, outcome : [Command -> Outcome],
              rejected : SUBSET Command, pending : SUBSET Command]
  BY DEF AtRest, LoopStep, Unknown, Outcome, CommandStatus

\* Rows marked as opened are marked with a way of opening.
LEMMA OpenTyped ==
  ASSUME TypeOK, NEW commands \in SUBSET Command, NEW how \in Opening, Open(commands, how)
  PROVE  opened' \in [pass : [Command -> Opening], report : [Command -> Opening]]
<1> DEFINE marked(since) == [c \in Command |-> IF c \in commands THEN how ELSE since[c]]
<1>1. marked(opened.pass) \in [Command -> Opening] /\ marked(opened.report) \in [Command -> Opening]
  BY DEF TypeOK
<1>2. opened.pass \in [Command -> Opening]
  BY DEF TypeOK
<1> QED
  BY <1>1, <1>2 DEF Open

LEMMA NotOpenedTyped == NotOpened \in [Command -> Opening]
  BY DEF NotOpened, Opening

\* A published plan is a plan, whatever it says.
LEMMA PublishTyped ==
  ASSUME TypeOK, NEW ready \in BOOLEAN, NEW pending \in SUBSET Command,
         Publish(ready, pending)
  PROVE  TypeOK'
  BY AtRestTyped DEF Publish, TypeOK, rowVars, browserVars

LEMMA TypeInit == Init => TypeOK
<1> SUFFICES ASSUME Init PROVE TypeOK
  OBVIOUS
<1>1. Unknown \in [Command -> CommandStatus] /\ Unknown \in [Command -> Outcome]
  BY DEF Unknown, CommandStatus, Outcome
<1>2. /\ sleeper \in [Command -> {"none", "queued", "complete", "failed", "withdrawn"}]
      /\ history \in [Command -> {"none", "complete", "failed"}]
  BY DEF Init, Unknown
<1>3. plan \in [ready : BOOLEAN, pending : SUBSET Command, lifecycle : [Command -> Outcome]]
  BY <1>1 DEF Init
<1> QED
  BY <1>1, <1>2, <1>3, AtRestTyped, NotOpenedTyped DEF Init, TypeOK

\* Every step keeps TypeOK, one case for each action.
LEMMA TypeStep == TypeOK /\ [Next]_vars => TypeOK'
<1> SUFFICES ASSUME TypeOK, [Next]_vars PROVE TypeOK'
  OBVIOUS
<1>1. CASE Tick
  BY <1>1 DEF Tick, TypeOK, rowVars, browserVars, fileVars
<1>2. ASSUME NEW c \in Command, ProcessClaim(c) \/ WithdrawByHand(c) PROVE TypeOK'
  BY <1>2 DEF ProcessClaim, WithdrawByHand, TypeOK, rowVars, fileVars
<1>3. ASSUME NEW c \in Command, CancelQueued(c) PROVE TypeOK'
  BY <1>3 DEF CancelQueued, TypeOK, CommandStatus, browserVars, fileVars
<1>3r. ASSUME NEW c \in Command, Retry(c) PROVE TypeOK'
  <2>1. opened' \in [pass : [Command -> Opening], report : [Command -> Opening]]
    BY <1>3r, OpenTyped DEF Retry, Opening
  <2> QED
    BY <1>3r, <2>1 DEF Retry, TypeOK, CommandStatus, browserVars, fileVars
<1>4. CASE CaptureMyWaivers
  BY <1>4 DEF CaptureMyWaivers, TypeOK, rowVars, fileVars
<1>5. ASSUME NEW c \in Command, LeaseCommand(c) PROVE TypeOK'
  BY <1>5, LifecycleAssumption DEF LeaseCommand, TypeOK, CommandStatus, fileVars
<1>6. ASSUME NEW c \in Command, RetireClaim(c) PROVE TypeOK'
  BY <1>6 DEF RetireClaim, TypeOK, rowVars, fileVars
<1>7. CASE StartPreflight
  BY <1>7 DEF StartPreflight, Report, TypeOK, CommandStatus, browserVars, fileVars
<1>8. CASE RefuseWrite
  BY <1>8 DEF RefuseWrite, Report, TypeOK, CommandStatus, fileVars
<1>9. CASE ClearWrite
  BY <1>9 DEF ClearWrite, Report, TypeOK, CommandStatus, browserVars, fileVars
<1>10. CASE Submit
  BY <1>10 DEF Submit, Report, Pressed, TypeOK, CommandStatus, fileVars
<1>11. CASE SubmitThrows
  BY <1>11 DEF SubmitThrows, Report, Pressed, TypeOK, CommandStatus, fileVars
<1>12. CASE VerifyWrite
  BY <1>12 DEF VerifyWrite, Report, TypeOK, CommandStatus, fileVars
<1>13. CASE DropCommand \/ BrowserRestart
  BY <1>13 DEF DropCommand, BrowserRestart, TypeOK, rowVars, fileVars
<1>14. CASE SyncContext
  BY <1>14 DEF SyncContext, TypeOK, rowVars, browserVars
<1>15. CASE PassRead
  BY <1>15, OutcomeTyped, NotOpenedTyped DEF PassRead, TypeOK, LoopStep, rowVars, browserVars, fileVars
<1>16. CASE PassCommit
  <2>1. notices' \subseteq Command \X {"completed", "failed"}
    BY <1>16, AnnounceTyped DEF PassCommit, TypeOK
  <2>2. incident' \in BOOLEAN
    BY <1>16 DEF PassCommit, Unresolved
  <2>3. status' \in [Command -> CommandStatus]
    BY <1>16 DEF PassCommit, TypeOK, CommandStatus
  <2> QED
    BY <1>16, <2>1, <2>2, <2>3 DEF PassCommit, TypeOK, LoopStep, browserVars, fileVars
<1>17. CASE PassWrite
  <2>1. refresh' \in BOOLEAN
    BY <1>17 DEF PassWrite, TypeOK
  <2> QED
    BY <1>17, <2>1, NotOpenedTyped DEF PassWrite, TypeOK, LoopStep, rowVars, browserVars
<1>18. CASE PassRaises \/ TightenProfile
  BY <1>18, NotOpenedTyped DEF PassRaises, TightenProfile, TypeOK, LoopStep, rowVars, browserVars, fileVars
<1>19. CASE PlanRaises \/ SchedulerRestart
  BY <1>19, AtRestTyped, NotOpenedTyped
  DEF PlanRaises, SchedulerRestart, TypeOK, rowVars, browserVars, fileVars
<1>20. CASE PlanBlocked
  <2>1. PICK pending \in PendingClaims : Publish(FALSE, pending)
    BY <1>20 DEF PlanBlocked
  <2>2. pending \in SUBSET Command
    BY <2>1 DEF PendingClaims, TypeOK
  <2> QED
    BY <2>1, <2>2, PublishTyped
<1>21. CASE PlanStart
  <2>1. PICK pending \in PendingClaims : job' = [job EXCEPT !.step = "deciding", !.pending = pending]
    BY <1>21 DEF PlanStart
  <2>2. pending \in SUBSET Command
    BY <2>1 DEF PendingClaims, TypeOK
  <2>3. job' \in [step : LoopStep, outcome : [Command -> Outcome],
                 rejected : SUBSET Command, pending : SUBSET Command]
    BY <2>1, <2>2 DEF TypeOK, LoopStep
  <2> QED
    BY <1>21, <2>3 DEF PlanStart, TypeOK, rowVars, browserVars, fileVars
<1>22. CASE PlanUnavailable \/ PlanWrite
  <2>1. job.pending \in SUBSET Command
    BY DEF TypeOK
  <2> QED
    BY <1>22, <2>1, PublishTyped DEF PlanUnavailable, PlanWrite
<1>23. ASSUME NEW decision \in Decisions, PlanQueue(decision) PROVE TypeOK'
  <2>1. opened' \in [pass : [Command -> Opening], report : [Command -> Opening]]
    <3> DEFINE queue == Queue(decision)
               new == IF \A c \in Range(queue) : now < ExpiresAt[c]
                      THEN {c \in Queueable(queue) : status[c] = "none"} ELSE {}
               rows == {c \in Command : c \in new}
    <3>1. Open(new, "created")
      BY <1>23 DEF PlanQueue
    <3>2. Open(rows, "created")
      BY <3>1 DEF Open
    <3> HIDE DEF rows
    <3>3. rows \in SUBSET Command
      BY DEF rows
    <3> QED
      BY <3>2, <3>3, OpenTyped DEF Opening
  <2> QED
    BY <1>23, <2>1 DEF PlanQueue, TypeOK, CommandStatus, LoopStep, browserVars, fileVars
<1>24. ASSUME NEW decision \in Decisions, PlanQueueNothing(decision) PROVE TypeOK'
  BY <1>24 DEF PlanQueueNothing, TypeOK, LoopStep, rowVars, browserVars, fileVars
<1>25. CASE UNCHANGED vars
  BY <1>25 DEF vars, TypeOK, rowVars, browserVars, fileVars
<1> QED
  BY <1>1, <1>2, <1>3, <1>3r, <1>4, <1>5, <1>6, <1>7, <1>8, <1>9, <1>10, <1>11, <1>12, <1>13,
     <1>14, <1>15, <1>16, <1>17, <1>18, <1>19, <1>20, <1>21, <1>22, <1>23, <1>24, <1>25
  DEF Next, BrowserStep, SchedulerStep, ExpertRun, SchedulerFault

\* Every reachable state has the declared types (all actions).
THEOREM LifecycleTypeCorrect == Spec => []TypeOK
  BY TypeInit, TypeStep, PTL DEF Spec

-----------------------------------------------------------------------------
(* An outcome on file has been announced. *)

\* Between the commit of a pass and its report, what the report will say is
\* announced already.
CommittedIsAnnounced ==
  job.step = "committed" =>
    \A c \in Command : job.outcome[c] \in {"completed", "failed"} => <<c, job.outcome[c]>> \in notices

AnnouncedInv == TypeOK /\ AnnouncedBeforeReported /\ CommittedIsAnnounced

LEMMA AnnouncedInit == Init => AnnouncedInv
  BY TypeInit
  DEF Init, AnnouncedInv, AnnouncedBeforeReported, CommittedIsAnnounced, AtRest, Unknown

\* Only PassCommit and PassWrite disturb the two facts: the one announces
\* what it commits, the other reports what was committed.
LEMMA AnnouncedStep == AnnouncedInv /\ [Next]_vars => AnnouncedInv'
<1> SUFFICES ASSUME AnnouncedInv, [Next]_vars PROVE AnnouncedInv'
  OBVIOUS
<1>1. TypeOK /\ TypeOK'
  BY TypeStep DEF AnnouncedInv
<1>2. CASE PassCommit
  <2>1. UNCHANGED report /\ notices' = notices \cup Announce /\ job'.outcome = job.outcome
    BY <1>1, <1>2 DEF PassCommit, fileVars, TypeOK
  <2>2. ASSUME NEW c \in Command, job.outcome[c] \in {"completed", "failed"}
        PROVE  <<c, job.outcome[c]>> \in notices'
    <3>1. CASE job.outcome[c] = report[c]
      BY <2>1, <2>2, <3>1 DEF AnnouncedInv, AnnouncedBeforeReported
    <3>2. CASE job.outcome[c] # report[c]
      BY <2>1, <2>2, <3>2 DEF Announce
    <3> QED
      BY <3>1, <3>2
  <2> QED
    BY <1>1, <2>1, <2>2 DEF AnnouncedInv, AnnouncedBeforeReported, CommittedIsAnnounced
<1>3. CASE PassWrite
  <2>1. job.step = "committed" /\ report' = job.outcome /\ UNCHANGED notices /\ job'.step = "reconciled"
    BY <1>1, <1>3 DEF PassWrite, TypeOK
  <2> QED
    BY <1>1, <2>1 DEF AnnouncedInv, AnnouncedBeforeReported, CommittedIsAnnounced
<1>4. ASSUME UNCHANGED <<report, notices>>, job' = job \/ job'.step # "committed"
      PROVE  AnnouncedInv'
  BY <1>1, <1>4 DEF AnnouncedInv, AnnouncedBeforeReported, CommittedIsAnnounced
<1>5. ASSUME UNCHANGED <<fileVars, notices, job>> PROVE AnnouncedInv'
  BY <1>4, <1>5 DEF fileVars
<1>6. CASE \/ Tick \/ CaptureMyWaivers \/ BrowserStep \/ UNCHANGED vars
           \/ \E c \in Command : ProcessClaim(c) \/ WithdrawByHand(c) \/ CancelQueued(c) \/ Retry(c)
  BY <1>5, <1>6
  DEF Tick, CaptureMyWaivers, BrowserStep, vars, ProcessClaim, WithdrawByHand, CancelQueued, Retry,
      LeaseCommand, RetireClaim, StartPreflight, RefuseWrite, ClearWrite, Submit, SubmitThrows,
      VerifyWrite, DropCommand, BrowserRestart, Report
<1>7. CASE SyncContext \/ PassRead \/ PassRaises \/ TightenProfile
  BY <1>1, <1>4, <1>7 DEF SyncContext, PassRead, PassRaises, TightenProfile, TypeOK, fileVars
<1>8. CASE PlanRaises \/ SchedulerRestart
  BY <1>4, <1>8 DEF PlanRaises, SchedulerRestart, AtRest, fileVars
<1>9. CASE PlanBlocked \/ PlanUnavailable \/ PlanWrite
  BY <1>4, <1>9 DEF PlanBlocked, PlanUnavailable, PlanWrite, Publish, AtRest
<1>10. CASE PlanStart
  BY <1>1, <1>4, <1>10 DEF PlanStart, TypeOK, fileVars
<1>11. ASSUME NEW decision \in Decisions, PlanQueue(decision) \/ PlanQueueNothing(decision)
       PROVE  AnnouncedInv'
  BY <1>1, <1>4, <1>11 DEF PlanQueue, PlanQueueNothing, TypeOK, fileVars
<1> QED
  BY <1>2, <1>3, <1>6, <1>7, <1>8, <1>9, <1>10, <1>11
  DEF Next, SchedulerStep, ExpertRun, SchedulerFault

\* Wherever a pass raises and the worker restarts, an outcome in
\* acquisition-lifecycle.json has a notice (reconcile_acquisition_lifecycle
\* commits before it writes the file).
THEOREM OutcomesAreAnnounced == Spec => []AnnouncedBeforeReported
<1>1. AnnouncedInv => AnnouncedBeforeReported
  BY DEF AnnouncedInv
<1> QED
  BY AnnouncedInit, AnnouncedStep, <1>1, PTL DEF Spec

-----------------------------------------------------------------------------
(* An announced completion is one of Sleeper's. *)

\* Sleeper knows nothing of a command that has not crossed the write
\* boundary, one that a retry may reopen included, so no later submission undoes a completed transaction.
UnpressedIsUnknown ==
  \A c \in Command :
    status[c] \in {"none", "ready", "leased", "preflight", "executing", "blocked"} => sleeper[c] = "none"

HistoryIsTrue == \A c \in Command : history[c] # "none" => sleeper[c] = history[c]
ReadIsTrue == \A c \in Command : job.outcome[c] = "completed" => sleeper[c] = "complete"

TruthInv == UnpressedIsUnknown /\ HistoryIsTrue /\ ReadIsTrue /\ CompletionIsTrue

LEMMA TruthInit == Init => TruthInv
  BY DEF Init, TruthInv, UnpressedIsUnknown, HistoryIsTrue, ReadIsTrue, CompletionIsTrue, AtRest, Unknown

\* A processed transaction stays what it is.
LEMMA ProcessedIsFinal ==
  ASSUME TypeOK, TruthInv, [Next]_vars, NEW c \in Command, sleeper[c] \in {"complete", "failed"}
  PROVE  sleeper'[c] = sleeper[c]
<1>1. ASSUME NEW d \in Command, ProcessClaim(d) \/ WithdrawByHand(d) \/ RetireClaim(d)
      PROVE  sleeper'[c] = sleeper[c]
  BY <1>1 DEF ProcessClaim, WithdrawByHand, RetireClaim, TypeOK
<1>2. CASE Submit \/ SubmitThrows
  <2>1. held \in Command /\ status[held] = "executing" /\ sleeper' \in {sleeper, Pressed}
    BY <1>2 DEF Submit, SubmitThrows, Report, TypeOK
  <2>2. held # c
    BY <2>1 DEF TruthInv, UnpressedIsUnknown
  <2> QED
    BY <2>1, <2>2 DEF Pressed, TypeOK
<1>3. ASSUME UNCHANGED sleeper PROVE sleeper'[c] = sleeper[c]
  BY <1>3
<1>4. CASE \/ Tick \/ CaptureMyWaivers \/ UNCHANGED vars
           \/ \E d \in Command : CancelQueued(d) \/ Retry(d) \/ LeaseCommand(d)
           \/ StartPreflight \/ RefuseWrite \/ ClearWrite \/ VerifyWrite
           \/ DropCommand \/ BrowserRestart
  BY <1>3, <1>4
  DEF Tick, CaptureMyWaivers, vars, CancelQueued, Retry, LeaseCommand, StartPreflight, RefuseWrite,
      ClearWrite, VerifyWrite, DropCommand, BrowserRestart, browserVars
<1>5. CASE SchedulerStep \/ TightenProfile \/ SchedulerFault
  BY <1>3, <1>5
  DEF SchedulerStep, SchedulerFault, ExpertRun, SyncContext, PassRead, PassCommit, PassWrite, TightenProfile,
      PlanBlocked, PlanStart, PlanUnavailable, PlanQueue, PlanQueueNothing,
      PlanWrite, PassRaises, PlanRaises, SchedulerRestart, Publish, browserVars
<1> QED
  BY <1>1, <1>2, <1>4, <1>5 DEF Next, BrowserStep

\* What a step of the browser or the owner does to the row of a command: a
\* final control is only pressed from "executing", and leaves it.
LEMMA UnpressedStep ==
  ASSUME TypeOK, UnpressedIsUnknown, [Next]_vars
  PROVE  UnpressedIsUnknown'
<1> DEFINE Unpressed == {"none", "ready", "leased", "preflight", "executing", "blocked"}
<1>1. ASSUME NEW c \in Command, status'[c] \in Unpressed => status[c] \in Unpressed,
             status'[c] \in Unpressed => sleeper'[c] = sleeper[c]
      PROVE  status'[c] \in Unpressed => sleeper'[c] = "none"
  BY <1>1 DEF UnpressedIsUnknown
<1>2. ASSUME \A c \in Command : status'[c] \in Unpressed => status[c] \in Unpressed,
             \A c \in Command : status'[c] \in Unpressed => sleeper'[c] = sleeper[c]
      PROVE  UnpressedIsUnknown'
  BY <1>1, <1>2 DEF UnpressedIsUnknown
<1>3. ASSUME UNCHANGED status, NEW d \in Command, sleeper[d] # "none",
             \E result : sleeper' = [sleeper EXCEPT ![d] = result]
      PROVE  UnpressedIsUnknown'
  BY <1>3 DEF UnpressedIsUnknown, TypeOK
<1>4. ASSUME NEW d \in Command, ProcessClaim(d) \/ WithdrawByHand(d) \/ RetireClaim(d)
      PROVE  UnpressedIsUnknown'
  BY <1>3, <1>4 DEF ProcessClaim, WithdrawByHand, RetireClaim, rowVars
<1>5. CASE Submit \/ SubmitThrows
  <2>1. /\ held \in Command
        /\ sleeper' \in {sleeper, Pressed}
        /\ \E to \in {"verifying", "unverified"} : status' = [status EXCEPT ![held] = to]
    BY <1>5 DEF Submit, SubmitThrows, Report, TypeOK
  <2> QED
    BY <1>2, <2>1 DEF Pressed, TypeOK
<1>6. ASSUME UNCHANGED sleeper,
             \A c \in Command : status'[c] \in Unpressed => status[c] \in Unpressed
      PROVE  UnpressedIsUnknown'
  BY <1>2, <1>6
<1>7. CASE StartPreflight \/ RefuseWrite \/ ClearWrite \/ VerifyWrite
  BY <1>6, <1>7
  DEF StartPreflight, RefuseWrite, ClearWrite, VerifyWrite, Report, TypeOK, browserVars
<1>8. ASSUME NEW d \in Command, CancelQueued(d) \/ Retry(d) \/ LeaseCommand(d)
      PROVE  UnpressedIsUnknown'
  BY <1>6, <1>8 DEF CancelQueued, Retry, LeaseCommand, TypeOK, browserVars
<1>9. CASE PassCommit
  BY <1>6, <1>9 DEF PassCommit, TypeOK, browserVars
<1>10. ASSUME NEW decision \in Decisions, PlanQueue(decision) PROVE UnpressedIsUnknown'
  <2>1. \A c \in Command : status'[c] = "ready" => status[c] \in {"none", "ready"}
    BY <1>10 DEF PlanQueue, TypeOK
  <2>2. \A c \in Command : \/ status'[c] \in {"ready", status[c]}
                            \/ status[c] \in {"ready", "leased"}
    BY <1>10 DEF PlanQueue, TypeOK
  <2> QED
    BY <1>6, <1>10, <2>1, <2>2 DEF PlanQueue, browserVars
<1>11. ASSUME UNCHANGED <<status, sleeper>> PROVE UnpressedIsUnknown'
  BY <1>6, <1>11
<1>12. CASE \/ Tick \/ CaptureMyWaivers \/ DropCommand \/ BrowserRestart \/ UNCHANGED vars
            \/ SyncContext \/ PassRead \/ PassWrite \/ TightenProfile \/ ExpertRun
            \/ PlanUnavailable \/ PlanWrite \/ SchedulerFault
            \/ \E decision \in Decisions : PlanQueueNothing(decision)
  BY <1>11, <1>12
  DEF Tick, CaptureMyWaivers, DropCommand, BrowserRestart, vars, SyncContext, PassRead,
      PassWrite, TightenProfile, ExpertRun, PlanBlocked, PlanStart, PlanUnavailable, PlanWrite,
      PlanQueueNothing, SchedulerFault, PassRaises, PlanRaises, SchedulerRestart, Publish,
      rowVars, browserVars
<1> QED
  BY <1>4, <1>5, <1>7, <1>8, <1>9, <1>10, <1>12 DEF Next, BrowserStep, SchedulerStep

\* A completion is first in the history, then in what a pass read, then in
\* its notices; each is copied from the one before.
LEMMA TruthStep == TypeOK /\ TruthInv /\ [Next]_vars => TruthInv'
<1> SUFFICES ASSUME TypeOK, TruthInv, [Next]_vars PROVE TruthInv'
  OBVIOUS
<1>1. UnpressedIsUnknown'
  BY UnpressedStep DEF TruthInv
<1>2. \A c \in Command : sleeper[c] \in {"complete", "failed"} => sleeper'[c] = sleeper[c]
  BY ProcessedIsFinal
<1>0. \A c \in Command : history[c] \in {"none", "complete", "failed"}
  BY DEF TypeOK
<1>3. ASSUME UNCHANGED <<history, notices>>, UNCHANGED job \/ job'.outcome \in {job.outcome, Unknown}
      PROVE  TruthInv'
  BY <1>0, <1>1, <1>2, <1>3
  DEF TruthInv, HistoryIsTrue, ReadIsTrue, CompletionIsTrue, Unknown
<1>4. CASE SyncContext
  <2>1. HistoryIsTrue'
    BY <1>4 DEF SyncContext, HistoryIsTrue, browserVars
  <2>2. job'.outcome = job.outcome /\ UNCHANGED notices
    BY <1>4 DEF SyncContext, TypeOK
  <2> QED
    BY <1>0, <1>1, <1>2, <2>1, <2>2 DEF TruthInv, ReadIsTrue, CompletionIsTrue
<1>5. CASE PassRead
  <2>1. job'.outcome = [c \in Command |-> OutcomeOf(c)] /\ UNCHANGED <<history, notices>>
    BY <1>5 DEF PassRead, fileVars
  <2>2. ASSUME NEW c \in Command, OutcomeOf(c) = "completed" PROVE history[c] = "complete"
    BY <2>2 DEF OutcomeOf, TypeOK, CommandStatus
  <2> QED
    BY <1>0, <1>1, <1>2, <2>1, <2>2 DEF TruthInv, HistoryIsTrue, ReadIsTrue, CompletionIsTrue
<1>6. CASE PassCommit
  <2>1. job'.outcome = job.outcome /\ UNCHANGED history /\ notices' = notices \cup Announce
    BY <1>6 DEF PassCommit, TypeOK, fileVars
  <2>2. ASSUME NEW c \in Command, <<c, "completed">> \in Announce PROVE job.outcome[c] = "completed"
    BY <2>2 DEF Announce
  <2> QED
    BY <1>0, <1>1, <1>2, <2>1, <2>2 DEF TruthInv, HistoryIsTrue, ReadIsTrue, CompletionIsTrue
<1>7. CASE \/ Tick \/ CaptureMyWaivers \/ BrowserStep \/ UNCHANGED vars
           \/ \E c \in Command : ProcessClaim(c) \/ WithdrawByHand(c) \/ CancelQueued(c) \/ Retry(c)
  BY <1>3, <1>7
  DEF Tick, CaptureMyWaivers, BrowserStep, vars, ProcessClaim, WithdrawByHand, CancelQueued, Retry,
      LeaseCommand, RetireClaim, StartPreflight, RefuseWrite, ClearWrite, Submit, SubmitThrows,
      VerifyWrite, DropCommand, BrowserRestart, Report, fileVars
<1>8. CASE PassWrite \/ PassRaises \/ PlanStart \/ TightenProfile
  BY <1>3, <1>8 DEF PassWrite, PassRaises, PlanStart, TightenProfile, TypeOK, fileVars
<1>9. CASE \/ PlanRaises \/ SchedulerRestart
           \/ PlanBlocked \/ PlanUnavailable \/ PlanWrite
  BY <1>3, <1>9
  DEF PlanRaises, SchedulerRestart, PlanBlocked, PlanUnavailable, PlanWrite,
      Publish, AtRest, fileVars
<1>10. ASSUME NEW decision \in Decisions, PlanQueue(decision) \/ PlanQueueNothing(decision)
       PROVE  TruthInv'
  BY <1>3, <1>10 DEF PlanQueue, PlanQueueNothing, TypeOK, fileVars
<1> QED
  BY <1>4, <1>5, <1>6, <1>7, <1>8, <1>9, <1>10 DEF Next, SchedulerStep, ExpertRun, SchedulerFault

\* "Acquisition completed" is only said of a transaction that Sleeper
\* completed, however old the files are that a pass reads and whoever
\* restarts (OutcomeOf, PassCommit).
THEOREM CompletionsAreTrue == Spec => []CompletionIsTrue
<1>1. TruthInv => CompletionIsTrue
  BY DEF TruthInv
<1> QED
  BY TypeInit, TypeStep, TruthInit, TruthStep, <1>1, PTL DEF Spec

-----------------------------------------------------------------------------
(* The report on file protects the writes of the rows its pass has read. *)

\* A write of the command can no longer be in flight, unless it is opened.
Settled(d) ==
  \/ status[d] \in {"none", "failed", "blocked", "cancelled"}
  \/ history[d] # "none"
  \/ d \in retired

\* What the report on file does not call unresolved is settled or was opened
\* after the read of its pass.
ReportProtects ==
  \A d \in Command : report[d] \notin UNRESOLVED_OUTCOMES /\ opened.report[d] = "no" => Settled(d)

\* The same of the outcomes of the pass under way, which may still have to
\* fail the row.
PassProtects ==
  PassUnderWay =>
    \A d \in Command : job.outcome[d] \notin UNRESOLVED_OUTCOMES /\ opened.pass[d] = "no" =>
      Settled(d) \/ (job.step = "read" /\ d \in job.rejected)

ProtectInv == ReportProtects /\ PassProtects

LEMMA ProtectInit == Init => ProtectInv
  BY DEF Init, ProtectInv, ReportProtects, PassProtects, PassUnderWay, AtRest, Settled, Unknown

\* A row in a final state keeps it, except that the planner creates rows and
\* a retry reopens them.
LEMMA FinalRowStays ==
  ASSUME TypeOK, [Next]_vars, NEW d \in Command,
         status[d] \in {"none", "failed", "blocked", "cancelled"},
         ~ Retry(d), ~ \E decision \in Decisions : PlanQueue(decision)
  PROVE  status'[d] \in {"none", "failed", "blocked", "cancelled"}
<1>1. ASSUME UNCHANGED status PROVE status'[d] \in {"none", "failed", "blocked", "cancelled"}
  BY <1>1
<1>2. ASSUME NEW c \in Command, CancelQueued(c) \/ LeaseCommand(c)
      PROVE  status'[d] \in {"none", "failed", "blocked", "cancelled"}
  BY <1>2 DEF CancelQueued, LeaseCommand, TypeOK
<1>6. ASSUME NEW c \in Command, Retry(c)
      PROVE  status'[d] \in {"none", "failed", "blocked", "cancelled"}
  <2>1. c # d
    BY <1>6
  <2> QED
    BY <1>6, <2>1 DEF Retry, TypeOK
<1>3. CASE StartPreflight \/ RefuseWrite \/ ClearWrite \/ Submit \/ SubmitThrows \/ VerifyWrite
  BY <1>3
  DEF StartPreflight, RefuseWrite, ClearWrite, Submit, SubmitThrows, VerifyWrite, Report, TypeOK
<1>4. CASE PassCommit
  BY <1>4 DEF PassCommit, TypeOK
<1>5. CASE \/ Tick \/ CaptureMyWaivers \/ DropCommand \/ BrowserRestart \/ UNCHANGED vars
           \/ SyncContext \/ PassRead \/ PassWrite \/ TightenProfile \/ ExpertRun
           \/ PlanUnavailable \/ PlanWrite \/ SchedulerFault
           \/ \E decision \in Decisions : PlanQueueNothing(decision)
           \/ \E c \in Command : ProcessClaim(c) \/ WithdrawByHand(c) \/ RetireClaim(c)
  BY <1>1, <1>5
  DEF Tick, CaptureMyWaivers, DropCommand, BrowserRestart, vars, SyncContext, PassRead,
      PassWrite, TightenProfile, ExpertRun, PlanBlocked, PlanStart, PlanUnavailable, PlanWrite,
      PlanQueueNothing, SchedulerFault, PassRaises, PlanRaises, SchedulerRestart, Publish,
      ProcessClaim, WithdrawByHand, RetireClaim, rowVars
<1> QED
  BY <1>2, <1>3, <1>4, <1>5, <1>6 DEF Next, BrowserStep, SchedulerStep

\* A public outcome stays public: later syncs find the transaction again.
LEMMA HistoryStays ==
  ASSUME TypeOK, TruthInv, [Next]_vars, NEW d \in Command, history[d] # "none"
  PROVE  history'[d] # "none"
<1>1. CASE SyncContext
  <2>1. sleeper[d] \in {"complete", "failed"}
    BY DEF TruthInv, HistoryIsTrue, TypeOK
  <2> QED
    BY <1>1, <2>1 DEF SyncContext
<1>2. CASE UNCHANGED history
  BY <1>2
<1>3. ~ SyncContext => UNCHANGED history
  BY DEF Next, vars, fileVars, BrowserStep, SchedulerStep, ExpertRun, SchedulerFault, Tick, ProcessClaim,
         WithdrawByHand, CancelQueued, Retry, CaptureMyWaivers, LeaseCommand, RetireClaim,
         StartPreflight, RefuseWrite, ClearWrite, Submit, SubmitThrows, VerifyWrite,
         DropCommand, BrowserRestart, Report, PassRead, PassCommit, PassWrite,
         TightenProfile, PlanBlocked, PlanStart, PlanUnavailable, PlanQueue, PlanQueueNothing,
         PlanWrite, PassRaises, PlanRaises, SchedulerRestart, Publish
<1> QED
  BY <1>1, <1>2, <1>3

LEMMA RetiredStays ==
  ASSUME TypeOK, [Next]_vars
  PROVE  retired \subseteq retired'
  BY DEF Next, vars, BrowserStep, SchedulerStep, ExpertRun, SchedulerFault, Tick, ProcessClaim,
         WithdrawByHand, CancelQueued, Retry, CaptureMyWaivers, LeaseCommand, RetireClaim,
         StartPreflight, RefuseWrite, ClearWrite, Submit, SubmitThrows, VerifyWrite,
         DropCommand, BrowserRestart, Report, SyncContext, PassRead, PassCommit, PassWrite,
         TightenProfile, PlanBlocked, PlanStart, PlanUnavailable, PlanQueue, PlanQueueNothing,
         PlanWrite, PassRaises, PlanRaises, SchedulerRestart, Publish

\* A settled command stays settled unless this step opens it.
LEMMA SettledStays ==
  ASSUME TypeOK, TruthInv, [Next]_vars, NEW d \in Command, Settled(d),
         ~ Retry(d), ~ \E decision \in Decisions : PlanQueue(decision)
  PROVE  Settled(d)'
  BY FinalRowStays, HistoryStays, RetiredStays DEF Settled

\* The planner opens the rows it creates and no others.
LEMMA PlannedStays ==
  ASSUME TypeOK, NEW d \in Command, NEW decision \in Decisions, PlanQueue(decision),
         Settled(d), opened'.report[d] = "no"
  PROVE  Settled(d)'
<1>1. UNCHANGED <<history, retired>>
  BY DEF PlanQueue, fileVars
<1>2. CASE status[d] \in {"none", "failed", "blocked", "cancelled"}
  <2>1. status'[d] \in {"ready", "blocked", status[d]}
    BY DEF PlanQueue, TypeOK
  <2>2. status'[d] # "ready"
    BY <1>2 DEF PlanQueue, Open, TypeOK
  <2> QED
    BY <1>2, <2>1, <2>2 DEF Settled
<1> QED
  BY <1>1, <1>2 DEF Settled

LEMMA ProtectStep ==
  ASSUME TypeOK, TruthInv, ProtectInv, [Next]_vars
  PROVE  ProtectInv'
<1>1. TypeOK'
  BY TypeStep
<1>2. ASSUME UNCHANGED <<report, opened>>, \A d \in Command : Settled(d) => Settled(d)'
      PROVE  ReportProtects'
  BY <1>2 DEF ProtectInv, ReportProtects
<1>3. ASSUME UNCHANGED <<report, opened, job>>, \A d \in Command : Settled(d) => Settled(d)'
      PROVE  ProtectInv'
  BY <1>2, <1>3 DEF ProtectInv, PassProtects, PassUnderWay
<1>4. ASSUME ~ \E d \in Command : Retry(d), ~ \E decision \in Decisions : PlanQueue(decision)
      PROVE  \A d \in Command : Settled(d) => Settled(d)'
  BY <1>4, SettledStays
<1>5. ASSUME NEW c \in Command, Retry(c) PROVE ProtectInv'
  <2>1. UNCHANGED <<report, job>> /\ Open({c}, "retried")
    BY <1>5 DEF Retry, fileVars
  <2>2. opened'.report[c] = "retried" /\ (PassUnderWay => opened'.pass[c] = "retried")
    BY <2>1 DEF Open
  <2>3. ASSUME NEW d \in Command, d # c
        PROVE  /\ opened'.report[d] = opened.report[d] /\ opened'.pass[d] = opened.pass[d]
               /\ Settled(d) => Settled(d)'
    <3>1. opened'.report[d] = opened.report[d] /\ opened'.pass[d] = opened.pass[d]
      BY <2>1, <2>3 DEF Open
    <3>2. status'[d] = status[d] /\ UNCHANGED <<history, retired>>
      BY <1>5, <2>3 DEF Retry, TypeOK, fileVars
    <3> QED
      BY <3>1, <3>2 DEF Settled
  <2>4. ReportProtects'
    BY <2>1, <2>2, <2>3 DEF ProtectInv, ReportProtects
  <2>5. PassProtects'
    BY <2>1, <2>2, <2>3 DEF ProtectInv, PassProtects, PassUnderWay
  <2> QED
    BY <2>4, <2>5 DEF ProtectInv
<1>6. ASSUME NEW decision \in Decisions, PlanQueue(decision) PROVE ProtectInv'
  <2>1. UNCHANGED report /\ job'.step = "queued"
    BY <1>6 DEF PlanQueue, TypeOK, fileVars
  <2>2. \A d \in Command : opened'.report[d] = "no" => opened.report[d] = "no"
    BY <1>6 DEF PlanQueue, Open
  <2> QED
    BY <1>6, <2>1, <2>2, PlannedStays DEF ProtectInv, ReportProtects, PassProtects, PassUnderWay
<1>7. ASSUME job'.step \notin {"read", "committed"}, UNCHANGED report, opened'.report = opened.report,
             \A d \in Command : Settled(d) => Settled(d)'
      PROVE  ProtectInv'
  BY <1>7 DEF ProtectInv, ReportProtects, PassProtects, PassUnderWay
<1>8. CASE PassRead
  <2>1. /\ job'.outcome = [c \in Command |-> OutcomeOf(c)]
        /\ job'.step = "read"
        /\ job'.rejected = {c \in Command : OutcomeOf(c) = "failed" /\ status[c] # "failed"}
        /\ UNCHANGED <<status, history, retired, report>>
        /\ opened'.report = opened.report
    BY <1>8 DEF PassRead, TypeOK, rowVars, fileVars
  <2>2. ASSUME NEW d \in Command, OutcomeOf(d) \notin UNRESOLVED_OUTCOMES
        PROVE  Settled(d) \/ OutcomeOf(d) = "failed"
    BY <2>2 DEF OutcomeOf, UNRESOLVED_OUTCOMES, ACTIVE_COMMAND_STATES, TypeOK, CommandStatus, Settled
  <2>3. ReportProtects'
    BY <2>1 DEF ProtectInv, ReportProtects, Settled
  <2>4. PassProtects'
    BY <2>1, <2>2 DEF PassProtects, Settled
  <2> QED
    BY <2>3, <2>4 DEF ProtectInv
<1>9. CASE PassCommit
  <2>1. /\ job.step = "read" /\ job'.step = "committed" /\ job'.outcome = job.outcome
        /\ UNCHANGED <<history, retired, report, opened>>
        /\ \A d \in Command : status'[d] = IF d \in job.rejected THEN "failed" ELSE status[d]
    BY <1>9 DEF PassCommit, TypeOK, fileVars
  <2>2. \A d \in Command : Settled(d) \/ d \in job.rejected => Settled(d)'
    BY <2>1 DEF Settled
  <2>3. PassProtects'
    BY <2>1, <2>2 DEF ProtectInv, PassProtects, PassUnderWay
  <2> QED
    BY <1>2, <2>1, <2>2, <2>3 DEF ProtectInv
<1>10. CASE PassWrite
  <2>1. /\ job.step = "committed" /\ job'.step = "reconciled"
        /\ report' = job.outcome /\ opened'.report = opened.pass
        /\ UNCHANGED <<status, history, retired>>
    BY <1>10 DEF PassWrite, TypeOK, rowVars
  <2> QED
    BY <2>1 DEF ProtectInv, ReportProtects, PassProtects, PassUnderWay, Settled
<1>11. ASSUME ~ \E d \in Command : Retry(d), ~ \E decision \in Decisions : PlanQueue(decision),
              \/ PassRaises \/ PlanRaises \/ SchedulerRestart \/ TightenProfile
              \/ PlanBlocked \/ PlanStart \/ PlanUnavailable \/ PlanWrite
              \/ \E decision \in Decisions : PlanQueueNothing(decision)
       PROVE  ProtectInv'
  <2>1. job'.step \notin {"read", "committed"}
    <3>1. CASE PassRaises \/ TightenProfile \/ PlanStart
      BY <3>1 DEF PassRaises, TightenProfile, PlanStart, TypeOK
    <3>2. CASE PlanRaises \/ SchedulerRestart \/ PlanBlocked \/ PlanUnavailable \/ PlanWrite
      BY <3>2 DEF PlanRaises, SchedulerRestart, PlanBlocked, PlanUnavailable, PlanWrite, Publish, AtRest
    <3>3. ASSUME NEW decision \in Decisions, PlanQueueNothing(decision)
          PROVE  job'.step \notin {"read", "committed"}
      BY <3>3 DEF PlanQueueNothing, TypeOK
    <3> QED
      BY <1>11, <3>1, <3>2, <3>3
  <2>2. UNCHANGED report
    BY <1>11
    DEF PassRaises, PlanRaises, SchedulerRestart, TightenProfile, PlanBlocked, PlanStart,
        PlanUnavailable, PlanWrite, PlanQueueNothing, Publish, fileVars
  <2>3. opened'.report = opened.report
    BY <1>11
    DEF PassRaises, PlanRaises, SchedulerRestart, TightenProfile, PlanBlocked, PlanStart,
        PlanUnavailable, PlanWrite, PlanQueueNothing, Publish, TypeOK
  <2> QED
    BY <1>4, <1>7, <1>11, <2>1, <2>2, <2>3
<1>12. ASSUME ~ \E d \in Command : Retry(d), ~ \E decision \in Decisions : PlanQueue(decision),
              \/ Tick \/ CaptureMyWaivers \/ BrowserStep \/ UNCHANGED vars \/ SyncContext
              \/ \E c \in Command : ProcessClaim(c) \/ WithdrawByHand(c) \/ CancelQueued(c)
       PROVE  ProtectInv'
  <2>1. UNCHANGED <<report, opened, job>>
    BY <1>12
    DEF Tick, CaptureMyWaivers, BrowserStep, vars, SyncContext, ProcessClaim, WithdrawByHand,
        CancelQueued, LeaseCommand, RetireClaim, StartPreflight, RefuseWrite, ClearWrite, Submit,
        SubmitThrows, VerifyWrite, DropCommand, BrowserRestart, Report, fileVars
  <2> QED
    BY <1>3, <1>4, <1>12, <2>1
<1> QED
  BY <1>5, <1>6, <1>8, <1>9, <1>10, <1>11, <1>12 DEF Next, SchedulerStep, ExpertRun, SchedulerFault

\* Only the planner creates a row.
LEMMA OnlyPlannerQueues ==
  ASSUME TypeOK, [Next]_vars, NEW c \in Command, Queued(c)
  PROVE  \E decision \in Decisions : PlanQueue(decision)
<1> SUFFICES ASSUME ~ \E decision \in Decisions : PlanQueue(decision) PROVE FALSE
  OBVIOUS
<1>1. ~ Retry(c)
  BY DEF Queued, Retry
<1> QED
  BY <1>1, FinalRowStays DEF Queued

\* A write in flight while the planner queues belongs to an opened command.
LEMMA FlightWasOpened ==
  ASSUME TypeOK, ProtectInv, [Next]_vars,
         NEW c \in Command, NEW d \in Command, Queued(c), InFlight(d)
  PROVE  job.step = "deciding" /\ opened.report[d] # "no"
<1>1. job.step = "deciding" /\ ~ Unresolved(report)
  BY OnlyPlannerQueues DEF PlanQueue, MayQueue
<1>2. ~ Settled(d)
  BY DEF Settled, InFlight
<1> QED
  BY <1>1, <1>2 DEF ProtectInv, ReportProtects, Unresolved

\* "prior acquisition write(s) require reconciliation before another
\* acquisition can be queued": with jobs that raise, restarts, changes of the
\* profile and retries, synchronize_acquisition_actions creates no command
\* while a write of a row the last reported pass has read is in flight.
THEOREM ReportProtectsWrites == Spec => InFlightIsNewer
<1>1. TypeOK /\ ProtectInv /\ [Next]_vars =>
        [\A c, d \in Command : Queued(c) /\ InFlight(d) => opened.report[d] # "no"]_vars
  BY FlightWasOpened
<1> QED
  BY TypeInit, TypeStep, TruthInit, TruthStep, ProtectInit, ProtectStep, <1>1, PTL
  DEF Spec, InFlightIsNewer

-----------------------------------------------------------------------------
(* While no job raises and no profile changes, only a retry gets past it. *)

\* From the read of a pass to the decision of the expert, no command is
\* created: the expert that decides is the one the loop ran after the pass.
NothingCreatedInBetween ==
  JobsAreSound =>
    /\ PassUnderWay => \A d \in Command : opened.pass[d] # "created"
    /\ job.step \in {"reconciled", "deciding"} => \A d \in Command : opened.report[d] # "created"

\* A behaviour keeps its troubles.
LEMMA TroubleStays == [Next]_vars => UNCHANGED trouble
<1> SUFFICES ASSUME [Next]_vars PROVE UNCHANGED trouble
  OBVIOUS
<1>1. CASE \/ Tick \/ CaptureMyWaivers \/ BrowserStep \/ UNCHANGED vars
           \/ \E c \in Command : ProcessClaim(c) \/ WithdrawByHand(c) \/ CancelQueued(c) \/ Retry(c)
  BY <1>1
  DEF Tick, CaptureMyWaivers, BrowserStep, vars, ProcessClaim, WithdrawByHand, CancelQueued, Retry,
      LeaseCommand, RetireClaim, StartPreflight, RefuseWrite, ClearWrite, Submit, SubmitThrows,
      VerifyWrite, DropCommand, BrowserRestart, Report
<1>2. CASE SchedulerStep
  BY <1>2
  DEF SchedulerStep, SyncContext, PassRead, PassCommit, PassWrite, ExpertRun, PlanBlocked, PlanStart,
      PlanUnavailable, PlanQueue, PlanQueueNothing, PlanWrite, Publish
<1>3. CASE TightenProfile \/ SchedulerFault
  BY <1>3 DEF TightenProfile, SchedulerFault, PassRaises, PlanRaises, SchedulerRestart
<1> QED
  BY <1>1, <1>2, <1>3 DEF Next

LEMMA BetweenInit == Init => NothingCreatedInBetween
  BY DEF Init, NothingCreatedInBetween, PassUnderWay, AtRest

LEMMA BetweenStep ==
  ASSUME TypeOK, NothingCreatedInBetween, [Next]_vars
  PROVE  NothingCreatedInBetween'
<1> SUFFICES ASSUME JobsAreSound' PROVE NothingCreatedInBetween'
  BY DEF NothingCreatedInBetween
<1>0. JobsAreSound
  BY TroubleStays DEF JobsAreSound
<1>1. ASSUME UNCHANGED <<job, opened>> PROVE NothingCreatedInBetween'
  BY <1>0, <1>1 DEF NothingCreatedInBetween, PassUnderWay
<1>2. CASE \/ Tick \/ CaptureMyWaivers \/ BrowserStep \/ UNCHANGED vars \/ SyncContext
           \/ \E c \in Command : ProcessClaim(c) \/ WithdrawByHand(c) \/ CancelQueued(c)
  BY <1>1, <1>2
  DEF Tick, CaptureMyWaivers, BrowserStep, vars, SyncContext, ProcessClaim, WithdrawByHand,
      CancelQueued, LeaseCommand, RetireClaim, StartPreflight, RefuseWrite, ClearWrite, Submit,
      SubmitThrows, VerifyWrite, DropCommand, BrowserRestart, Report
<1>3. ASSUME NEW c \in Command, Retry(c) PROVE NothingCreatedInBetween'
  <2>1. UNCHANGED job /\ Open({c}, "retried")
    BY <1>3 DEF Retry
  <2>2. \A d \in Command : /\ opened'.report[d] \in {opened.report[d], "retried"}
                           /\ opened'.pass[d] \in {opened.pass[d], "retried"}
    BY <2>1 DEF Open
  <2> QED
    BY <1>0, <2>1, <2>2 DEF NothingCreatedInBetween, PassUnderWay
<1>4. CASE PassRead
  <2>1. job'.step = "read" /\ opened'.pass = NotOpened
    BY <1>4 DEF PassRead, TypeOK
  <2> QED
    BY <2>1 DEF NothingCreatedInBetween, NotOpened
<1>5. CASE PassCommit
  BY <1>0, <1>5 DEF PassCommit, NothingCreatedInBetween, PassUnderWay, TypeOK
<1>6. CASE PassWrite
  <2>1. /\ job.step = "committed" /\ job'.step = "reconciled"
        /\ opened'.report = opened.pass
    BY <1>6 DEF PassWrite, TypeOK
  <2> QED
    BY <1>0, <2>1 DEF NothingCreatedInBetween, PassUnderWay
<1>7. CASE PlanStart
  BY <1>0, <1>7 DEF PlanStart, NothingCreatedInBetween, PassUnderWay, TypeOK
<1>8. CASE PlanBlocked \/ PlanUnavailable \/ PlanWrite
  <2>1. job'.step = "idle"
    BY <1>8 DEF PlanBlocked, PlanUnavailable, PlanWrite, Publish, AtRest
  <2> QED
    BY <2>1 DEF NothingCreatedInBetween, PassUnderWay
<1>9. ASSUME NEW decision \in Decisions, PlanQueue(decision) \/ PlanQueueNothing(decision)
      PROVE  NothingCreatedInBetween'
  <2>1. job'.step = "queued"
    BY <1>9 DEF PlanQueue, PlanQueueNothing, TypeOK
  <2> QED
    BY <2>1 DEF NothingCreatedInBetween, PassUnderWay
<1>10. ~ SchedulerFault /\ ~ TightenProfile
  BY <1>0 DEF JobsAreSound, SchedulerFault, PassRaises, PlanRaises, SchedulerRestart, TightenProfile
<1> QED
  BY <1>2, <1>3, <1>4, <1>5, <1>6, <1>7, <1>8, <1>9, <1>10 DEF Next, SchedulerStep, ExpertRun

\* As long as no pass and no expert run raises and the refresh profile does
\* not shorten the expert's interval, the only write that can be in flight
\* while synchronize_acquisition_actions queues is one the retry endpoints
\* have reopened since the pass read the rows.
THEOREM OnlyRetriesGetPast == Spec => OnlyRetriedInFlight
<1>1. TypeOK /\ ProtectInv /\ NothingCreatedInBetween /\ [Next]_vars =>
        [JobsAreSound =>
           \A c, d \in Command : Queued(c) /\ InFlight(d) => opened.report[d] = "retried"]_vars
  <2> SUFFICES ASSUME TypeOK, ProtectInv, NothingCreatedInBetween, [Next]_vars, JobsAreSound,
                      NEW c \in Command, NEW d \in Command, Queued(c), InFlight(d)
               PROVE  opened.report[d] = "retried"
    OBVIOUS
  <2>1. job.step = "deciding" /\ opened.report[d] # "no"
    BY FlightWasOpened
  <2>2. opened.report[d] # "created"
    BY <2>1 DEF NothingCreatedInBetween
  <2> QED
    BY <2>1, <2>2 DEF TypeOK, Opening
<1> QED
  BY TypeInit, TypeStep, TruthInit, TruthStep, ProtectInit, ProtectStep, BetweenInit, BetweenStep, <1>1, PTL
  DEF Spec, OnlyRetriedInFlight
=============================================================================
