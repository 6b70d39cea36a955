-------------------------- MODULE SourceSchedule --------------------------
(***************************************************************************)
(* How the scheduler comes back to a source that has failed.  It runs its  *)
(* jobs one after the other and records the health of a source and an      *)
(* incident; the manager's plan, one of the jobs, writes down whether the  *)
(* evidence blocks it; and the next pass reads that to choose its profile, *)
(* which shortens the waits.  Jobs fail, failures go unrecorded, and the   *)
(* process restarts at any step.  The clock counts units of five minutes.  *)
(***************************************************************************)
EXTENDS Integers, Sequences

CONSTANTS
  Every,       \* Every[profile][job]: how long the job waits for its next run
  ExpertRetry, \* the wait after a failure of the Codex worker
  MaxAge,      \* MaxAge[source]: the age at which the gate calls its row stale
  ExpertTime,  \* bound: the longest a plan takes; a sync takes no time here
  MaxClock     \* bound of the clock

Profile == {"normal", "kickoff", "degraded"}
\* In the order of the loop.
JobOrder == <<"sleeper", "nflverse", "season", "expert">>
Job == {"sleeper", "nflverse", "season", "expert"}
Source == {"sleeper", "nflverse"}  \* whose row the gate asks for

ASSUME WaitsArePositive ==
  /\ Every \in [Profile -> [Job -> Nat \ {0}]] /\ ExpertRetry \in Nat \ {0}
  /\ MaxAge \in [Source -> Nat] /\ ExpertTime \in Nat
\* expert_refresh_seconds takes a minimum; Sleeper is polled every five minutes
\* or less, and in_season_expert_minutes is fifteen or more.
ASSUME PlansAreRarest ==
  \A p \in Profile : /\ Every[p]["expert"] <= Every["normal"]["expert"]
                     /\ Every[p]["sleeper"] <= Every["normal"]["expert"]

VARIABLES
  clock,
  phase,      \* the profile the calendar asks for
  due,        \* when each job is due
  loop,       \* the pass under way
  health,     \* the rows in_season_bundle and context_bundle
  incidents,  \* the jobs whose critical incident is open
  plan,       \* the gate's status in in-season-plan.json
  troubled    \* history: when a source, the plan or the process last failed

scheduleVars == <<clock, phase, due, loop, health, incidents, plan, troubled>>

Rest == [stage |-> "rest"]

ScheduleInit ==
  /\ clock = 0 /\ phase \in {"normal", "kickoff"}
  /\ due = [j \in Job |-> 0]
  /\ loop = Rest
  /\ health = [s \in Source |-> [ok |-> FALSE, at |-> 0]]
  /\ incidents = {}
  /\ plan \in {"ready", "blocked"}
  /\ troubled = 0

-----------------------------------------------------------------------------
CurrentProfile == IF plan = "blocked" THEN "degraded" ELSE phase

\* Mutant: a wait once chosen is kept.
Kept(p) == due

\* What a shorter profile pulls forward.
Clamped(p) == [j \in Job |-> IF j \in {"expert", "nflverse"} /\ due[j] > clock + Every[p][j]
                             THEN clock ELSE due[j]]

\* The gate of the plan.  Only Sleeper's incidents are critical.
EvidenceBlocks ==
  \/ incidents # {}
  \/ \E s \in Source : ~health[s].ok \/ clock - health[s].at > MaxAge[s]

\* The pass goes on with the next job that was due when it began.
GoOn(from, began, p, dues) ==
  LET later == {i \in from .. Len(JobOrder) : dues[JobOrder[i]] <= began}
  IN  loop' = IF later = {} THEN Rest
              ELSE [stage |-> "job", began |-> began, profile |-> p, since |-> clock,
                    job |-> CHOOSE i \in later : \A k \in later : i <= k]

\* The acquisition lifecycle may ask for a plan in the same pass.
Wake ==
  /\ loop = Rest
  /\ \E asked \in BOOLEAN :
       /\ due' = IF asked THEN [Clamped(CurrentProfile) EXCEPT !["expert"] = clock]
                 ELSE Clamped(CurrentProfile)
       /\ GoOn(1, clock, CurrentProfile, due')
  /\ UNCHANGED <<clock, phase, health, incidents, plan, troubled>>

Running == JobOrder[loop.job]

\* due counts from the beginning of the pass, not from the end of the job.
Finish(wait) ==
  /\ due' = [due EXCEPT ![Running] = loop.began + wait]
  /\ GoOn(loop.job + 1, loop.began, loop.profile, due')

\* update_dataset_health keeps the time of the last success.
HealthAfter(succeeds) ==
  IF Running = "season" THEN health
  ELSE [health EXCEPT ![Running] = [ok |-> succeeds, at |-> IF succeeds THEN clock ELSE @.at]]

\* An incident about nflverse is only a warning.
IncidentsAfter(succeeds) ==
  IF succeeds THEN incidents \ {Running} ELSE incidents \cup ({Running} \ {"nflverse"})

SyncSucceeds ==
  /\ loop.stage = "job" /\ Running # "expert"
  /\ health' = HealthAfter(TRUE) /\ incidents' = IncidentsAfter(TRUE)
  /\ Finish(Every[loop.profile][Running])
  /\ UNCHANGED <<clock, phase, plan, troubled>>

\* _safe goes on when the failure could not be recorded.
SyncFails ==
  /\ loop.stage = "job" /\ Running # "expert"
  /\ \/ health' = HealthAfter(FALSE) /\ incidents' = IncidentsAfter(FALSE)
     \/ UNCHANGED <<health, incidents>>
  /\ troubled' = clock
  /\ Finish(Every[loop.profile][Running])
  /\ UNCHANGED <<clock, phase, plan>>

\* The plan judges the evidence as it starts; it may also be blocked by
\* evidence that is not modelled here.
PlanJudges ==
  /\ loop.stage = "job" /\ Running = "expert"
  /\ \E verdict \in {"ready", "blocked"} :
       /\ EvidenceBlocks => verdict = "blocked"
       /\ loop' = [loop EXCEPT !.stage = verdict]
  /\ UNCHANGED <<clock, phase, due, health, incidents, plan, troubled>>

\* expert_retry_seconds: sooner when the Codex worker was to blame.
PlanIsWritten ==
  /\ loop.stage \in {"ready", "blocked"}
  /\ plan' = loop.stage
  /\ \E wait \in {Every[loop.profile]["expert"], ExpertRetry} :
       wait <= Every[loop.profile]["expert"] /\ Finish(wait)
  /\ UNCHANGED <<clock, phase, health, incidents, troubled>>

PlanFails ==
  /\ loop.stage # "rest" /\ Running = "expert"
  /\ troubled' = clock
  /\ Finish(Every[loop.profile]["expert"])
  /\ UNCHANGED <<clock, phase, health, incidents, plan>>

Restart ==
  /\ loop' = Rest
  /\ due' = [j \in Job |-> 0]
  /\ troubled' = clock
  /\ UNCHANGED <<clock, phase, health, incidents, plan>>

\* The loop wakes every two seconds; only a plan whose evidence is in order
\* takes long.
Settled == loop = Rest /\ \A j \in Job : Clamped(CurrentProfile)[j] > clock

TimePasses ==
  /\ clock < MaxClock
  /\ \/ Settled
     \/ loop.stage = "ready" /\ clock < loop.since + ExpertTime
  /\ clock' = clock + 1
  /\ phase' \in {"normal", "kickoff"}
  /\ UNCHANGED <<due, loop, health, incidents, plan, troubled>>

ScheduleNext ==
  \/ Wake \/ SyncSucceeds \/ SyncFails
  \/ PlanJudges \/ PlanIsWritten \/ PlanFails
  \/ Restart \/ TimePasses

ScheduleSpec == ScheduleInit /\ [][ScheduleNext]_scheduleVars

-----------------------------------------------------------------------------
(* Properties. *)

\* The longest wait for the next plan, then for nflverse in the degraded profile.
Recovery == Every["normal"]["expert"] + Every["degraded"]["nflverse"]

\* A source that failed is healthy again soon after things go well: the next
\* plan finds the row, is blocked, and the degraded profile pulls the source
\* forward, however far off its next regular sync was.
SourcesRecover ==
  clock - troubled > Recovery =>
    "sleeper" \notin incidents /\ \A s \in Source : health[s].ok

\* In the degraded profile a source with an open critical incident is polled
\* within five minutes.
CriticalSourcesArePolled ==
  Settled /\ CurrentProfile = "degraded" => \A j \in incidents : due[j] <= clock + 1
=============================================================================
