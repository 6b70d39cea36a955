------------------------------ MODULE MCSources ------------------------------
(***************************************************************************)
(* The evidence, its schedule and the projection quota on small bounds.    *)
(* They share no variable, so a behaviour follows one of them and the      *)
(* others stay as they start.  The evidence is followed once while rosters *)
(* change and two processes sync Sleeper, and once while the week turns    *)
(* and one process at a time syncs Sleeper or nflverse.                    *)
(***************************************************************************)
EXTENDS SourceEvidence, SourceSchedule, ProjectionQuota, TLC

\* In units of five minutes, the long waits shortened: fifteen minutes for a
\* plan, thirty-five for nflverse, forty-five for the season's schedule.
MCEvery ==
  [normal   |-> [sleeper |-> 1, nflverse |-> 7, season |-> 9, expert |-> 3],
   kickoff  |-> [sleeper |-> 1, nflverse |-> 3, season |-> 9, expert |-> 1],
   degraded |-> [sleeper |-> 1, nflverse |-> 1, season |-> 9, expert |-> 2]]
MCMaxAge == [sleeper |-> 4, nflverse |-> 8]

MCSymmetry == Permutations(Roster) \cup Permutations(Syncer)

VARIABLE family
vars == <<family, evidenceVars, scheduleVars, quotaVars>>

MCInit ==
  /\ family \in {"roster", "week", "schedule", "quota"}
  /\ EvidenceInit /\ (family \in {"schedule", "quota"} => context = NoFile /\ nflverse = NoFile)
  /\ ScheduleInit /\ (family # "schedule" => phase = "normal" /\ plan = "ready")
  /\ QuotaInit

OnlySleeper == \A s \in Syncer : syncs'[s] # Idle => syncs'[s].job = "context"
OneAtATime == \A s, t \in Syncer : syncs'[s] # Idle /\ syncs'[t] # Idle => s = t

MCNext ==
  /\ UNCHANGED family
  /\ \/ /\ family = "roster" /\ EvidenceNext /\ OnlySleeper
        /\ UNCHANGED <<week, scheduleVars, quotaVars>>
     \/ /\ family = "week" /\ EvidenceNext /\ OneAtATime
        /\ UNCHANGED <<roster, scheduleVars, quotaVars>>
     \/ family = "schedule" /\ ScheduleNext /\ UNCHANGED <<evidenceVars, quotaVars>>
     \/ family = "quota" /\ QuotaNext /\ UNCHANGED <<evidenceVars, scheduleVars>>

MCSpec == MCInit /\ [][MCNext]_vars
=============================================================================
