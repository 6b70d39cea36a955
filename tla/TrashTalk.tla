----------------------------- MODULE TrashTalk -----------------------------
(***************************************************************************)
(* The trash-talk feed on top of the notification outbox: the scheduler's  *)
(* evaluation of the score board, the creative worker it waits for outside *)
(* any transaction, the owner's switches, and the rows the worker delivers.*)
(* One evaluation is two transactions with up to a minute between them.    *)
(*                                                                         *)
(* A matchup's score difference is 0, a lead (1), a clear lead of ten      *)
(* points (2) or a blowout (3), negative when the right team leads.  A row *)
(* of the outbox and a post are named by their trigger_key.                *)
(***************************************************************************)
EXTENDS NotificationOutbox

CONSTANTS
  Matchup,       \* matchup_ids
  Team,          \* the roster on a side of a matchup
  Fact,          \* triggers that need no stability: recap, preview, ...
  FactTarget,    \* the roster such a trigger is about
  NoTeam,
  Quality,       \* quality_score of a trigger
  StableTicks,   \* 5 minutes
  Cooldown,      \* trash_talk_cooldown_minutes
  FeedDaily,     \* trash_talk_daily_limit
  FeedWeekly,    \* trash_talk_weekly_limit
  TargetWeekly,  \* 2 in the code
  WeekDays,      \* days in a week, 7 in the code
  Quiet,         \* the ticks of a day in quiet hours
  AutoPost       \* settings.trash_talk_auto_post

ASSUME FeedAssumption ==
  /\ {StableTicks, Cooldown} \subseteq Nat
  /\ {FeedDaily, FeedWeekly, TargetWeekly, WeekDays} \subseteq Nat \ {0}
  /\ Quiet \subseteq 0 .. DayTicks - 1
  /\ AutoPost \in BOOLEAN

VARIABLES
  board,      \* the scores in in-season-context.json
  facts,      \* the instant triggers the context supports
  enabled,    \* trash_talk_controls.enabled
  optedOut,   \* trash_talk_controls.opted_out_roster_ids
  leads,      \* runtime_state: scoreboard and pending_leads by matchup
  stable,     \* runtime_state: stable_events, first_seen by trigger
  talk,       \* trash_talk_posts
  evaluator,  \* what evaluate_trash_talk has chosen and waits with
  heldSince   \* since when evaluations saw one clear leader of a matchup

feedVars == <<board, facts, enabled, optedOut, leads, stable, talk, evaluator, heldSince>>
allVars == <<vars, feedVars>>

Side == {"left", "right"}
Other(side) == IF side = "left" THEN "right" ELSE "left"
\* left_score >= right_score: a tie counts for the left team.
Leader(m) == IF board[m] >= 0 THEN "left" ELSE "right"
Margin(m) == IF board[m] >= 0 THEN board[m] ELSE -board[m]
Clear(m) == Margin(m) >= 2

Blowout(m) == [type |-> "live_blowout", matchup |-> m, from |-> "left"]
LeadChange(m, from) == [type |-> "lead_change", matchup |-> m, from |-> from]
Trigger == {Blowout(m) : m \in Matchup} \cup {LeadChange(m, s) : m \in Matchup, s \in Side} \cup Fact
Live == {Blowout(m) : m \in Matchup}
Never == -1
NoPending == [from |-> "left", to |-> "left", since |-> Never]
NoPost == [status |-> "none", at |-> Never, target |-> NoTeam, delivery |-> Nothing]
Resting == [chosen |-> Nothing, target |-> NoTeam, at |-> Never]

Target == {NoTeam} \cup {Team[m][s] : m \in Matchup, s \in Side} \cup {FactTarget[f] : f \in Fact}

ASSUME TriggerAssumption ==
  /\ Trash = Trigger /\ IsFiniteSet(Trash)
  /\ \A f \in Fact : f.type \notin {"live_blowout", "lead_change"}

DayStart(t) == (t \div DayTicks) * DayTicks
WeekStart(t) == (t \div (DayTicks * WeekDays)) * (DayTicks * WeekDays)
QuietHours == now % DayTicks \in Quiet

FeedInit ==
  /\ Init
  /\ board = [m \in Matchup |-> 0]
  /\ facts = {}
  /\ enabled = TRUE
  /\ optedOut = {}
  /\ leads = [m \in Matchup |-> [leader |-> "unseen", pending |-> NoPending]]
  /\ stable = [t \in Live |-> Never]
  /\ talk = [t \in Trash |-> NoPost]
  /\ evaluator = Resting
  /\ heldSince = [m \in Matchup |-> Never]

-----------------------------------------------------------------------------
(* The first transaction of evaluate_trash_talk.                           *)

\* Mutant: a lead that shrinks in between stays pending.
NextLeadKept(m) ==
  LET seen == leads[m] IN
  [leader |-> Leader(m),
   pending |-> IF seen.leader \notin {"unseen", Leader(m)} /\ Clear(m)
                 THEN [from |-> seen.leader, to |-> Leader(m), since |-> now] ELSE seen.pending]

\* A lead that turned clear is pending until the next clear sighting of it.
NextLead(m) ==
  LET seen == leads[m] IN
  LET pending ==
    IF seen.leader \notin {"unseen", Leader(m)} /\ Clear(m)
      THEN [from |-> seen.leader, to |-> Leader(m), since |-> now]
    ELSE IF seen.pending # NoPending /\ (seen.pending.to # Leader(m) \/ ~Clear(m))
      THEN NoPending
    ELSE seen.pending
  IN [leader |-> Leader(m), pending |-> pending]

LeadChanged(m) ==
  /\ leads[m].leader \in {"unseen", Leader(m)}
  /\ leads[m].pending # NoPending
  /\ leads[m].pending.to = Leader(m)
  /\ Clear(m)
  /\ now - leads[m].pending.since >= StableTicks

FactCandidates == {[key |-> f, target |-> FactTarget[f]] : f \in facts}
Candidates ==
  {[key |-> Blowout(m), target |-> Team[m][Other(Leader(m))]] : m \in {x \in Matchup : Margin(x) = 3}}
  \cup {[key |-> LeadChange(m, leads[m].pending.from), target |-> Team[m][Other(Leader(m))]] :
          m \in {x \in Matchup : LeadChanged(x)}}
  \cup FactCandidates

LiveKeys == {c.key : c \in Candidates} \cap Live
NextStable == [t \in Live |-> IF t \notin LiveKeys THEN Never ELSE IF stable[t] = Never THEN now ELSE stable[t]]

\* Mutant: a queued post does not count.
ActiveDelivered == {t \in Trash : talk[t].status = "delivered"}
Active == {t \in Trash : talk[t].status \in {"pending", "delivered"}}
ActiveSince(t0) == {t \in Active : talk[t].at >= t0}
About(set, target) == {t \in set : talk[t].target = target}

\* _rate_limit_reason returns None.
WithinLimits(candidate, at) ==
  /\ Cardinality(ActiveSince(WeekStart(at))) < FeedWeekly
  /\ Cardinality(ActiveSince(DayStart(at))) < FeedDaily
  /\ \A t \in Active : talk[t].at + Cooldown <= at
  /\ candidate.target # NoTeam =>
       /\ About(ActiveSince(DayStart(at)), candidate.target) = {}
       /\ Cardinality(About(ActiveSince(WeekStart(at)), candidate.target)) < TargetWeekly

Choosable(c) ==
  /\ c.target \notin optedOut
  /\ c.key \in Live => now - NextStable[c.key] >= StableTicks
  /\ talk[c.key].status = "none"
  /\ WithinLimits(c, now)

Evaluate ==
  /\ evaluator = Resting
  /\ enabled
  /\ ~QuietHours
  /\ leads' = [m \in Matchup |-> NextLead(m)]
  /\ stable' = NextStable
  /\ heldSince' = [m \in Matchup |->
       IF ~Clear(m) THEN Never
       ELSE IF leads[m].leader = Leader(m) /\ heldSince[m] # Never THEN heldSince[m] ELSE now]
  /\ LET choosable == {c \in Candidates : Choosable(c)} IN
     \/ choosable = {} /\ UNCHANGED evaluator
     \/ \E c \in choosable :
          /\ \A d \in choosable : Quality[c.key] >= Quality[d.key]
          /\ evaluator' = [chosen |-> c.key, target |-> c.target, at |-> now]
  /\ UNCHANGED <<vars, board, facts, enabled, optedOut, talk>>

-----------------------------------------------------------------------------
(* After the creative worker.                                              *)

\* A post of now.  Its delivery was added to the session but not flushed: the
\* id, and so notification_delivery_id, is still None.
Post(status, target) == [status |-> status, at |-> now, target |-> target, delivery |-> Nothing]

\* generate_message raised: a suppressed post takes the trigger_key.
CreativeWorkerFails ==
  /\ evaluator # Resting
  /\ talk' = IF talk[evaluator.chosen] = NoPost
              THEN [talk EXCEPT ![evaluator.chosen] = Post("suppressed", evaluator.target)] ELSE talk
  /\ evaluator' = Resting
  /\ UNCHANGED <<vars, board, facts, enabled, optedOut, leads, stable, heldSince>>

\* Mutant: the switches are not read again.
StillWithinLimits ==
  /\ talk[evaluator.chosen] = NoPost
  /\ WithinLimits([key |-> evaluator.chosen, target |-> evaluator.target], evaluator.at)
StillAllowed ==
  /\ enabled
  /\ evaluator.target \notin optedOut
  /\ talk[evaluator.chosen] = NoPost
  /\ WithinLimits([key |-> evaluator.chosen, target |-> evaluator.target], evaluator.at)

Abandon ==
  /\ evaluator # Resting
  /\ ~StillAllowed
  /\ evaluator' = Resting
  /\ UNCHANGED <<vars, board, facts, enabled, optedOut, leads, stable, talk, heldSince>>

\* Mutant: the unsafe post is left a candidate.
WithholdCandidate ==
  /\ evaluator # Resting
  /\ StillAllowed
  /\ talk' = [talk EXCEPT ![evaluator.chosen] = Post("candidate", evaluator.target)]
  /\ evaluator' = Resting
  /\ UNCHANGED <<vars, board, facts, enabled, optedOut, leads, stable, heldSince>>

\* validate_message rejected the text, or posting is manual.
Withhold ==
  /\ evaluator # Resting
  /\ StillAllowed
  /\ \/ talk' = [talk EXCEPT ![evaluator.chosen] = Post("suppressed", evaluator.target)]
     \/ /\ ~AutoPost
        /\ talk' = [talk EXCEPT ![evaluator.chosen] = Post("ready", evaluator.target)]
  /\ evaluator' = Resting
  /\ UNCHANGED <<vars, board, facts, enabled, optedOut, leads, stable, heldSince>>

Publish ==
  /\ evaluator # Resting
  /\ StillAllowed
  /\ AutoPost
  /\ QueueTrashTalk(evaluator.chosen)
  /\ talk' = [talk EXCEPT ![evaluator.chosen] = Post(rows'[evaluator.chosen].status, evaluator.target)]
  /\ evaluator' = Resting
  /\ UNCHANGED <<board, facts, enabled, optedOut, leads, stable, heldSince>>

\* The scheduler dies while it waits.
SchedulerDies ==
  /\ evaluator # Resting
  /\ evaluator' = Resting
  /\ UNCHANGED <<vars, board, facts, enabled, optedOut, leads, stable, talk, heldSince>>

-----------------------------------------------------------------------------
(* The owner, and the scores.                                              *)

\* pause, and feedback "crossed_line" on a post.
Pause ==
  /\ enabled' = FALSE
  /\ UNCHANGED <<vars, board, facts, optedOut, leads, stable, talk, evaluator, heldSince>>

Resume ==
  /\ enabled' = TRUE
  /\ UNCHANGED <<vars, board, facts, optedOut, leads, stable, talk, evaluator, heldSince>>

OptOut(team) ==
  /\ optedOut' \in {optedOut \cup {team}, optedOut \ {team}}
  /\ UNCHANGED <<vars, board, facts, enabled, leads, stable, talk, evaluator, heldSince>>

Score ==
  /\ \E m \in Matchup, d \in -3 .. 3 : board' = [board EXCEPT ![m] = d]
  /\ facts' \in SUBSET Fact
  /\ Tick
  /\ UNCHANGED <<enabled, optedOut, leads, stable, talk, evaluator, heldSince>>

\* The worker mirrors a row's outcome in the post that links to it.
Mirror(w) ==
  IF worker[w].at = "commit"
    THEN talk' = [t \in Trash |-> IF talk[t].delivery = worker[w].key
                                    THEN [talk[t] EXCEPT !.status = worker[w].outcome] ELSE talk[t]]
    ELSE UNCHANGED talk

Delivery ==
  \/ \E w \in Worker :
       /\ WorkerStep(w) /\ Mirror(w)
       /\ UNCHANGED <<board, facts, enabled, optedOut, leads, stable, evaluator, heldSince>>
  \/ /\ \/ \E k \in Operational : QueueSlackAlert(k)
        \/ \E w \in Worker : WorkerDies(w)
        \/ SlackChanges
     /\ UNCHANGED feedVars

FeedNext ==
  \/ Evaluate \/ CreativeWorkerFails \/ Abandon \/ Withhold \/ Publish \/ SchedulerDies
  \/ Pause \/ Resume \/ (\E m \in Matchup, s \in Side : OptOut(Team[m][s]))
  \/ Score
  \/ Delivery

FeedSpec == FeedInit /\ [][FeedNext]_allVars

-----------------------------------------------------------------------------
(* Properties                                                              *)

\* Posts and runtime state keep their shape; no post is left a candidate.
FeedTypeOK ==
  /\ board \in [Matchup -> -3 .. 3]
  /\ facts \subseteq Fact
  /\ enabled \in BOOLEAN
  /\ \A m \in Matchup : leads[m].leader \in Side \cup {"unseen"} /\ leads[m].pending.since \in Nat \cup {Never}
  /\ stable \in [Live -> Nat \cup {Never}]
  /\ \A t \in Trash : talk[t].status \in {"none", "suppressed", "ready", "pending", "blocked", "delivered", "failed"}
  /\ evaluator = Resting \/ (evaluator.chosen \in Trash /\ evaluator.at \in 0 .. now)

Published == {t \in Trash : talk[t].status \in {"pending", "delivered"}}

\* Posts the feed decided on keep the cooldown, the limit of a day and of a
\* week and the limit per team, although the limits are read a minute and a
\* model call before the post is written.
FeedWithinLimits ==
  /\ \A s, t \in Published :
       s # t => talk[s].at + Cooldown <= talk[t].at \/ talk[t].at + Cooldown <= talk[s].at
  /\ \A t \in Published :
       LET at == talk[t].at
           week == {s \in Published : WeekStart(talk[s].at) = WeekStart(at)} IN
       /\ Cardinality({s \in week : DayStart(talk[s].at) = DayStart(at)}) <= FeedDaily
       /\ Cardinality(week) <= FeedWeekly
       /\ talk[t].target # NoTeam => Cardinality(About(week, talk[t].target)) <= TargetWeekly

\* No row enters the outbox for a team that opted out, or after the owner's
\* pause, while the creative worker was writing.
QueuedWithConsent ==
  [][\A k \in Trash : rows[k].status = "absent" /\ rows'[k].status # "absent" =>
       enabled /\ evaluator.target \notin optedOut]_allVars

\* A lead change is chosen only when every evaluation of the last five
\* minutes saw the new leader clearly ahead.
LeadIsHeld ==
  \A m \in Matchup, s \in Side :
    evaluator.chosen = LeadChange(m, s) => evaluator.at - heldSince[m] >= StableTicks /\ heldSince[m] # Never
=============================================================================
