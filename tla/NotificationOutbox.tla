------------------------- MODULE NotificationOutbox -------------------------
(***************************************************************************)
(* The durable notification rows, the domain events and the worker process *)
(* that serves both: producers insert a row once per dedupe_key, a worker  *)
(* locks a row, posts to Slack inside the transaction that will record the *)
(* outcome, and commits.  Slack may refuse, or take the message while the  *)
(* answer is lost; a worker may die at any point of its transaction, which *)
(* rolls the row back but not the message.                                 *)
(***************************************************************************)
EXTENDS Integers, Sequences, FiniteSets

CONSTANTS
  Operational,   \* dedupe keys of rows of kind "operational"
  Trash,         \* dedupe keys of rows of kind "trash_talk"
  WithImage,     \* the trash_talk rows that carry an image_path
  Event,         \* domain events
  Priority,      \* their priority; the lowest number goes first
  Worker,        \* worker processes
  Nothing,       \* no row and no event
  AttemptLimit,  \* 8 in the code, for rows and for events
  BackoffCap,    \* 900 seconds in the code, in ticks
  DailyLimit,    \* slack_daily_alert_limit
  DayTicks,      \* ticks in a UTC day
  MaxNow,        \* bound on the clock
  MaxCrashes,    \* bound on worker deaths
  Lossy          \* whether Slack's answer may be lost

Key == Operational \cup Trash

ASSUME OutboxAssumption ==
  /\ Operational \cap Trash = {}
  /\ WithImage \subseteq Trash
  /\ Key \cap Event = {}
  /\ Nothing \notin Key \cup Event
  /\ Priority \in [Event -> Nat]
  /\ IsFiniteSet(Operational) /\ IsFiniteSet(Worker)
  /\ AttemptLimit \in Nat \ {0}
  /\ BackoffCap \in Nat
  /\ DailyLimit \in Nat \ {0}
  /\ DayTicks \in Nat \ {0}
  /\ MaxNow \in Nat
  /\ MaxCrashes \in Nat
  /\ Lossy \in BOOLEAN

VARIABLES
  now,         \* the clock
  rows,        \* notification_deliveries
  created,     \* dedupe keys in the order of created_at
  events,      \* domain_events
  worker,      \* where each worker is in its loop and in its transaction
  slackUp,     \* whether Slack accepts messages
  configured,  \* settings.slack_notifications_configured
  crashes,     \* worker deaths so far
  posts,       \* how many messages Slack showed for a row
  unrecorded,  \* how many of them no committed transaction knows of
  runs         \* how often the work of an event was started

vars == <<now, rows, created, events, worker, slackUp, configured, crashes, posts, unrecorded, runs>>

RowStatus == {"absent", "pending", "blocked", "delivered", "failed", "suppressed"}
NoDay == -1
Row == [status : RowStatus, attempts : 0 .. AttemptLimit, day : Nat \cup {NoDay}, fallback : BOOLEAN]
EventRow == [status : {"absent", "pending", "completed", "failed"}, attempts : 0 .. AttemptLimit, notBefore : Nat]
Idle == [at |-> "alerts", key |-> Nothing, outcome |-> "failed", day |-> NoDay, fallback |-> FALSE]
WorkerState ==
  [at : {"alerts", "sending", "fallback", "commit", "events", "running"}, key : Key \cup Event \cup {Nothing},
   outcome : {"delivered", "failed"}, day : Nat \cup {NoDay}, fallback : BOOLEAN]

\* The row or event a worker's open transaction has locked (FOR UPDATE).
Locked(k) == \E w \in Worker : worker[w].key = k
Today == now \div DayTicks
DeliveredOn(day) == {k \in Operational : rows[k].status = "delivered" /\ rows[k].day = day}

Init ==
  /\ now = 0
  /\ rows = [k \in Key |-> [status |-> "absent", attempts |-> 0, day |-> NoDay, fallback |-> FALSE]]
  /\ created = <<>>
  /\ events = [e \in Event |-> [status |-> "absent", attempts |-> 0, notBefore |-> 0]]
  /\ worker = [w \in Worker |-> Idle]
  /\ slackUp \in BOOLEAN
  /\ configured \in BOOLEAN
  /\ crashes = 0
  /\ posts = [k \in Key |-> 0]
  /\ unrecorded = [k \in Key |-> 0]
  /\ runs = [e \in Event |-> 0]

-----------------------------------------------------------------------------
(* Producers.  An existing dedupe_key is returned unchanged: no step.      *)

InsertRow(k, status) ==
  /\ rows[k].status = "absent"
  /\ rows' = [rows EXCEPT ![k].status = status]
  /\ created' = Append(created, k)
  /\ UNCHANGED <<now, events, worker, slackUp, configured, crashes, posts, unrecorded, runs>>

\* queue_slack_alert, called for a failed command (agent_result), a blocked
\* manager (queue_manager_notices) and an acquisition outcome.
QueueSlackAlert(k) == InsertRow(k, IF configured THEN "pending" ELSE "blocked")

\* queue_trash_talk: the image channel has credentials of its own.
QueueTrashTalk(k) == InsertRow(k, IF configured \/ k \in WithImage THEN "pending" ELSE "blocked")

EnqueueEvent(e) ==
  /\ events[e].status = "absent"
  /\ events' = [events EXCEPT ![e] = [@ EXCEPT !.status = "pending", !.notBefore = now]]
  /\ UNCHANGED <<now, rows, created, worker, slackUp, configured, crashes, posts, unrecorded, runs>>

-----------------------------------------------------------------------------
(* _process_slack_alert: one transaction per row.                          *)

\* Mutants: no limit of attempts; a failed row is not taken again.
EligibleForever(k) ==
  /\ rows[k].status \in {"pending", "failed"} \cup (IF configured THEN {"blocked"} ELSE {})
  /\ ~Locked(k)
EligibleOnce(k) ==
  /\ rows[k].status \in {"pending"} \cup (IF configured THEN {"blocked"} ELSE {})
  /\ rows[k].attempts < AttemptLimit
  /\ ~Locked(k)

Eligible(k) ==
  /\ rows[k].status \in {"pending", "failed"} \cup (IF configured THEN {"blocked"} ELSE {})
  /\ rows[k].attempts < AttemptLimit
  /\ ~Locked(k)

\* ORDER BY operational first, created_at.
Ahead(j, k) ==
  IF j \in Operational /\ k \in Trash THEN TRUE
  ELSE IF j \in Trash /\ k \in Operational THEN FALSE
  ELSE \E p, q \in DOMAIN created : p <= q /\ created[p] = j /\ created[q] = k

NextAlert(k) == k \in Key /\ Eligible(k) /\ \A j \in Key : Eligible(j) => Ahead(k, j)

\* Mutant: off by one.
LimitExceeded == Cardinality(DeliveredOn(Today)) > DailyLimit
LimitReached == Cardinality(DeliveredOn(Today)) >= DailyLimit

Goto(w, place) == worker' = [worker EXCEPT ![w] = [Idle EXCEPT !.at = place]]

\* Settled without a message: over the daily limit, or no webhook to post to.
SettleAlert(w, k) ==
  /\ worker[w].at = "alerts"
  /\ NextAlert(k)
  /\ k \in Operational
  /\ \/ LimitReached /\ rows' = [rows EXCEPT ![k].status = "suppressed"]
     \/ ~LimitReached /\ ~configured /\ rows' = [rows EXCEPT ![k].status = "blocked"]
  /\ Goto(w, "events")
  /\ UNCHANGED <<now, created, events, slackUp, configured, crashes, posts, unrecorded, runs>>

TakeAlert(w, k) ==
  /\ worker[w].at = "alerts"
  /\ NextAlert(k)
  /\ k \in Operational => ~LimitReached /\ configured
  /\ worker' = [worker EXCEPT ![w] = [@ EXCEPT !.at = "sending", !.key = k, !.fallback = rows[k].fallback]]
  /\ UNCHANGED <<now, rows, created, events, slackUp, configured, crashes, posts, unrecorded, runs>>

NoAlert(w) ==
  /\ worker[w].at = "alerts"
  /\ \A k \in Key : ~Eligible(k)
  /\ Goto(w, "events")
  /\ UNCHANGED <<now, rows, created, events, slackUp, configured, crashes, posts, unrecorded, runs>>

\* What the worker does once a call failed: an image gets one text fallback.
AfterFailure(w) ==
  LET k == worker[w].key IN
  IF worker[w].at = "sending" /\ k \in WithImage /\ configured /\ ~worker[w].fallback
    THEN [worker[w] EXCEPT !.at = "fallback", !.fallback = TRUE]
    ELSE [worker[w] EXCEPT !.at = "commit", !.outcome = "failed"]

Sending(w) == worker[w].at \in {"sending", "fallback"}
\* A text, or a fallback, needs the webhook; an image has the bot token.
Reachable(w) == slackUp /\ (configured \/ worker[w].key \in WithImage)

\* Slack shows the message and the answer arrives.
PostAccepted(w) ==
  /\ Sending(w) /\ Reachable(w)
  /\ worker' = [worker EXCEPT ![w] = [@ EXCEPT !.at = "commit", !.outcome = "delivered", !.day = Today]]
  /\ posts' = [posts EXCEPT ![worker[w].key] = @ + 1]
  /\ UNCHANGED <<now, rows, created, events, slackUp, configured, crashes, unrecorded, runs>>

\* Slack shows the message; the answer is late or garbled, the call raises.
PostAnswerLost(w) ==
  /\ Lossy
  /\ Sending(w) /\ Reachable(w)
  /\ worker' = [worker EXCEPT ![w] = AfterFailure(w)]
  /\ posts' = [posts EXCEPT ![worker[w].key] = @ + 1]
  /\ unrecorded' = [unrecorded EXCEPT ![worker[w].key] = @ + 1]
  /\ UNCHANGED <<now, rows, created, events, slackUp, configured, crashes, runs>>

PostRefused(w) ==
  /\ Sending(w) /\ ~Reachable(w)
  /\ worker' = [worker EXCEPT ![w] = AfterFailure(w)]
  /\ UNCHANGED <<now, rows, created, events, slackUp, configured, crashes, posts, unrecorded, runs>>

\* Mutant: the outcome is not written back to the row.
CommitAttemptOnly(w) ==
  /\ worker[w].at = "commit"
  /\ rows' = [rows EXCEPT ![worker[w].key].attempts = @ + 1]
  /\ Goto(w, "events")
  /\ UNCHANGED <<now, created, events, slackUp, configured, crashes, posts, unrecorded, runs>>

\* The attempt, its outcome and fallback_attempted become visible together.
CommitAlert(w) ==
  /\ worker[w].at = "commit"
  /\ rows' = [rows EXCEPT ![worker[w].key] =
       [status |-> worker[w].outcome, attempts |-> @.attempts + 1,
        day |-> worker[w].day, fallback |-> worker[w].fallback]]
  /\ Goto(w, "events")
  /\ UNCHANGED <<now, created, events, slackUp, configured, crashes, posts, unrecorded, runs>>

-----------------------------------------------------------------------------
(* _process_event: lease, work and completion are one transaction, so a    *)
(* lease is never visible to another worker; the row lock is.              *)

\* enqueue_event never sets expires_at.
Due(e) == events[e].status = "pending" /\ events[e].notBefore <= now /\ ~Locked(e)

TakeEvent(w, e) ==
  /\ worker[w].at = "events"
  /\ Due(e)
  /\ \A f \in Event : Due(f) => Priority[e] <= Priority[f]
  /\ worker' = [worker EXCEPT ![w] = [@ EXCEPT !.at = "running", !.key = e]]
  /\ runs' = [runs EXCEPT ![e] = @ + 1]
  /\ UNCHANGED <<now, rows, created, events, slackUp, configured, crashes, posts, unrecorded>>

NoEvent(w) ==
  /\ worker[w].at = "events"
  /\ \A e \in Event : ~Due(e)
  /\ Goto(w, "alerts")
  /\ UNCHANGED <<now, rows, created, events, slackUp, configured, crashes, posts, unrecorded, runs>>

\* min(2 ** attempt_count, 900)
Backoff(attempts) == IF 2 ^ attempts \in 0 .. BackoffCap THEN 2 ^ attempts ELSE BackoffCap

\* Mutant: the attempt is not counted.
RetriedUncounted(row) == [row EXCEPT !.notBefore = now + Backoff(row.attempts + 1)]
Retried(row) ==
  IF row.attempts + 1 >= AttemptLimit
    THEN [row EXCEPT !.status = "failed", !.attempts = @ + 1]
    ELSE [row EXCEPT !.attempts = @ + 1, !.notBefore = now + Backoff(row.attempts + 1)]

Completed(row) == [row EXCEPT !.status = "completed", !.attempts = @ + 1]

FinishEvent(w) ==
  /\ worker[w].at = "running"
  /\ \/ events' = [events EXCEPT ![worker[w].key] = Completed(@)]
     \/ events' = [events EXCEPT ![worker[w].key] = Retried(@)]
  /\ Goto(w, "alerts")
  /\ UNCHANGED <<now, rows, created, slackUp, configured, crashes, posts, unrecorded, runs>>

-----------------------------------------------------------------------------
(* The environment.                                                        *)

\* The process dies; its transaction is rolled back and its lock released.
WorkerDies(w) ==
  /\ worker[w] # Idle
  /\ crashes < MaxCrashes
  /\ crashes' = crashes + 1
  /\ worker' = [worker EXCEPT ![w] = Idle]
  /\ unrecorded' = IF worker[w].day # NoDay THEN [unrecorded EXCEPT ![worker[w].key] = @ + 1] ELSE unrecorded
  /\ UNCHANGED <<now, rows, created, events, slackUp, configured, posts, runs>>

SlackChanges ==
  /\ slackUp' = ~slackUp
  /\ now < MaxNow
  /\ now' = now + 1
  /\ UNCHANGED <<rows, created, events, worker, configured, crashes, posts, unrecorded, runs>>

\* The owner adds the webhook; the containers start again with it.
Configure ==
  /\ ~configured
  /\ \A w \in Worker : worker[w] = Idle
  /\ configured' = TRUE
  /\ UNCHANGED <<now, rows, created, events, worker, slackUp, crashes, posts, unrecorded, runs>>

Tick ==
  /\ now < MaxNow
  /\ now' = now + 1
  /\ UNCHANGED <<rows, created, events, worker, slackUp, configured, crashes, posts, unrecorded, runs>>

WorkerStep(w) ==
  \/ \E k \in Key : SettleAlert(w, k) \/ TakeAlert(w, k)
  \/ NoAlert(w)
  \/ PostAccepted(w)
  \/ PostAnswerLost(w)
  \/ PostRefused(w)
  \/ CommitAlert(w)
  \/ \E e \in Event : TakeEvent(w, e)
  \/ NoEvent(w)
  \/ FinishEvent(w)

Next ==
  \/ \E k \in Operational : QueueSlackAlert(k)
  \/ \E k \in Trash : QueueTrashTalk(k)
  \/ \E e \in Event : EnqueueEvent(e)
  \/ \E w \in Worker : WorkerStep(w) \/ WorkerDies(w)
  \/ SlackChanges
  \/ Configure
  \/ Tick

Spec == Init /\ [][Next]_vars
\* The worker container is restarted (restart: unless-stopped), its calls
\* have a 20 second timeout and its loop never waits for anyone.
FairSpec == Spec /\ \A w \in Worker : WF_vars(WorkerStep(w))

-----------------------------------------------------------------------------
(* Properties                                                              *)

\* The rows, events and workers keep the shape the code gives them.
TypeOK ==
  /\ now \in Nat
  /\ rows \in [Key -> Row]
  /\ created \in Seq(Key)
  /\ events \in [Event -> EventRow]
  /\ worker \in [Worker -> WorkerState]
  /\ slackUp \in BOOLEAN
  /\ configured \in BOOLEAN
  /\ crashes \in Nat
  /\ posts \in [Key -> Nat]
  /\ unrecorded \in [Key -> Nat]
  /\ runs \in [Event -> Nat]

\* Slack shows an alert a second time only when an earlier message of it was
\* never recorded: its answer was lost or its worker died before the commit.
\* Neither two workers, nor a retry, nor the text fallback repeats it.
RepeatsOnlyTheUnrecorded == \A k \in Key : posts[k] <= 1 + unrecorded[k]

\* The count of delivered rows is read before the post and without a lock:
\* every worker beyond the first may exceed SLACK_DAILY_ALERT_LIMIT by one
\* alert, and nothing else may.
DailyLimitHolds ==
  \A day \in 0 .. Today : Cardinality(DeliveredOn(day)) < DailyLimit + Cardinality(Worker)

\* An event's attempt_count misses only the attempts of workers that died
\* (their lease is rolled back with them) and those still running.
AttemptsAreCounted ==
  \A e \in Event :
    runs[e] <= events[e].attempts + crashes + Cardinality({w \in Worker : worker[w].key = e})

Settled(k) ==
  \/ rows[k].status \in {"absent", "delivered", "suppressed"}
  \/ rows[k].status = "failed" /\ rows[k].attempts = AttemptLimit
  \/ rows[k].status = "blocked" /\ ~configured

\* No alert is left in the queue: it is delivered, suppressed by the daily
\* limit, out of attempts, or waits for a webhook.
AlertsSettle == \A k \in Key : (rows[k].status # "absent") ~> Settled(k)

\* docs/runbook.md: a failed delivery leaves a durable record for retry.  Once
\* Slack is back for good every alert would be delivered or over the limit.
OutageIsSurvived ==
  <>[]slackUp => \A k \in Operational :
    (rows[k].status = "pending") ~> (rows[k].status \in {"delivered", "suppressed"})
=============================================================================
