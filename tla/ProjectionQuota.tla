-------------------------- MODULE ProjectionQuota --------------------------
(***************************************************************************)
(* The quota of the FantasyPros API.  The scheduler, the command line and  *)
(* the emergency refresh of the dashboard ask for projections, each in its *)
(* own process; they share a ledger of request times under a file lock,    *)
(* and a report whose time paces them.  A caller reads the clock before it *)
(* has the lock, so the times in the ledger may be out of order.           *)
(***************************************************************************)
EXTENDS Integers, FiniteSets

CONSTANTS
  DailyLimit,   \* fantasypros_daily_request_limit
  Reserve,      \* fantasypros_request_reserve
  PerSync,      \* fantasypros_requests_per_sync
  Window,       \* 24 hours
  Slack,        \* the ten seconds by which a time may be ahead
  CacheAge,     \* 55 minutes
  Cooldown,     \* fantasypros_emergency_refresh_cooldown_minutes
  LastHour      \* bound of the clock

ASSUME QuotaIsSane ==
  /\ {DailyLimit, Reserve, PerSync, Window, Slack, CacheAge, Cooldown} \subseteq Nat
  /\ DailyLimit > 0

VARIABLES
  hour,
  ledger,    \* fantasypros-quota.json
  sent,      \* history: every request the ledger has granted
  callers,   \* the syncs under way
  report     \* generated_at of fantasypros-context.json

quotaVars == <<hour, ledger, sent, callers, report>>

Caller == {"scheduler", "operator", "dashboard"}
Away == [step |-> "away"]
NoReport == -1

QuotaInit ==
  /\ hour = 0 /\ report = NoReport
  /\ ledger = {} /\ sent = {}
  /\ callers = [c \in Caller |-> Away]

-----------------------------------------------------------------------------
\* Only the emergency refresh may use the reserve.
Limit(c) == IF c = "dashboard" THEN DailyLimit
            ELSE IF DailyLimit > Reserve THEN DailyLimit - Reserve ELSE 0

\* Mutant: a request ahead of the caller's time is dropped.
CountedUpTo(observed) == {r \in ledger : r.stamp > observed - Window /\ r.stamp <= observed}

\* _read_timestamps: a request counts while its time is within the window.
Counted(observed) == {r \in ledger : r.stamp > observed - Window /\ r.stamp <= observed + Slack}

\* fantasypros_quota_status and the reservation rewrite the ledger with what
\* they count; the times they go by are Slack old at most.
Observed == (hour - Slack) .. hour

\* A report of this week that is young enough ends a sync that is not forced;
\* the refresh has a cooldown instead.  The answer is the quota's status, by
\* which the caller sizes its sync; an earlier week's report is never cached.
Begin(c) ==
  /\ callers[c] = Away
  /\ c = "dashboard" => report = NoReport \/ hour - report >= Cooldown
  /\ \E observed \in Observed, sameWeek \in BOOLEAN :
       LET left == Limit(c) - Cardinality(Counted(observed))
       IN  /\ ledger' = Counted(observed)
           /\ IF c # "dashboard" /\ sameWeek /\ report # NoReport /\ hour - report < CacheAge
              THEN UNCHANGED callers
              ELSE callers' = [callers EXCEPT ![c] =
                     [step |-> "syncing", left |-> IF left < 0 THEN 0
                                                   ELSE IF left < PerSync THEN left ELSE PerSync]]
  /\ UNCHANGED <<hour, sent, report>>

\* The request is sent when its time is in the ledger, whatever its answer.
Request(c) ==
  /\ callers[c].step = "syncing" /\ callers[c].left > 0
  /\ \E observed \in Observed :
       LET counted == Counted(observed)
           request == [number |-> Cardinality(sent), scheduled |-> c # "dashboard", stamp |-> observed, at |-> hour]
       IN  IF Cardinality(counted) >= Limit(c)
           THEN /\ ledger' = counted
                /\ callers' = [callers EXCEPT ![c].left = 0]
                /\ UNCHANGED sent
           ELSE /\ ledger' = counted \cup {request}
                /\ callers' = [callers EXCEPT ![c].left = @ - 1]
                /\ sent' = sent \cup {request}
  /\ UNCHANGED <<hour, report>>

\* The report is written even when every request was deferred.
WriteProjections(c) ==
  /\ callers[c].step = "syncing" /\ callers[c].left = 0
  /\ report' = hour
  /\ callers' = [callers EXCEPT ![c] = Away]
  /\ UNCHANGED <<hour, ledger, sent>>

\* An answer is refused, or the process dies: no report.
GiveUp(c) ==
  /\ callers[c].step = "syncing"
  /\ callers' = [callers EXCEPT ![c] = Away]
  /\ UNCHANGED <<hour, ledger, sent, report>>

\* The dashboard shows the quota, and rewrites the ledger doing so.
ShowQuota ==
  /\ \E observed \in Observed : ledger' = Counted(observed)
  /\ UNCHANGED <<hour, sent, callers, report>>

HourPasses ==
  /\ hour < LastHour /\ hour' = hour + 1
  /\ UNCHANGED <<ledger, sent, callers, report>>

QuotaNext ==
  \/ \E c \in Caller : Begin(c) \/ Request(c) \/ WriteProjections(c) \/ GiveUp(c)
  \/ ShowQuota \/ HourPasses

QuotaSpec == QuotaInit /\ [][QuotaNext]_quotaVars

-----------------------------------------------------------------------------
(* Properties. *)

\* What FantasyPros has seen in the window, less the slack of its times.
Lately(r) == r.at > hour - Window + Slack

\* In no window does FantasyPros see more requests than a day may have, nor
\* more than the share outside the reserve from scheduled and manual syncs,
\* however the three callers overlap.
QuotaHolds ==
  /\ Cardinality({r \in sent : Lately(r)}) <= DailyLimit
  /\ Cardinality({r \in sent : Lately(r) /\ r.scheduled}) <= Limit("scheduler")
=============================================================================
