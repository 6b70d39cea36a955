-------------------------- MODULE SourceEvidence --------------------------
(***************************************************************************)
(* What a decision and a write may rest on.  The scheduler and the command *)
(* line fetch Sleeper and nflverse and write a report file when they are   *)
(* done; the heartbeat of the browser agent files what the agent saw.  The *)
(* gate reads the files one after the other and allows or refuses.  The    *)
(* league goes on meanwhile: the owner changes the roster, the NFL week    *)
(* turns, a sync breaks off, a heartbeat is late or lost.  Health rows and *)
(* incidents, by which the gate may refuse as well, are in SourceSchedule. *)
(***************************************************************************)
EXTENDS Integers

CONSTANTS
  Syncer,       \* who syncs: the scheduler and the command line
  Roster,       \* the rosters our team may have
  LastWeek,
  SleeperAge,   \* sleeper_state_max_age_minutes
  NflverseAge,  \* nflverse_context_max_age_hours
  BrowserAge,   \* browser_observation_max_age_seconds
  PeriodCache,  \* how long the agent keeps the NFL period it has fetched
  JobTime,      \* bound: the longest a sync takes
  MaxNow        \* bound of the clock

ASSUME AgesAreTimes ==
  {LastWeek, SleeperAge, NflverseAge, BrowserAge, PeriodCache, JobTime} \subseteq Nat
ASSUME SomeWeekIsPlayed == LastWeek > 0

VARIABLES
  now, week, roster,
  held, played,   \* history: when a roster or a week was last the current one
  context,        \* in-season-context.json
  nflverse,       \* nflverse-context.json
  lineup,         \* browser-lineup.json
  syncs,          \* the syncs under way
  agent,          \* the heartbeat the browser agent has sent
  gate            \* the latest check of the gate

evidenceVars == <<now, week, roster, held, played, context, nflverse, lineup, syncs, agent, gate>>
world == <<now, week, roster, held, played>>
files == <<context, nflverse, lineup>>

Week == 1 .. LastWeek

NoFile == [stamp |-> -1]
Idle == [stage |-> "idle"]

\* The first sync of a source may be done when the clock starts.
FirstFile(got) == {NoFile, [got |-> got, fetched |-> 0, stamp |-> 0]}

EvidenceInit ==
  /\ now = 0 /\ week = 1 /\ roster \in Roster
  /\ held = [r \in Roster |-> IF r = roster THEN 0 ELSE -1]
  /\ played = [w \in Week |-> IF w = week THEN 0 ELSE -1]
  /\ context \in FirstFile([week |-> week, roster |-> roster])
  /\ nflverse \in FirstFile([week |-> week])
  /\ lineup = NoFile
  /\ syncs = [s \in Syncer |-> Idle]
  /\ agent = Idle
  /\ gate = Idle

-----------------------------------------------------------------------------
(* The syncs. *)

Fetch(s, job, got) ==
  /\ syncs[s] = Idle
  /\ syncs' = [syncs EXCEPT ![s] = [stage |-> "fetched", job |-> job, got |-> got, fetched |-> now]]
  /\ UNCHANGED <<world, files, agent, gate>>

FetchSleeper(s) == Fetch(s, "context", [week |-> week, roster |-> roster])

\* sync_nflverse_context asks Sleeper for the week itself.
FetchNflverse(s) == Fetch(s, "nflverse", [week |-> week])

\* generated_at is the time of the writing, not that of the fetch.
Report(sync) == [got |-> sync.got, fetched |-> sync.fetched, stamp |-> now]

WriteReport(s) ==
  /\ syncs[s].stage = "fetched"
  /\ \/ syncs[s].job = "context" /\ context' = Report(syncs[s]) /\ UNCHANGED nflverse
     \/ syncs[s].job = "nflverse" /\ nflverse' = Report(syncs[s]) /\ UNCHANGED context
  /\ syncs' = [syncs EXCEPT ![s] = Idle]
  /\ UNCHANGED <<world, lineup, agent, gate>>

\* A sync fails or its process dies: before the report, or within write_text,
\* which has truncated the file by then.
Breaks(s) ==
  /\ syncs[s].stage = "fetched"
  /\ \/ UNCHANGED files
     \/ syncs[s].job = "context" /\ context' = NoFile /\ UNCHANGED <<nflverse, lineup>>
     \/ syncs[s].job = "nflverse" /\ nflverse' = NoFile /\ UNCHANGED <<context, lineup>>
  /\ syncs' = [syncs EXCEPT ![s] = Idle]
  /\ UNCHANGED <<world, agent, gate>>

-----------------------------------------------------------------------------
(* The browser agent looks at the team page; its heartbeat is filed when   *)
(* the page was in the week of the context.                                *)

\* The NFL period comes from a cache of the agent, the roster from the page.
Look ==
  /\ agent = Idle
  /\ \E w \in Week :
       /\ played[w] >= now - PeriodCache /\ played[w] >= 0
       /\ agent' = [stage |-> "sent", roster |-> roster, week |-> w, stamp |-> now]
  /\ UNCHANGED <<world, files, syncs, gate>>

\* _write_browser_evidence replaces the file in one step.
FileLineup ==
  /\ agent.stage = "sent"
  /\ context # NoFile /\ agent.week = context.got.week
  /\ lineup' = [week |-> agent.week, roster |-> agent.roster, stamp |-> agent.stamp]
  /\ agent' = Idle
  /\ UNCHANGED <<world, context, nflverse, syncs, gate>>

\* Refused (another week, a partial page), or never delivered.
LoseHeartbeat ==
  /\ agent.stage = "sent" /\ agent' = Idle
  /\ UNCHANGED <<world, files, syncs, gate>>

-----------------------------------------------------------------------------
(* The gate of a decision and of a write rebuilds the manager's context as *)
(* of one time from the files, one after the other.  It may also refuse    *)
(* for what is left out here: rosters are missing, the schedule is empty,  *)
(* a starter has no projection, a health row or an incident is in the way. *)

GateReadsContext ==
  /\ gate.stage # "context"
  /\ context # NoFile
  /\ gate' = [stage |-> "context", at |-> now, context |-> context]
  /\ UNCHANGED <<world, files, syncs, agent>>

\* freshness_status = "fresh"
Fresh(file, maxAge, at) == at - file.stamp <= maxAge

\* Mutant: the public roster need only be there.
RosterPresent(c) == c # NoFile

RosterCrossCheck(c) == lineup.roster = c.got.roster

\* A page that is too old or of another week counts as unobserved.
LineupObserved(c, at) ==
  /\ lineup # NoFile
  /\ Fresh(lineup, BrowserAge, at)
  /\ lineup.week = c.got.week

\* Mutant: the reports need only be there.
FilesPassAtAnyAge(c, at) ==
  /\ nflverse # NoFile
  /\ LineupObserved(c, at) /\ RosterCrossCheck(c)

FilesPass(c, at) ==
  /\ nflverse # NoFile
  /\ Fresh(c, SleeperAge, at) /\ Fresh(nflverse, NflverseAge, at)
  /\ LineupObserved(c, at) /\ RosterCrossCheck(c)

GateAllows ==
  /\ gate.stage = "context"
  /\ FilesPass(gate.context, gate.at)
  /\ gate' = [stage |-> "allowed", at |-> gate.at, context |-> gate.context, nflverse |-> nflverse]
  /\ UNCHANGED <<world, files, syncs, agent>>

GateRefuses ==
  /\ gate.stage = "context" /\ gate' = Idle
  /\ UNCHANGED <<world, files, syncs, agent>>

-----------------------------------------------------------------------------
(* The league. *)

Tick ==
  /\ now < MaxNow
  /\ \A s \in Syncer : syncs[s] # Idle => now < syncs[s].fetched + JobTime
  /\ now' = now + 1
  /\ held' = [held EXCEPT ![roster] = now + 1]
  /\ played' = [played EXCEPT ![week] = now + 1]
  /\ UNCHANGED <<week, roster, files, syncs, agent, gate>>

WeekTurns ==
  /\ week < LastWeek /\ week' = week + 1
  /\ played' = [played EXCEPT ![week + 1] = now]
  /\ UNCHANGED <<now, roster, held, files, syncs, agent, gate>>

OwnerMoves ==
  /\ \E r \in Roster : roster' = r /\ held' = [held EXCEPT ![r] = now]
  /\ UNCHANGED <<now, week, played, files, syncs, agent, gate>>

SyncNext(s) == FetchSleeper(s) \/ FetchNflverse(s) \/ WriteReport(s) \/ Breaks(s)
AgentNext == Look \/ FileLineup \/ LoseHeartbeat
GateNext == GateReadsContext \/ GateAllows \/ GateRefuses

EvidenceNext ==
  \/ \E s \in Syncer : SyncNext(s)
  \/ AgentNext \/ GateNext
  \/ Tick \/ WeekTurns \/ OwnerMoves

EvidenceSpec == EvidenceInit /\ [][EvidenceNext]_evidenceVars

-----------------------------------------------------------------------------
(* Properties. *)

Allowed == gate.stage = "allowed"

\* What the gate allows is decided on a roster our team still had when the
\* browser evidence may have been taken, and on a week that was current then:
\* the public report alone, stamped when it is written, proves neither.
AllowsOnlyTheCurrentState ==
  Allowed => /\ held[gate.context.got.roster] >= gate.at - BrowserAge
             /\ played[gate.context.got.week] >= gate.at - BrowserAge - PeriodCache

\* What the gate allows rests on answers of Sleeper and nflverse no older than
\* their ages and one sync, whoever of the two writers came last.
AllowsOnlyFreshReports ==
  Allowed => /\ gate.context.fetched >= gate.at - SleeperAge - JobTime
             /\ gate.nflverse.fetched >= gate.at - NflverseAge - JobTime
=============================================================================
