---------------------------- MODULE SourceProofs ----------------------------
(***************************************************************************)
(* What holds of the evidence, its schedule and the projection quota for   *)
(* every age, every wait and every length of a behaviour.                  *)
(***************************************************************************)
EXTENDS SourceEvidence, SourceSchedule, ProjectionQuota, FiniteSetTheorems, TLAPS

(* The evidence. *)

SleeperGot == [week : Week, roster : Roster]
NflverseGot == [week : Week]
ContextFile == [got : SleeperGot, fetched : Nat, stamp : Nat]
NflverseFile == [got : NflverseGot, fetched : Nat, stamp : Nat]
LineupFile == [week : Week, roster : Roster, stamp : Nat]
SyncUnderWay == [stage : {"fetched"}, job : {"context"}, got : SleeperGot, fetched : Nat]
                \cup [stage : {"fetched"}, job : {"nflverse"}, got : NflverseGot, fetched : Nat]
Heartbeat == [stage : {"sent"}, roster : Roster, week : Week, stamp : Nat]
GateReading == [stage : {"context"}, at : Nat, context : ContextFile]
GateAllowed == [stage : {"allowed"}, at : Nat, context : ContextFile, nflverse : NflverseFile]

EvidenceTyped ==
  /\ now \in Nat /\ week \in Week /\ roster \in Roster
  /\ held \in [Roster -> Int] /\ played \in [Week -> Int]
  /\ context \in {NoFile} \cup ContextFile
  /\ nflverse \in {NoFile} \cup NflverseFile
  /\ lineup \in {NoFile} \cup LineupFile
  /\ syncs \in [Syncer -> {Idle} \cup SyncUnderWay]
  /\ agent \in {Idle} \cup Heartbeat
  /\ gate \in {Idle} \cup GateReading \cup GateAllowed

\* Nothing was last current later than now, and the current is so now.
HistoryIsKept ==
  /\ \A r \in Roster : held[r] <= now
  /\ \A w \in Week : played[w] <= now
  /\ held[roster] = now /\ played[week] = now

\* What the page showed was so when it was seen, but for the cached period.
Seen(page) == held[page.roster] >= page.stamp /\ played[page.week] >= page.stamp - PeriodCache

PagesWereSeen ==
  /\ lineup # NoFile => Seen(lineup)
  /\ agent # Idle => Seen(agent)

\* A report is stamped within one sync of its fetch.
StampedInTime(file) == file.stamp <= file.fetched + JobTime

ReportsAreStampedInTime ==
  /\ \A s \in Syncer : syncs[s] # Idle => now <= syncs[s].fetched + JobTime
  /\ context # NoFile => StampedInTime(context)
  /\ nflverse # NoFile => StampedInTime(nflverse)
  /\ gate # Idle => StampedInTime(gate.context)

EvidenceInv ==
  /\ EvidenceTyped /\ HistoryIsKept /\ PagesWereSeen /\ ReportsAreStampedInTime
  /\ AllowsOnlyTheCurrentState /\ AllowsOnlyFreshReports

LEMMA EvidenceStarts == EvidenceInit => EvidenceInv
<1> SUFFICES ASSUME EvidenceInit PROVE EvidenceInv
  OBVIOUS
<1> USE AgesAreTimes, SomeWeekIsPlayed DEF EvidenceInit, FirstFile, Week
<1>1. EvidenceTyped
  BY DEF EvidenceTyped, NoFile, Idle, ContextFile, NflverseFile, SleeperGot, NflverseGot
<1>2. HistoryIsKept
  BY DEF HistoryIsKept
<1>3. PagesWereSeen
  BY DEF PagesWereSeen
<1>4. ReportsAreStampedInTime
  BY DEF ReportsAreStampedInTime, StampedInTime, NoFile
<1> QED
  BY <1>1, <1>2, <1>3, <1>4
     DEF EvidenceInv, AllowsOnlyTheCurrentState, AllowsOnlyFreshReports, Allowed, Idle

\* Nothing becomes less recent: what was seen stays seen.
LEMMA HistoryOnlyGrows ==
  ASSUME EvidenceTyped, HistoryIsKept, EvidenceNext \/ UNCHANGED evidenceVars
  PROVE  /\ HistoryIsKept'
         /\ \A r \in Roster : held'[r] >= held[r]
         /\ \A w \in Week : played'[w] >= played[w]
<1> USE DEF EvidenceTyped, HistoryIsKept
<1>1. CASE Tick
  BY <1>1 DEF Tick
<1>2. CASE WeekTurns
  <2>1. LastWeek \in Nat
    BY AgesAreTimes
  <2>2. week + 1 \in Week
    BY <1>2, <2>1 DEF WeekTurns, Week
  <2> QED BY <1>2, <2>2 DEF WeekTurns
<1>3. CASE OwnerMoves
  BY <1>3 DEF OwnerMoves
<1>4. CASE UNCHANGED world
  BY <1>4 DEF world
<1>5. Tick \/ WeekTurns \/ OwnerMoves \/ UNCHANGED world
  BY DEF EvidenceNext, SyncNext, AgentNext, GateNext, FetchSleeper, FetchNflverse, Fetch, WriteReport, Breaks,
         Look, FileLineup, LoseHeartbeat, GateReadsContext, GateAllows, GateRefuses, world, evidenceVars
<1> QED BY <1>1, <1>2, <1>3, <1>4, <1>5

LEMMA EvidenceStepTyped ==
  ASSUME EvidenceTyped, EvidenceNext \/ UNCHANGED evidenceVars
  PROVE  EvidenceTyped'
<1> USE DEF EvidenceTyped
<1>1. ASSUME NEW s \in Syncer, FetchSleeper(s) PROVE EvidenceTyped'
  BY <1>1 DEF FetchSleeper, Fetch, world, files, SyncUnderWay, SleeperGot
<1>2. ASSUME NEW s \in Syncer, FetchNflverse(s) PROVE EvidenceTyped'
  BY <1>2 DEF FetchNflverse, Fetch, world, files, SyncUnderWay, NflverseGot
<1>3. ASSUME NEW s \in Syncer, WriteReport(s) PROVE EvidenceTyped'
  <2>1. syncs[s] \in SyncUnderWay
    BY <1>3 DEF WriteReport, Idle
  <2>2. syncs[s].job = "context" => Report(syncs[s]) \in ContextFile
    BY <2>1 DEF SyncUnderWay, Report, ContextFile
  <2>3. syncs[s].job = "nflverse" => Report(syncs[s]) \in NflverseFile
    BY <2>1 DEF SyncUnderWay, Report, NflverseFile
  <2> HIDE DEF Report, SyncUnderWay, ContextFile, NflverseFile
  <2> QED BY <1>3, <2>2, <2>3 DEF WriteReport, world
<1>4. ASSUME NEW s \in Syncer, Breaks(s) PROVE EvidenceTyped'
  BY <1>4 DEF Breaks, world, files
<1>5. CASE AgentNext
  <2>1. CASE Look
    BY <2>1 DEF Look, world, files, Heartbeat
  <2>2. CASE FileLineup
    <3>1. agent \in Heartbeat
      BY <2>2 DEF FileLineup, Idle
    <3> QED BY <2>2, <3>1 DEF FileLineup, world, Heartbeat, LineupFile
  <2>3. CASE LoseHeartbeat
    BY <2>3 DEF LoseHeartbeat, world, files
  <2> QED BY <1>5, <2>1, <2>2, <2>3 DEF AgentNext
<1>6. CASE GateNext
  <2>1. CASE GateReadsContext
    BY <2>1 DEF GateReadsContext, world, files, GateReading
  <2>2. CASE GateAllows
    <3>1. gate \in GateReading
      BY <2>2 DEF GateAllows, Idle, GateAllowed
    <3>2. nflverse \in NflverseFile
      BY <2>2 DEF GateAllows, FilesPass, LineupObserved
    <3> QED BY <2>2, <3>1, <3>2 DEF GateAllows, world, files, GateReading, GateAllowed
  <2>3. CASE GateRefuses
    BY <2>3 DEF GateRefuses, world, files
  <2> QED BY <1>6, <2>1, <2>2, <2>3 DEF GateNext
<1>7. CASE Tick
  BY <1>7 DEF Tick, files
<1>8. CASE WeekTurns
  <2>1. LastWeek \in Nat
    BY AgesAreTimes
  <2>2. week + 1 \in Week
    BY <1>8, <2>1 DEF WeekTurns, Week
  <2> QED BY <1>8, <2>2 DEF WeekTurns, files
<1>9. CASE OwnerMoves
  BY <1>9 DEF OwnerMoves, files
<1>10. CASE UNCHANGED evidenceVars
  BY <1>10 DEF evidenceVars
<1> QED
  BY <1>1, <1>2, <1>3, <1>4, <1>5, <1>6, <1>7, <1>8, <1>9, <1>10 DEF EvidenceNext, SyncNext

LEMMA PagesStaySeen ==
  ASSUME EvidenceTyped, HistoryIsKept, PagesWereSeen, EvidenceNext \/ UNCHANGED evidenceVars
  PROVE  PagesWereSeen'
<1>1. /\ \A r \in Roster : held'[r] >= held[r] /\ held'[r] \in Int /\ held[r] \in Int
      /\ \A w \in Week : played'[w] >= played[w] /\ played'[w] \in Int /\ played[w] \in Int
  BY HistoryOnlyGrows, EvidenceStepTyped DEF EvidenceTyped
<1>2. PeriodCache \in Nat
  BY AgesAreTimes
<1>3. ASSUME NEW page, page.roster \in Roster, page.week \in Week, page.stamp \in Nat, Seen(page)
      PROVE  held'[page.roster] >= page.stamp /\ played'[page.week] >= page.stamp - PeriodCache
  BY <1>1, <1>2, <1>3 DEF Seen
<1>4. CASE Look
  <2>1. agent' \in Heartbeat /\ Seen(agent)'
    BY <1>4 DEF Look, EvidenceTyped, HistoryIsKept, Heartbeat, Seen, world
  <2>2. UNCHANGED <<lineup, held, played>>
    BY <1>4 DEF Look, files, world
  <2> QED BY <2>1, <2>2 DEF PagesWereSeen, Seen
<1>5. CASE FileLineup
  <2>1. agent \in Heartbeat /\ Seen(agent)
    BY <1>5 DEF FileLineup, EvidenceTyped, PagesWereSeen, Idle
  <2>2. agent' = Idle /\ lineup' = [week |-> agent.week, roster |-> agent.roster, stamp |-> agent.stamp]
        /\ UNCHANGED <<held, played>>
    BY <1>5 DEF FileLineup, world
  <2> QED BY <2>1, <2>2 DEF PagesWereSeen, Seen, Heartbeat
<1>6. CASE lineup' = lineup /\ (agent' = agent \/ agent' = Idle)
  <2>1. lineup # NoFile => lineup \in LineupFile /\ Seen(lineup)
    BY DEF EvidenceTyped, PagesWereSeen
  <2>2. agent # Idle => agent \in Heartbeat /\ Seen(agent)
    BY DEF EvidenceTyped, PagesWereSeen
  <2>3. lineup # NoFile => lineup.roster \in Roster /\ lineup.week \in Week /\ lineup.stamp \in Nat
    BY <2>1 DEF LineupFile
  <2>4. agent # Idle => agent.roster \in Roster /\ agent.week \in Week /\ agent.stamp \in Nat
    BY <2>2 DEF Heartbeat
  <2>5. lineup' # NoFile => Seen(lineup)'
    BY <1>3, <1>6, <2>1, <2>3 DEF Seen
  <2>6. agent' # Idle => Seen(agent)'
    BY <1>3, <1>6, <2>2, <2>4 DEF Seen
  <2> QED BY <2>5, <2>6 DEF PagesWereSeen
<1>7. Look \/ FileLineup \/ (lineup' = lineup /\ (agent' = agent \/ agent' = Idle))
  BY DEF EvidenceNext, SyncNext, AgentNext, GateNext, FetchSleeper, FetchNflverse, Fetch, WriteReport, Breaks,
         LoseHeartbeat, GateReadsContext, GateAllows, GateRefuses, Tick, WeekTurns, OwnerMoves, files, evidenceVars
<1> QED BY <1>4, <1>5, <1>6, <1>7

LEMMA ReportsStayStampedInTime ==
  ASSUME EvidenceTyped, ReportsAreStampedInTime, EvidenceNext \/ UNCHANGED evidenceVars
  PROVE  ReportsAreStampedInTime'
<1> USE DEF ReportsAreStampedInTime, StampedInTime
<1>0. JobTime \in Nat
  BY AgesAreTimes
<1>1. ASSUME NEW s \in Syncer, NEW job, NEW got, Fetch(s, job, got)
      PROVE  ReportsAreStampedInTime'
  BY <1>0, <1>1 DEF Fetch, world, files, EvidenceTyped
<1>2. ASSUME NEW s \in Syncer, WriteReport(s) PROVE ReportsAreStampedInTime'
  <2>1. now <= syncs[s].fetched + JobTime
    BY <1>2 DEF WriteReport, Idle
  <2> QED BY <1>2, <2>1 DEF WriteReport, Report, world, EvidenceTyped
<1>3. ASSUME NEW s \in Syncer, Breaks(s) PROVE ReportsAreStampedInTime'
  BY <1>3 DEF Breaks, world, files, EvidenceTyped
<1>4. CASE GateReadsContext
  BY <1>4 DEF GateReadsContext, world, files
<1>5. CASE GateAllows
  BY <1>5 DEF GateAllows, world, files, Idle
<1>6. CASE GateRefuses
  BY <1>6 DEF GateRefuses, world, files
<1>7. CASE Tick
  <2>1. \A s \in Syncer : syncs[s] # Idle => syncs[s].fetched \in Nat
    BY DEF EvidenceTyped, SyncUnderWay
  <2>2. \A s \in Syncer : syncs[s] # Idle => now' <= syncs[s].fetched + JobTime
    BY <1>0, <1>7, <2>1 DEF Tick, EvidenceTyped
  <2> QED BY <1>7, <2>2 DEF Tick, files
<1>8. CASE AgentNext \/ WeekTurns \/ OwnerMoves \/ UNCHANGED evidenceVars
  BY <1>8 DEF AgentNext, Look, FileLineup, LoseHeartbeat, WeekTurns, OwnerMoves, world, files, evidenceVars
<1> QED
  BY <1>1, <1>2, <1>3, <1>4, <1>5, <1>6, <1>7, <1>8
     DEF EvidenceNext, SyncNext, GateNext, FetchSleeper, FetchNflverse

LEMMA GateStaysRight ==
  ASSUME EvidenceInv, EvidenceNext \/ UNCHANGED evidenceVars
  PROVE  AllowsOnlyTheCurrentState' /\ AllowsOnlyFreshReports'
<1>0. {SleeperAge, NflverseAge, BrowserAge, PeriodCache, JobTime} \subseteq Nat
  BY AgesAreTimes
<1>1. /\ \A r \in Roster : held'[r] >= held[r] /\ held'[r] \in Int /\ held[r] \in Int
      /\ \A w \in Week : played'[w] >= played[w] /\ played'[w] \in Int /\ played[w] \in Int
  BY HistoryOnlyGrows, EvidenceStepTyped DEF EvidenceTyped, EvidenceInv
<1>2. CASE GateAllows
  <2>1. gate \in GateReading /\ gate # Idle
    BY <1>2 DEF GateAllows, Idle, GateAllowed, EvidenceInv, EvidenceTyped
  <2>2. PICK c \in ContextFile : c = gate.context /\ FilesPass(c, gate.at) /\ StampedInTime(c)
    BY <1>2, <2>1 DEF GateAllows, GateReading, EvidenceInv, ReportsAreStampedInTime
  <2>3. PICK n \in NflverseFile : n = nflverse /\ StampedInTime(n)
    BY <2>2 DEF FilesPass, LineupObserved, EvidenceInv, EvidenceTyped, ReportsAreStampedInTime
  <2>4. PICK page \in LineupFile : page = lineup /\ Seen(page)
    BY <2>2 DEF FilesPass, LineupObserved, EvidenceInv, EvidenceTyped, PagesWereSeen
  <2>5. PICK at \in Nat : at = gate.at
    BY <2>1 DEF GateReading
  <2>6. gate' = [stage |-> "allowed", at |-> at, context |-> c, nflverse |-> n] /\ UNCHANGED <<held, played>>
    BY <1>2, <2>2, <2>3, <2>5 DEF GateAllows, world
  <2>7. /\ at - c.stamp <= SleeperAge /\ at - n.stamp <= NflverseAge /\ at - page.stamp <= BrowserAge
        /\ page.week = c.got.week /\ page.roster = c.got.roster
    BY <2>2, <2>3, <2>4, <2>5 DEF FilesPass, LineupObserved, Fresh, RosterCrossCheck
  <2>8. c.fetched >= at - SleeperAge - JobTime /\ n.fetched >= at - NflverseAge - JobTime
    BY <1>0, <2>2, <2>3, <2>5, <2>7 DEF StampedInTime, ContextFile, NflverseFile
  <2>9. held[page.roster] >= at - BrowserAge /\ played[page.week] >= at - BrowserAge - PeriodCache
    BY <1>0, <1>1, <2>4, <2>5, <2>7 DEF Seen, LineupFile
  <2> QED BY <2>6, <2>7, <2>8, <2>9 DEF AllowsOnlyTheCurrentState, AllowsOnlyFreshReports, Allowed
<1>3. CASE UNCHANGED gate
  <2>1. CASE Allowed
    <3>1. PICK g \in GateAllowed : g = gate
      BY <2>1 DEF Allowed, EvidenceInv, EvidenceTyped, Idle, GateReading
    <3>2. g.context.got.roster \in Roster /\ g.context.got.week \in Week /\ g.at \in Nat
      BY <3>1 DEF GateAllowed, ContextFile, SleeperGot
    <3>3. /\ held[g.context.got.roster] >= g.at - BrowserAge
          /\ played[g.context.got.week] >= g.at - BrowserAge - PeriodCache
          /\ g.context.fetched >= g.at - SleeperAge - JobTime
          /\ g.nflverse.fetched >= g.at - NflverseAge - JobTime
      BY <2>1, <3>1 DEF EvidenceInv, AllowsOnlyTheCurrentState, AllowsOnlyFreshReports
    <3>4. /\ held'[g.context.got.roster] >= g.at - BrowserAge
          /\ played'[g.context.got.week] >= g.at - BrowserAge - PeriodCache
      BY <1>0, <1>1, <3>2, <3>3
    <3> QED BY <1>3, <3>1, <3>3, <3>4 DEF AllowsOnlyTheCurrentState, AllowsOnlyFreshReports
  <2>2. CASE ~Allowed
    BY <1>3, <2>2 DEF Allowed, AllowsOnlyTheCurrentState, AllowsOnlyFreshReports
  <2> QED BY <2>1, <2>2
<1>4. CASE GateReadsContext \/ GateRefuses
  BY <1>4 DEF GateReadsContext, GateRefuses, Idle, Allowed, AllowsOnlyTheCurrentState, AllowsOnlyFreshReports
<1>5. GateAllows \/ UNCHANGED gate \/ GateReadsContext \/ GateRefuses
  BY DEF EvidenceNext, SyncNext, AgentNext, GateNext, FetchSleeper, FetchNflverse, Fetch, WriteReport, Breaks,
         Look, FileLineup, LoseHeartbeat, Tick, WeekTurns, OwnerMoves, evidenceVars
<1> QED BY <1>2, <1>3, <1>4, <1>5

LEMMA EvidenceInvHolds == EvidenceSpec => []EvidenceInv
<1>1. EvidenceInv /\ [EvidenceNext]_evidenceVars => EvidenceInv'
  BY HistoryOnlyGrows, EvidenceStepTyped, PagesStaySeen, ReportsStayStampedInTime, GateStaysRight DEF EvidenceInv
<1> QED BY EvidenceStarts, <1>1, PTL DEF EvidenceSpec

\* Whatever the ages, the caches and the length of a sync, the gate allows a
\* decision or a write only on a roster and a week that the browser evidence,
\* young enough, has confirmed (evidence.py, main.py preflight).
THEOREM GateAllowsOnlyTheCurrentState == EvidenceSpec => []AllowsOnlyTheCurrentState
BY EvidenceInvHolds, PTL DEF EvidenceInv

\* The stamp of a report hides at most the length of one sync from the gate,
\* however the writers of the report overlap.
THEOREM GateAllowsOnlyFreshReports == EvidenceSpec => []AllowsOnlyFreshReports
BY EvidenceInvHolds, PTL DEF EvidenceInv

-----------------------------------------------------------------------------
(* The schedule. *)

LoopUnderWay ==
  [stage : {"job", "ready", "blocked"}, began : Nat, profile : Profile, since : Nat, job : 1 .. 4]

ScheduleTyped ==
  /\ clock \in Nat /\ troubled \in Nat /\ troubled <= clock
  /\ phase \in {"normal", "kickoff"} /\ plan \in {"ready", "blocked"}
  /\ due \in [Job -> Nat]
  /\ loop \in {Rest} \cup LoopUnderWay
  /\ health \in [Source -> [ok : BOOLEAN, at : Nat]]
  /\ incidents \subseteq Job

\* The waits that the bound is made of.
PlanWait == Every["normal"]["expert"]
NflverseWait == Every["degraded"]["nflverse"]

SleeperBad == ~health["sleeper"].ok \/ "sleeper" \in incidents
NflverseBad == ~health["nflverse"].ok

\* Only a plan takes time, and one that does found its evidence in order.
PassesAreInstant ==
  /\ loop # Rest => loop.began <= clock
  /\ loop.stage \in {"job", "blocked"} => loop.began = clock
  /\ loop.stage \in {"ready", "blocked"} => Running = "expert"
  /\ loop.stage = "ready" => ~SleeperBad /\ ~NflverseBad

\* The next plan is never further off than its longest wait.
PlanIsNear == due["expert"] <= clock + PlanWait

SleeperComesBack == SleeperBad => clock <= troubled + PlanWait /\ due["sleeper"] <= troubled + PlanWait

\* Until a plan has seen that nflverse fails there is a plan to come, and from
\* then on the degraded profile has nflverse come soon.
NflverseComesBack ==
  NflverseBad =>
    \/ clock <= troubled + PlanWait /\ (plan = "blocked" \/ due["expert"] <= troubled + PlanWait)
    \/ /\ plan = "blocked"
       /\ clock <= troubled + Recovery /\ due["nflverse"] <= troubled + Recovery

ScheduleInv == ScheduleTyped /\ PassesAreInstant /\ PlanIsNear /\ SleeperComesBack /\ NflverseComesBack

LEMMA WaitsTyped ==
  /\ PlanWait \in Nat /\ NflverseWait \in Nat /\ Recovery = PlanWait + NflverseWait
  /\ \A p \in Profile : \A j \in Job : Every[p][j] \in Nat
  /\ \A p \in Profile : Every[p]["expert"] <= PlanWait /\ Every[p]["sleeper"] <= PlanWait
BY WaitsArePositive, PlansAreRarest DEF PlanWait, NflverseWait, Recovery, Profile, Job

\* What the next job of a pass can be.
LEMMA GoOnFinds ==
  ASSUME NEW from \in 1 .. 5, NEW began \in Nat, NEW p \in Profile, NEW dues, clock \in Nat,
         GoOn(from, began, p, dues)
  PROVE  \/ loop' = Rest
         \/ \E i \in from .. 4 :
              loop' = [stage |-> "job", began |-> began, profile |-> p, since |-> clock, job |-> i]
<1> DEFINE later == {i \in from .. 4 : dues[JobOrder[i]] <= began}
<1>1. Len(JobOrder) = 4
  BY DEF JobOrder
<1>2. CASE later = {}
  BY <1>1, <1>2 DEF GoOn
<1>3. CASE later # {}
  <2>1. later \subseteq from .. 4 /\ later \subseteq 1 .. 4
    OBVIOUS
  <2>2. \E i \in later : \A k \in later : i <= k
    <3> HIDE DEF later
    <3>1. CASE 1 \in later
      BY <2>1, <3>1
    <3>2. CASE 1 \notin later /\ 2 \in later
      BY <2>1, <3>2
    <3>3. CASE 1 \notin later /\ 2 \notin later /\ 3 \in later
      BY <2>1, <3>3
    <3>4. CASE 1 \notin later /\ 2 \notin later /\ 3 \notin later
      <4>1. PICK k \in later : TRUE
        BY <1>3
      <4>2. \A m \in later : m = 4
        BY <2>1, <3>4
      <4> QED BY <4>1, <4>2
    <3> QED BY <3>1, <3>2, <3>3, <3>4
  <2>3. loop' = [stage |-> "job", began |-> began, profile |-> p, since |-> clock,
                 job |-> CHOOSE i \in later : \A k \in later : i <= k]
    BY <1>1, <1>3 DEF GoOn
  <2>4. (CHOOSE i \in later : \A k \in later : i <= k) \in from .. 4
    <3> HIDE DEF later
    <3> QED BY <2>1, <2>2
  <2> QED BY <2>3, <2>4
<1> QED BY <1>2, <1>3

\* A job that ends hands over to the next one of the same instant, or rests.
LEMMA FinishGoesOn ==
  ASSUME ScheduleTyped, PassesAreInstant, loop # Rest, NEW wait \in Nat, Finish(wait)
  PROVE  /\ Running \in Job /\ loop.began \in Nat /\ loop.began <= clock
         /\ due' = [due EXCEPT ![Running] = loop.began + wait] /\ due' \in [Job -> Nat]
         /\ loop' = Rest \/ (loop' \in LoopUnderWay /\ loop'.stage = "job" /\ loop'.began = clock)
<1>1. loop \in LoopUnderWay /\ clock \in Nat /\ due \in [Job -> Nat]
  BY DEF ScheduleTyped
<1>2. /\ loop.began \in Nat /\ loop.profile \in Profile /\ loop.job \in 1 .. 4
      /\ loop.stage \in {"job", "ready", "blocked"}
  BY <1>1 DEF LoopUnderWay
<1>3. Running \in Job /\ (Running = "expert" => loop.job = 4)
  BY <1>2 DEF Running, JobOrder, Job
<1>4. loop.began <= clock /\ (loop.stage # "job" => loop.job = 4) /\ (loop.stage = "job" => loop.began = clock)
  BY <1>2, <1>3 DEF PassesAreInstant
<1>5. due' = [due EXCEPT ![Running] = loop.began + wait] /\ due' \in [Job -> Nat]
  BY <1>1, <1>2, <1>3 DEF Finish
<1>6. GoOn(loop.job + 1, loop.began, loop.profile, due')
  BY DEF Finish
<1>7. loop.job + 1 \in 1 .. 5
  BY <1>2
<1>8. PICK f \in 1 .. 5, b \in Nat, p \in Profile :
        f = loop.job + 1 /\ b = loop.began /\ p = loop.profile /\ GoOn(f, b, p, due')
  BY <1>2, <1>6, <1>7
<1>9. \/ loop' = Rest
      \/ \E i \in f .. 4 :
           loop' = [stage |-> "job", began |-> b, profile |-> p, since |-> clock, job |-> i]
  BY <1>1, <1>8, GoOnFinds
<1>10. loop' = Rest \/ (loop' \in LoopUnderWay /\ loop'.stage = "job" /\ loop'.began = clock)
  <2>1. CASE loop' # Rest
    <3>1. PICK i \in f .. 4 :
            loop' = [stage |-> "job", began |-> b, profile |-> p, since |-> clock, job |-> i]
      BY <1>9, <2>1
    <3>2. loop.stage = "job"
      BY <1>2, <1>4, <1>8
    <3> QED BY <1>1, <1>2, <1>4, <1>8, <3>1, <3>2 DEF LoopUnderWay
  <2> QED BY <2>1
<1> QED BY <1>3, <1>2, <1>4, <1>5, <1>10

\* Where the loop stands matters to the rest of the invariant only there.
LEMMA InstantAgain ==
  ASSUME loop' = Rest \/ (loop' \in LoopUnderWay /\ loop'.stage = "job" /\ loop'.began = clock),
         clock \in Nat, clock' = clock
  PROVE  PassesAreInstant'
BY DEF PassesAreInstant, Rest

LEMMA ScheduleStarts == ScheduleInit => ScheduleInv
<1> SUFFICES ASSUME ScheduleInit PROVE ScheduleInv
  OBVIOUS
<1> USE WaitsTyped DEF ScheduleInit
<1>1. ScheduleTyped
  BY DEF ScheduleTyped, Job
<1>2. PassesAreInstant
  BY DEF PassesAreInstant, Rest
<1>3. PlanIsNear /\ SleeperComesBack /\ NflverseComesBack
  BY DEF PlanIsNear, SleeperComesBack, NflverseComesBack, Job
<1> QED BY <1>1, <1>2, <1>3 DEF ScheduleInv

LEMMA WakeKeeps ==
  ASSUME ScheduleInv, Wake
  PROVE  ScheduleInv'
<1> USE DEF ScheduleInv
<1>1. PICK p \in Profile : p = CurrentProfile
  BY DEF CurrentProfile, Profile, ScheduleTyped
<1>2. /\ due' \in [Job -> Nat]
      /\ \A j \in Job : due'[j] = due[j] \/ (due'[j] = clock /\ due[j] > clock) \/ (j = "expert" /\ due'[j] = clock)
  <2>1. \A j \in Job : Every[p][j] \in Nat
    BY WaitsTyped
  <2>2. Clamped(p) \in [Job -> Nat]
    BY <2>1 DEF Clamped, ScheduleTyped
  <2>3. ASSUME NEW j \in Job
        PROVE  Clamped(p)[j] = due[j] \/ (Clamped(p)[j] = clock /\ due[j] > clock)
    <3>1. Every[p][j] \in Nat /\ due[j] \in Nat /\ clock \in Nat
      BY <2>1 DEF ScheduleTyped
    <3>2. due[j] > clock + Every[p][j] => due[j] > clock
      BY <3>1
    <3> QED BY <3>2 DEF Clamped
  <2>4. due' = Clamped(p) \/ due' = [Clamped(p) EXCEPT !["expert"] = clock]
    BY <1>1 DEF Wake
  <2> HIDE DEF Clamped
  <2> QED BY <2>2, <2>3, <2>4 DEF ScheduleTyped, Job
<1>3. loop' = Rest \/ (loop' \in LoopUnderWay /\ loop'.stage = "job" /\ loop'.began = clock)
  <2>1. GoOn(1, clock, p, due')
    BY <1>1 DEF Wake
  <2>2. clock \in Nat
    BY DEF ScheduleTyped
  <2>3. \/ loop' = Rest
        \/ \E i \in 1 .. 4 :
             loop' = [stage |-> "job", began |-> clock, profile |-> p, since |-> clock, job |-> i]
    BY <2>1, <2>2, GoOnFinds
  <2> QED BY <2>2, <2>3 DEF LoopUnderWay
<1>4. UNCHANGED <<clock, phase, health, incidents, plan, troubled>>
  BY DEF Wake
<1>5. ScheduleTyped'
  BY <1>2, <1>3, <1>4 DEF ScheduleTyped
<1>6. PassesAreInstant'
  BY <1>3, <1>4, InstantAgain DEF ScheduleTyped
<1>7. PlanIsNear'
  BY <1>2, <1>4, WaitsTyped DEF PlanIsNear, ScheduleTyped, Job
<1>8. SleeperComesBack' /\ NflverseComesBack'
  <2>1. SleeperBad' = SleeperBad /\ NflverseBad' = NflverseBad
    BY <1>4 DEF SleeperBad, NflverseBad
  <2>2. due'["sleeper"] <= due["sleeper"] /\ due'["nflverse"] <= due["nflverse"]
        /\ (due'["expert"] <= due["expert"] \/ due'["expert"] = clock)
    BY <1>2 DEF ScheduleTyped, Job
  <2>3. /\ {clock, troubled, PlanWait, NflverseWait} \subseteq Nat /\ Recovery = PlanWait + NflverseWait
        /\ \A j \in Job : due[j] \in Nat /\ due'[j] \in Nat
    BY <1>2, WaitsTyped DEF ScheduleTyped
  <2> HIDE DEF SleeperBad, NflverseBad, Recovery, PlanWait, NflverseWait
  <2>4. Recovery' = Recovery /\ PlanWait' = PlanWait
    BY DEF Recovery, PlanWait
  <2> QED BY <1>4, <2>1, <2>2, <2>3, <2>4 DEF SleeperComesBack, NflverseComesBack, Job
<1> QED BY <1>5, <1>6, <1>7, <1>8

LEMMA SyncSucceedsKeeps ==
  ASSUME ScheduleInv, SyncSucceeds
  PROVE  ScheduleInv'
<1> USE DEF ScheduleInv
<1>1. loop # Rest /\ Running # "expert" /\ UNCHANGED <<clock, phase, plan, troubled>>
  BY DEF SyncSucceeds, Rest
<1>2. PICK wait \in Nat : wait = Every[loop.profile][Running] /\ Finish(wait)
  <2>1. loop.profile \in Profile /\ Running \in Job
    BY <1>1 DEF ScheduleTyped, LoopUnderWay, Running, JobOrder, Job
  <2> QED BY <2>1, WaitsTyped DEF SyncSucceeds
<1>3. /\ Running \in Job /\ loop.began \in Nat
      /\ due' = [due EXCEPT ![Running] = loop.began + wait] /\ due' \in [Job -> Nat]
      /\ loop' = Rest \/ (loop' \in LoopUnderWay /\ loop'.stage = "job" /\ loop'.began = clock)
  BY <1>1, <1>2, FinishGoesOn
<1>4. Running # "season" => Running \in Source
  BY <1>1, <1>3 DEF Job, Source
<1>5. ScheduleTyped'
  BY <1>1, <1>3, <1>4 DEF ScheduleTyped, SyncSucceeds, HealthAfter, IncidentsAfter
<1>6. PassesAreInstant'
  BY <1>1, <1>3, InstantAgain DEF ScheduleTyped
<1>7. PlanIsNear'
  BY <1>1, <1>3 DEF PlanIsNear, PlanWait, Job, ScheduleTyped
<1>8. SleeperComesBack'
  <2>1. CASE Running = "sleeper"
    BY <2>1, <1>4 DEF SyncSucceeds, HealthAfter, IncidentsAfter, SleeperComesBack, SleeperBad, ScheduleTyped
  <2>2. CASE Running # "sleeper"
    <3>1. SleeperBad' => SleeperBad
      BY <2>2, <1>4 DEF SyncSucceeds, HealthAfter, IncidentsAfter, SleeperBad, ScheduleTyped, Source
    <3>2. due'["sleeper"] = due["sleeper"]
      BY <2>2, <1>3 DEF Job, ScheduleTyped
    <3> QED BY <1>1, <3>1, <3>2 DEF SleeperComesBack, PlanWait
  <2> QED BY <2>1, <2>2
<1>9. NflverseComesBack'
  <2>1. CASE Running = "nflverse"
    BY <2>1, <1>4 DEF SyncSucceeds, HealthAfter, IncidentsAfter, NflverseComesBack, NflverseBad, ScheduleTyped
  <2>2. CASE Running # "nflverse"
    <3>1. NflverseBad' => NflverseBad
      BY <2>2, <1>4 DEF SyncSucceeds, HealthAfter, IncidentsAfter, NflverseBad, ScheduleTyped, Source
    <3>2. due'["nflverse"] = due["nflverse"] /\ due'["expert"] = due["expert"]
      BY <2>2, <1>1, <1>3 DEF Job, ScheduleTyped
    <3> QED BY <1>1, <3>1, <3>2 DEF NflverseComesBack, PlanWait, Recovery
  <2> QED BY <2>1, <2>2
<1> QED BY <1>5, <1>6, <1>7, <1>8, <1>9

\* After a failure the time allowed starts again, and so do the waits.
LEMMA TroubleStartsAgain ==
  ASSUME ScheduleTyped, ScheduleTyped', PlanIsNear', clock' = clock, troubled' = clock,
         due'["sleeper"] <= clock + PlanWait \/ ~SleeperBad'
  PROVE  SleeperComesBack' /\ NflverseComesBack'
<1>1. PlanWait \in Nat /\ PlanWait' = PlanWait
  BY WaitsTyped DEF PlanWait
<1>2. clock \in Nat /\ due'["expert"] <= clock + PlanWait
  BY <1>1 DEF ScheduleTyped, PlanIsNear
<1>3. clock' <= troubled' + PlanWait'
  BY <1>1, <1>2
<1> QED BY <1>1, <1>2, <1>3 DEF SleeperComesBack, NflverseComesBack

LEMMA SyncFailsKeeps ==
  ASSUME ScheduleInv, SyncFails
  PROVE  ScheduleInv'
<1> USE DEF ScheduleInv
<1>1. loop # Rest /\ loop.stage = "job" /\ Running # "expert" /\ UNCHANGED <<clock, phase, plan>> /\ troubled' = clock
  BY DEF SyncFails, Rest
<1>2. PICK wait \in Nat : wait = Every[loop.profile][Running] /\ Finish(wait)
  <2>1. loop.profile \in Profile /\ Running \in Job
    BY <1>1 DEF ScheduleTyped, LoopUnderWay, Running, JobOrder, Job
  <2> QED BY <2>1, WaitsTyped DEF SyncFails
<1>3. /\ Running \in Job /\ loop.began \in Nat /\ loop.began <= clock
      /\ due' = [due EXCEPT ![Running] = loop.began + wait] /\ due' \in [Job -> Nat]
      /\ loop' = Rest \/ (loop' \in LoopUnderWay /\ loop'.stage = "job" /\ loop'.began = clock)
  BY <1>1, <1>2, FinishGoesOn
<1>4. Running # "season" => Running \in Source
  BY <1>1, <1>3 DEF Job, Source
<1>5. ScheduleTyped'
  <2>1. health' \in [Source -> [ok : BOOLEAN, at : Nat]] /\ incidents' \subseteq Job
    <3>1. CASE UNCHANGED <<health, incidents>>
      BY <3>1 DEF ScheduleTyped
    <3>2. CASE health' = HealthAfter(FALSE) /\ incidents' = IncidentsAfter(FALSE)
      <4>1. incidents' \subseteq Job
        BY <1>3, <3>2 DEF ScheduleTyped, IncidentsAfter
      <4>2. health' \in [Source -> [ok : BOOLEAN, at : Nat]]
        BY <1>4, <3>2 DEF ScheduleTyped, HealthAfter
      <4> QED BY <4>1, <4>2
    <3> QED BY <3>1, <3>2 DEF SyncFails
  <2> QED BY <1>1, <1>3, <2>1 DEF ScheduleTyped
<1>6. PassesAreInstant'
  BY <1>1, <1>3, InstantAgain DEF ScheduleTyped
<1>7. PlanIsNear'
  BY <1>1, <1>3 DEF PlanIsNear, PlanWait, Job, ScheduleTyped
<1>8. due'["sleeper"] <= clock + PlanWait \/ ~SleeperBad'
  <2>1. CASE Running = "sleeper"
    <3>1. loop.profile \in Profile
      BY <1>1 DEF ScheduleTyped, LoopUnderWay
    <3>2. wait <= PlanWait /\ PlanWait \in Nat /\ clock \in Nat
      BY <1>2, <2>1, <3>1, WaitsTyped DEF ScheduleTyped
    <3>3. due'["sleeper"] = loop.began + wait
      BY <1>3, <2>1 DEF ScheduleTyped
    <3> QED BY <1>3, <3>2, <3>3
  <2>2. CASE Running # "sleeper"
    <3>1. SleeperBad' => SleeperBad
      BY <2>2, <1>4 DEF SyncFails, HealthAfter, IncidentsAfter, SleeperBad, ScheduleTyped, Source
    <3>2. due'["sleeper"] = due["sleeper"] /\ due["sleeper"] \in Nat
      BY <2>2, <1>3 DEF Job, ScheduleTyped
    <3>3. troubled <= clock /\ troubled \in Nat /\ clock \in Nat /\ PlanWait \in Nat
      BY WaitsTyped DEF ScheduleTyped
    <3>4. SleeperBad => due["sleeper"] <= troubled + PlanWait
      BY DEF SleeperComesBack
    <3> QED BY <3>1, <3>2, <3>3, <3>4
  <2> QED BY <2>1, <2>2
<1> QED BY <1>1, <1>5, <1>6, <1>7, <1>8, TroubleStartsAgain

LEMMA PlanJudgesKeeps ==
  ASSUME ScheduleInv, PlanJudges
  PROVE  ScheduleInv'
<1> USE DEF ScheduleInv
<1>1. PICK verdict \in {"ready", "blocked"} :
        (EvidenceBlocks => verdict = "blocked") /\ loop' = [loop EXCEPT !.stage = verdict]
  BY DEF PlanJudges
<1>2. loop.stage = "job" /\ Running = "expert" /\ loop \in LoopUnderWay
      /\ UNCHANGED <<clock, phase, due, health, incidents, plan, troubled>>
  BY DEF PlanJudges, ScheduleTyped, Rest
<1>3. SleeperBad \/ NflverseBad => EvidenceBlocks
  BY DEF SleeperBad, NflverseBad, EvidenceBlocks, Source
<1>4. /\ loop' \in LoopUnderWay /\ loop'.stage = verdict /\ loop'.began = loop.began
      /\ loop'.job = loop.job
  BY <1>1, <1>2 DEF LoopUnderWay
<1>5. ScheduleTyped'
  BY <1>2, <1>4 DEF ScheduleTyped
<1>6. PassesAreInstant'
  <2>1. loop.began = clock /\ clock \in Nat
    BY <1>2 DEF PassesAreInstant, ScheduleTyped
  <2>2. Running' = "expert"
    BY <1>2, <1>4 DEF Running
  <2>3. verdict = "ready" => ~SleeperBad' /\ ~NflverseBad'
    BY <1>1, <1>2, <1>3 DEF SleeperBad, NflverseBad
  <2> QED BY <1>2, <1>4, <2>1, <2>2, <2>3 DEF PassesAreInstant
<1>7. PlanIsNear' /\ SleeperComesBack' /\ NflverseComesBack'
  BY <1>2 DEF PlanIsNear, SleeperComesBack, NflverseComesBack, SleeperBad, NflverseBad, PlanWait, Recovery
<1> QED BY <1>5, <1>6, <1>7

LEMMA PlanIsWrittenKeeps ==
  ASSUME ScheduleInv, PlanIsWritten
  PROVE  ScheduleInv'
<1> USE DEF ScheduleInv
<1>1. /\ loop.stage \in {"ready", "blocked"} /\ loop # Rest /\ Running = "expert"
      /\ plan' = loop.stage /\ UNCHANGED <<clock, phase, health, incidents, troubled>>
  BY DEF PlanIsWritten, Rest, PassesAreInstant
<1>2. PICK wait \in Nat : wait <= PlanWait /\ Finish(wait)
  <2>1. loop.profile \in Profile
    BY <1>1 DEF ScheduleTyped, LoopUnderWay
  <2>2. Every[loop.profile]["expert"] \in Nat /\ Every[loop.profile]["expert"] <= PlanWait /\ PlanWait \in Nat
    BY <2>1, WaitsTyped DEF Job
  <2>3. PICK wait \in {Every[loop.profile]["expert"], ExpertRetry} :
          wait <= Every[loop.profile]["expert"] /\ Finish(wait)
    BY DEF PlanIsWritten
  <2>4. wait \in Nat /\ wait <= PlanWait
    BY <2>2, <2>3, WaitsArePositive
  <2> QED BY <2>3, <2>4
<1>3. /\ loop.began \in Nat /\ loop.began <= clock
      /\ due' = [due EXCEPT !["expert"] = loop.began + wait] /\ due' \in [Job -> Nat]
      /\ loop' = Rest \/ (loop' \in LoopUnderWay /\ loop'.stage = "job" /\ loop'.began = clock)
  BY <1>1, <1>2, FinishGoesOn
<1>4. ScheduleTyped'
  BY <1>1, <1>3 DEF ScheduleTyped
<1>5. PassesAreInstant'
  BY <1>1, <1>3, InstantAgain DEF ScheduleTyped
<1>6. /\ due'["expert"] = loop.began + wait
      /\ due'["sleeper"] = due["sleeper"] /\ due'["nflverse"] = due["nflverse"]
  BY <1>3 DEF ScheduleTyped, Job
<1>7. PlanIsNear'
  <2>1. clock \in Nat /\ PlanWait \in Nat /\ PlanWait' = PlanWait
    BY WaitsTyped DEF ScheduleTyped, PlanWait
  <2> QED BY <1>1, <1>2, <1>3, <1>6, <2>1 DEF PlanIsNear
<1>8. SleeperBad' = SleeperBad /\ NflverseBad' = NflverseBad
  BY <1>1 DEF SleeperBad, NflverseBad
<1>9. SleeperComesBack'
  BY <1>1, <1>6, <1>8 DEF SleeperComesBack, PlanWait
<1>10. NflverseBad => plan' = "blocked"
  BY <1>1 DEF PassesAreInstant
<1>11. NflverseComesBack'
  BY <1>1, <1>6, <1>8, <1>10 DEF NflverseComesBack, PlanWait, Recovery
<1> QED BY <1>4, <1>5, <1>7, <1>9, <1>11

LEMMA PlanFailsKeeps ==
  ASSUME ScheduleInv, PlanFails
  PROVE  ScheduleInv'
<1> USE DEF ScheduleInv
<1>1. /\ loop.stage # "rest" /\ loop # Rest /\ Running = "expert"
      /\ troubled' = clock /\ UNCHANGED <<clock, phase, health, incidents, plan>>
  BY DEF PlanFails, Rest
<1>2. PICK wait \in Nat : wait <= PlanWait /\ Finish(wait)
  <2>1. loop.profile \in Profile
    BY <1>1 DEF ScheduleTyped, LoopUnderWay
  <2> QED BY <2>1, WaitsTyped DEF PlanFails, Job
<1>3. /\ loop.began \in Nat /\ loop.began <= clock
      /\ due' = [due EXCEPT !["expert"] = loop.began + wait] /\ due' \in [Job -> Nat]
      /\ loop' = Rest \/ (loop' \in LoopUnderWay /\ loop'.stage = "job" /\ loop'.began = clock)
  BY <1>1, <1>2, FinishGoesOn
<1>4. ScheduleTyped'
  BY <1>1, <1>3 DEF ScheduleTyped
<1>5. PassesAreInstant'
  BY <1>1, <1>3, InstantAgain DEF ScheduleTyped
<1>6. due'["expert"] = loop.began + wait /\ due'["sleeper"] = due["sleeper"]
  BY <1>3 DEF ScheduleTyped, Job
<1>7. /\ {clock, troubled, PlanWait} \subseteq Nat /\ PlanWait' = PlanWait /\ troubled <= clock
      /\ due["sleeper"] \in Nat
  BY WaitsTyped DEF ScheduleTyped, PlanWait, Job
<1>8. PlanIsNear'
  BY <1>1, <1>2, <1>3, <1>6, <1>7 DEF PlanIsNear
<1>9. due'["sleeper"] <= clock + PlanWait \/ ~SleeperBad'
  <2>1. SleeperBad' = SleeperBad
    BY <1>1 DEF SleeperBad
  <2> QED BY <1>6, <1>7, <2>1 DEF SleeperComesBack
<1> QED BY <1>1, <1>4, <1>5, <1>8, <1>9, TroubleStartsAgain

LEMMA RestartKeeps ==
  ASSUME ScheduleInv, Restart
  PROVE  ScheduleInv'
<1> USE DEF ScheduleInv
<1>1. /\ loop' = Rest /\ due' = [j \in Job |-> 0] /\ troubled' = clock
      /\ UNCHANGED <<clock, phase, health, incidents, plan>>
  BY DEF Restart
<1>2. ScheduleTyped'
  BY <1>1 DEF ScheduleTyped
<1>3. PassesAreInstant'
  BY <1>1, InstantAgain DEF ScheduleTyped
<1>4. clock \in Nat /\ PlanWait \in Nat /\ PlanWait' = PlanWait
  BY WaitsTyped DEF ScheduleTyped, PlanWait
<1>5. due'["expert"] = 0 /\ due'["sleeper"] = 0
  BY <1>1 DEF Job
<1>6. PlanIsNear' /\ due'["sleeper"] <= clock + PlanWait
  BY <1>1, <1>4, <1>5 DEF PlanIsNear
<1> QED BY <1>1, <1>2, <1>3, <1>6, TroubleStartsAgain

\* Time passes only when every job is still to come.
LEMMA TimePassesKeeps ==
  ASSUME ScheduleInv, TimePasses
  PROVE  ScheduleInv'
<1> USE DEF ScheduleInv
<1>1. /\ clock' = clock + 1 /\ phase' \in {"normal", "kickoff"}
      /\ UNCHANGED <<due, loop, health, incidents, plan, troubled>>
      /\ Settled \/ loop.stage = "ready"
  BY DEF TimePasses
<1>2. /\ {clock, troubled, PlanWait, NflverseWait} \subseteq Nat /\ troubled <= clock
      /\ Recovery = PlanWait + NflverseWait
      /\ \A j \in Job : due[j] \in Nat
  BY WaitsTyped DEF ScheduleTyped
<1>3. PlanWait' = PlanWait /\ Recovery' = Recovery
  BY DEF PlanWait, Recovery
<1>4. SleeperBad' = SleeperBad /\ NflverseBad' = NflverseBad
  BY <1>1 DEF SleeperBad, NflverseBad
<1>5. ScheduleTyped'
  BY <1>1, <1>2 DEF ScheduleTyped
<1>6. PassesAreInstant'
  <2>1. CASE loop = Rest
    BY <1>1, <2>1 DEF PassesAreInstant, Rest
  <2>2. CASE loop # Rest
    <3>1. loop.stage = "ready" /\ loop.began \in Nat /\ loop.began <= clock
      BY <1>1, <2>2 DEF Settled, PassesAreInstant, ScheduleTyped, LoopUnderWay
    <3>2. Running' = Running
      BY <1>1 DEF Running
    <3> QED BY <1>1, <1>2, <1>4, <3>1, <3>2 DEF PassesAreInstant
  <2> QED BY <2>1, <2>2
<1>7. PlanIsNear'
  BY <1>1, <1>2, <1>3 DEF PlanIsNear, Job
\* With a source failing the loop is at rest, with every job still to come.
<1>8. ASSUME SleeperBad \/ NflverseBad
      PROVE  /\ \A j \in Job : clock + 1 <= due[j]
             /\ plan = "blocked" => due["nflverse"] <= clock + NflverseWait
  <2>1. Settled
    BY <1>1, <1>8 DEF PassesAreInstant
  <2>2. ASSUME NEW j \in Job
        PROVE  clock + 1 <= due[j]
    <3>1. Clamped(CurrentProfile)[j] > clock
      BY <2>1 DEF Settled
    <3>2. Clamped(CurrentProfile)[j] = due[j] \/ Clamped(CurrentProfile)[j] = clock
      BY DEF Clamped
    <3> QED BY <1>2, <3>1, <3>2
  <2>3. ASSUME plan = "blocked"
        PROVE  due["nflverse"] <= clock + NflverseWait
    <3>1. Clamped("degraded")["nflverse"] > clock
      BY <2>1, <2>3 DEF Settled, CurrentProfile, Job
    <3>2. due["nflverse"] > clock + NflverseWait => Clamped("degraded")["nflverse"] = clock
      BY DEF Clamped, NflverseWait, Job
    <3>3. due["nflverse"] \in Nat
      BY <1>2 DEF Job
    <3> QED BY <1>2, <3>1, <3>2, <3>3
  <2> QED BY <2>2, <2>3
<1>9. SleeperComesBack'
  BY <1>1, <1>2, <1>3, <1>4, <1>8 DEF SleeperComesBack, Job
<1>10. NflverseComesBack'
  <2>1. SUFFICES ASSUME NflverseBad PROVE NflverseComesBack'
    BY <1>4 DEF NflverseComesBack
  <2>2. /\ clock + 1 <= due["expert"] /\ clock + 1 <= due["nflverse"]
        /\ due["expert"] \in Nat /\ due["nflverse"] \in Nat
    BY <1>2, <1>8, <2>1 DEF Job
  <2>3. CASE /\ clock <= troubled + PlanWait
             /\ plan # "blocked" /\ due["expert"] <= troubled + PlanWait
    <3>1. clock + 1 <= troubled + PlanWait
      BY <1>2, <2>2, <2>3
    <3> QED BY <1>1, <1>3, <2>3, <3>1 DEF NflverseComesBack
  <2>4. CASE plan = "blocked" /\ clock <= troubled + PlanWait
    <3>1. due["nflverse"] <= clock + NflverseWait
      BY <1>8, <2>1, <2>4
    <3>2. due["nflverse"] <= troubled + Recovery /\ clock + 1 <= troubled + Recovery
      BY <1>2, <2>2, <2>4, <3>1
    <3> QED BY <1>1, <1>3, <2>4, <3>2 DEF NflverseComesBack
  <2>5. CASE plan = "blocked" /\ due["nflverse"] <= troubled + Recovery
    <3>1. clock + 1 <= troubled + Recovery
      BY <1>2, <2>2, <2>5
    <3> QED BY <1>1, <1>3, <2>5, <3>1 DEF NflverseComesBack
  <2> QED BY <2>1, <2>3, <2>4, <2>5 DEF NflverseComesBack
<1> QED BY <1>5, <1>6, <1>7, <1>9, <1>10

LEMMA ScheduleStutters ==
  ASSUME ScheduleInv, UNCHANGED scheduleVars
  PROVE  ScheduleInv'
BY DEF scheduleVars, ScheduleInv, ScheduleTyped, PassesAreInstant, PlanIsNear, SleeperComesBack,
       NflverseComesBack, SleeperBad, NflverseBad, Running, PlanWait, Recovery

LEMMA ScheduleSteps == ScheduleInv /\ [ScheduleNext]_scheduleVars => ScheduleInv'
<1> SUFFICES ASSUME ScheduleInv, [ScheduleNext]_scheduleVars PROVE ScheduleInv'
  OBVIOUS
<1>1. CASE Wake           BY <1>1, WakeKeeps
<1>2. CASE SyncSucceeds   BY <1>2, SyncSucceedsKeeps
<1>3. CASE SyncFails      BY <1>3, SyncFailsKeeps
<1>4. CASE PlanJudges     BY <1>4, PlanJudgesKeeps
<1>5. CASE PlanIsWritten  BY <1>5, PlanIsWrittenKeeps
<1>6. CASE PlanFails      BY <1>6, PlanFailsKeeps
<1>7. CASE Restart        BY <1>7, RestartKeeps
<1>8. CASE TimePasses     BY <1>8, TimePassesKeeps
<1>9. CASE UNCHANGED scheduleVars
  BY <1>9, ScheduleStutters
<1> QED BY <1>1, <1>2, <1>3, <1>4, <1>5, <1>6, <1>7, <1>8, <1>9 DEF ScheduleNext

\* The property follows: a source that is still bad is not far from its trouble.
LEMMA ScheduleInvBounds == ScheduleInv => SourcesRecover
<1> SUFFICES ASSUME ScheduleInv, clock - troubled > Recovery
             PROVE  "sleeper" \notin incidents /\ \A s \in Source : health[s].ok
  BY DEF SourcesRecover
<1>1. {clock, troubled, PlanWait, NflverseWait} \subseteq Nat /\ Recovery = PlanWait + NflverseWait
  BY WaitsTyped DEF ScheduleInv, ScheduleTyped
<1>2. ~SleeperBad
  BY <1>1 DEF ScheduleInv, SleeperComesBack
<1>3. ~NflverseBad
  BY <1>1 DEF ScheduleInv, NflverseComesBack
<1> QED BY <1>2, <1>3 DEF SleeperBad, NflverseBad, Source

\* Whatever the waits, and however the jobs, the plan and the process fail, once
\* failures stop both sources are healthy again within the longest wait for a
\* plan and one degraded wait for nflverse (run_scheduler, scheduler.py).
THEOREM SourcesRecoverInTime == ScheduleSpec => []SourcesRecover
<1>1. ScheduleSpec => []ScheduleInv
  BY ScheduleStarts, ScheduleSteps, PTL DEF ScheduleSpec
<1> QED BY <1>1, ScheduleInvBounds, PTL

-----------------------------------------------------------------------------
(* The projection quota. *)

SyncingCaller == [step : {"syncing"}, left : Nat]
SentRequest == [number : Nat, scheduled : BOOLEAN, stamp : Int, at : Nat]

QuotaTyped ==
  /\ hour \in Nat /\ report \in {NoReport} \cup Nat
  /\ callers \in [Caller -> {Away} \cup SyncingCaller]
  /\ IsFiniteSet(sent) /\ sent \subseteq SentRequest
  /\ ledger \subseteq sent

\* A caller read the clock shortly before it wrote.
StampsAreClose == \A r \in sent : r.at <= hour /\ r.stamp <= r.at /\ r.at - Slack <= r.stamp

InWindow == {r \in sent : r.stamp > hour - Window}
ScheduledInWindow == {r \in sent : r.stamp > hour - Window /\ r.scheduled}

\* However late a writer comes, it forgets no request that still counts.
LedgerKeepsTheWindow == InWindow \subseteq ledger

WindowIsWithinTheLimits ==
  /\ Cardinality(InWindow) <= DailyLimit
  /\ Cardinality(ScheduledInWindow) <= Limit("scheduler")

QuotaInv == QuotaTyped /\ StampsAreClose /\ LedgerKeepsTheWindow /\ WindowIsWithinTheLimits

LEMMA LimitsTyped ==
  /\ {DailyLimit, Window, Slack, PerSync} \subseteq Nat
  /\ \A c \in Caller : Limit(c) \in Nat /\ Limit(c) <= DailyLimit
  /\ \A c \in Caller : c # "dashboard" => Limit(c) = Limit("scheduler")
BY QuotaIsSane DEF Limit, Caller

LEMMA QuotaStarts == QuotaInit => QuotaInv
<1> SUFFICES ASSUME QuotaInit PROVE QuotaInv
  OBVIOUS
<1>1. InWindow = {} /\ ScheduledInWindow = {}
  BY DEF QuotaInit, InWindow, ScheduledInWindow
<1>2. QuotaTyped /\ StampsAreClose /\ LedgerKeepsTheWindow
  BY <1>1, FS_EmptySet DEF QuotaInit, QuotaTyped, StampsAreClose, LedgerKeepsTheWindow
<1>3. Limit("scheduler") \in Nat /\ DailyLimit \in Nat
  BY LimitsTyped DEF Caller
<1>4. WindowIsWithinTheLimits
  BY <1>1, <1>3, FS_EmptySet DEF WindowIsWithinTheLimits
<1> QED BY <1>2, <1>4 DEF QuotaInv

\* What a caller counts: every request of the window, whenever it read the clock.
LEMMA CountedCoversTheWindow ==
  ASSUME QuotaInv, NEW observed \in Observed
  PROVE  /\ InWindow \subseteq Counted(observed) /\ Counted(observed) \subseteq sent
         /\ IsFiniteSet(Counted(observed)) /\ Cardinality(Counted(observed)) \in Nat
         /\ Cardinality(InWindow) <= Cardinality(Counted(observed))
<1> USE DEF QuotaInv
<1>1. /\ hour \in Nat /\ Slack \in Nat /\ Window \in Nat
      /\ observed \in Int /\ hour - Slack <= observed /\ observed <= hour
  BY QuotaIsSane DEF QuotaTyped, Observed
<1>2. InWindow \subseteq Counted(observed)
  <2> SUFFICES ASSUME NEW r \in InWindow PROVE r \in Counted(observed)
    OBVIOUS
  <2>1. r \in ledger /\ r \in sent /\ r.stamp > hour - Window
    BY DEF LedgerKeepsTheWindow, InWindow
  <2>2. r.stamp \in Int /\ r.at \in Nat /\ r.at <= hour /\ r.stamp <= r.at
    BY <2>1 DEF QuotaTyped, SentRequest, StampsAreClose
  <2> QED BY <1>1, <2>1, <2>2 DEF Counted
<1>3. Counted(observed) \subseteq sent /\ IsFiniteSet(sent)
  BY DEF Counted, QuotaTyped
<1>4. IsFiniteSet(Counted(observed))
  BY <1>3, FS_Subset
<1> QED BY <1>2, <1>3, <1>4, FS_Subset, FS_CardinalityType

\* A step that sends nothing, and whose ledger is what some caller counts.
LEMMA NothingSentKeeps ==
  ASSUME QuotaInv, UNCHANGED <<hour, sent>>, QuotaTyped',
         ledger' = ledger \/ \E observed \in Observed : ledger' = Counted(observed)
  PROVE  QuotaInv'
<1>1. InWindow' = InWindow /\ ScheduledInWindow' = ScheduledInWindow
  BY DEF InWindow, ScheduledInWindow
<1>2. LedgerKeepsTheWindow'
  BY <1>1, CountedCoversTheWindow DEF QuotaInv, LedgerKeepsTheWindow
<1>3. WindowIsWithinTheLimits' /\ StampsAreClose'
  BY <1>1 DEF QuotaInv, WindowIsWithinTheLimits, StampsAreClose, Limit
<1> QED BY <1>2, <1>3 DEF QuotaInv

LEMMA BeginKeeps ==
  ASSUME QuotaInv, NEW c \in Caller, Begin(c)
  PROVE  QuotaInv'
<1>1. PICK observed \in Observed, sameWeek \in BOOLEAN :
        /\ ledger' = Counted(observed)
        /\ \/ UNCHANGED callers
           \/ callers' = [callers EXCEPT ![c] =
                [step |-> "syncing", left |-> IF Limit(c) - Cardinality(Counted(observed)) < 0 THEN 0
                                              ELSE IF Limit(c) - Cardinality(Counted(observed)) < PerSync
                                                   THEN Limit(c) - Cardinality(Counted(observed)) ELSE PerSync]]
  BY DEF Begin
<1>2. UNCHANGED <<hour, sent, report>>
  BY DEF Begin
<1>3. /\ Counted(observed) \subseteq sent /\ Cardinality(Counted(observed)) \in Nat
      /\ Limit(c) \in Nat /\ PerSync \in Nat
  BY CountedCoversTheWindow, LimitsTyped
<1> DEFINE left == IF Limit(c) - Cardinality(Counted(observed)) < 0 THEN 0
                   ELSE IF Limit(c) - Cardinality(Counted(observed)) < PerSync
                        THEN Limit(c) - Cardinality(Counted(observed)) ELSE PerSync
<1>4. left \in Nat
  BY <1>3
<1>5. UNCHANGED callers \/ callers' = [callers EXCEPT ![c] = [step |-> "syncing", left |-> left]]
  BY <1>1
<1> HIDE DEF left
<1>6. callers' \in [Caller -> {Away} \cup SyncingCaller]
  BY <1>4, <1>5 DEF QuotaInv, QuotaTyped, SyncingCaller
<1>7. QuotaTyped'
  BY <1>1, <1>2, <1>3, <1>6 DEF QuotaInv, QuotaTyped
<1> QED BY <1>1, <1>2, <1>7, NothingSentKeeps

LEMMA OneMoreAtMost ==
  ASSUME NEW S, NEW x, IsFiniteSet(S), NEW T \in SUBSET (S \cup {x})
  PROVE  Cardinality(T) \in Nat /\ Cardinality(S) \in Nat /\ Cardinality(T) <= Cardinality(S) + 1
<1>1. /\ IsFiniteSet(S \cup {x})
      /\ Cardinality(S \cup {x}) = IF x \in S THEN Cardinality(S) ELSE Cardinality(S) + 1
  BY FS_AddElement
<1>2. IsFiniteSet(T) /\ Cardinality(T) <= Cardinality(S \cup {x})
  BY <1>1, FS_Subset
<1>3. Cardinality(T) \in Nat /\ Cardinality(S) \in Nat
  BY <1>2, FS_CardinalityType
<1> QED BY <1>1, <1>2, <1>3

LEMMA RequestKeeps ==
  ASSUME QuotaInv, NEW c \in Caller, Request(c)
  PROVE  QuotaInv'
<1> USE DEF QuotaInv
<1>1. /\ callers[c] \in SyncingCaller /\ callers[c].left \in Nat /\ callers[c].left > 0
      /\ UNCHANGED <<hour, report>>
  BY DEF Request, QuotaTyped, Away, SyncingCaller
<1>2. PICK observed \in Observed : \E request :
        /\ request = [number |-> Cardinality(sent), scheduled |-> c # "dashboard", stamp |-> observed, at |-> hour]
        /\ \/ /\ Cardinality(Counted(observed)) >= Limit(c)
              /\ ledger' = Counted(observed)
              /\ callers' = [callers EXCEPT ![c].left = 0]
              /\ UNCHANGED sent
           \/ /\ ~(Cardinality(Counted(observed)) >= Limit(c))
              /\ ledger' = Counted(observed) \cup {request}
              /\ callers' = [callers EXCEPT ![c].left = @ - 1]
              /\ sent' = sent \cup {request}
  BY DEF Request
<1>3. /\ InWindow \subseteq Counted(observed) /\ Counted(observed) \subseteq sent
      /\ Cardinality(Counted(observed)) \in Nat
      /\ Cardinality(InWindow) <= Cardinality(Counted(observed))
      /\ Limit(c) \in Nat /\ Limit(c) <= DailyLimit /\ DailyLimit \in Nat
      /\ c # "dashboard" => Limit(c) = Limit("scheduler")
  BY CountedCoversTheWindow, LimitsTyped
<1>4. callers' \in [Caller -> {Away} \cup SyncingCaller]
  BY <1>1, <1>2 DEF QuotaTyped, SyncingCaller
<1>5. CASE UNCHANGED sent /\ ledger' = Counted(observed)
  <2>1. QuotaTyped'
    BY <1>1, <1>3, <1>4, <1>5 DEF QuotaTyped
  <2> QED BY <1>1, <1>5, <2>1, NothingSentKeeps
<1>6. ASSUME NEW request,
             request = [number |-> Cardinality(sent), scheduled |-> c # "dashboard", stamp |-> observed, at |-> hour],
             Cardinality(Counted(observed)) < Limit(c),
             ledger' = Counted(observed) \cup {request}, sent' = sent \cup {request}
      PROVE  QuotaInv'
  <2>1. /\ hour \in Nat /\ Slack \in Nat /\ Window \in Nat /\ Cardinality(sent) \in Nat
        /\ observed \in Int /\ hour - Slack <= observed /\ observed <= hour
    BY QuotaIsSane, FS_CardinalityType DEF QuotaTyped, Observed
  <2>2. request \in SentRequest
    BY <1>6, <2>1 DEF SentRequest
  <2>3. QuotaTyped'
    BY <1>1, <1>3, <1>4, <1>6, <2>2, FS_AddElement DEF QuotaTyped
  <2>4. StampsAreClose'
    BY <1>1, <1>6, <2>1 DEF StampsAreClose
  <2>5. InWindow' \subseteq InWindow \cup {request}
    BY <1>1, <1>6 DEF InWindow
  <2>6. LedgerKeepsTheWindow'
    BY <1>3, <1>6, <2>5 DEF LedgerKeepsTheWindow
  <2>7. IsFiniteSet(InWindow) /\ IsFiniteSet(ScheduledInWindow)
        /\ Cardinality(ScheduledInWindow) <= Cardinality(InWindow)
    <3>1. InWindow \subseteq sent /\ ScheduledInWindow \subseteq InWindow /\ IsFiniteSet(sent)
      BY DEF InWindow, ScheduledInWindow, QuotaTyped
    <3>2. IsFiniteSet(InWindow)
      BY <3>1, FS_Subset
    <3> QED BY <3>1, <3>2, FS_Subset
  <2>8. Cardinality(InWindow) \in Nat /\ Cardinality(ScheduledInWindow) \in Nat
    BY <2>7, FS_CardinalityType
  <2>9. Cardinality(InWindow') <= Cardinality(InWindow) + 1 /\ Cardinality(InWindow') \in Nat
    BY <2>5, <2>7, OneMoreAtMost
  <2>10. Cardinality(ScheduledInWindow') <= Limit("scheduler")
    <3>1. CASE c = "dashboard"
      <4>1. ~request.scheduled
        BY <1>6, <3>1
      <4>2. ScheduledInWindow' = ScheduledInWindow
        BY <1>1, <1>6, <4>1 DEF ScheduledInWindow
      <4> QED BY <4>2 DEF WindowIsWithinTheLimits
    <3>2. CASE c # "dashboard"
      <4>1. ScheduledInWindow' \subseteq ScheduledInWindow \cup {request}
        BY <1>1, <1>6 DEF ScheduledInWindow
      <4>2. /\ Cardinality(ScheduledInWindow') <= Cardinality(ScheduledInWindow) + 1
            /\ Cardinality(ScheduledInWindow') \in Nat
        BY <2>7, <4>1, OneMoreAtMost
      <4> QED BY <1>3, <1>6, <2>7, <2>8, <3>2, <4>2
    <3> QED BY <3>1, <3>2
  <2>11. Cardinality(InWindow') <= DailyLimit
    BY <1>3, <1>6, <2>8, <2>9
  <2>12. WindowIsWithinTheLimits'
    BY <2>10, <2>11 DEF WindowIsWithinTheLimits, Limit
  <2> QED BY <2>3, <2>4, <2>6, <2>12
<1> QED BY <1>2, <1>3, <1>5, <1>6

LEMMA HourPassesKeeps ==
  ASSUME QuotaInv, HourPasses
  PROVE  QuotaInv'
<1> USE DEF QuotaInv
<1>1. hour' = hour + 1 /\ UNCHANGED <<ledger, sent, callers, report>> /\ hour \in Nat
  BY DEF HourPasses, QuotaTyped
<1>2. QuotaTyped' /\ StampsAreClose'
  <2>1. \A r \in sent : r.at \in Nat
    BY DEF QuotaTyped, SentRequest
  <2> QED BY <1>1, <2>1 DEF QuotaTyped, StampsAreClose
<1>3. InWindow' \subseteq InWindow /\ ScheduledInWindow' \subseteq ScheduledInWindow
  <2>1. \A r \in sent : r.stamp \in Int
    BY DEF QuotaTyped, SentRequest
  <2>2. Window \in Nat
    BY QuotaIsSane
  <2> QED BY <1>1, <2>1, <2>2 DEF InWindow, ScheduledInWindow
<1>4. /\ IsFiniteSet(InWindow) /\ IsFiniteSet(ScheduledInWindow)
  BY FS_Subset DEF QuotaTyped, InWindow, ScheduledInWindow
<1>5. /\ Cardinality(InWindow') <= Cardinality(InWindow)
      /\ Cardinality(ScheduledInWindow') <= Cardinality(ScheduledInWindow)
      /\ IsFiniteSet(InWindow') /\ IsFiniteSet(ScheduledInWindow')
  BY <1>3, <1>4, FS_Subset
<1>6. {Cardinality(InWindow), Cardinality(InWindow'), Cardinality(ScheduledInWindow),
       Cardinality(ScheduledInWindow'), DailyLimit, Limit("scheduler")} \subseteq Nat
  BY <1>4, <1>5, FS_CardinalityType, LimitsTyped DEF Caller
<1>7. LedgerKeepsTheWindow'
  BY <1>1, <1>3 DEF LedgerKeepsTheWindow
<1>8. WindowIsWithinTheLimits'
  BY <1>5, <1>6 DEF WindowIsWithinTheLimits, Limit
<1> QED BY <1>2, <1>7, <1>8

LEMMA QuotaSteps == QuotaInv /\ [QuotaNext]_quotaVars => QuotaInv'
<1> SUFFICES ASSUME QuotaInv, [QuotaNext]_quotaVars PROVE QuotaInv'
  OBVIOUS
<1>1. ASSUME NEW c \in Caller, Begin(c) PROVE QuotaInv'
  BY <1>1, BeginKeeps
<1>2. ASSUME NEW c \in Caller, Request(c) PROVE QuotaInv'
  BY <1>2, RequestKeeps
<1>3. ASSUME NEW c \in Caller, WriteProjections(c) \/ GiveUp(c) PROVE QuotaInv'
  <2>1. QuotaTyped' /\ UNCHANGED <<hour, ledger, sent>>
    BY <1>3 DEF WriteProjections, GiveUp, QuotaInv, QuotaTyped
  <2> QED BY <2>1, NothingSentKeeps
<1>4. CASE ShowQuota
  <2>1. PICK observed \in Observed : ledger' = Counted(observed)
    BY <1>4 DEF ShowQuota
  <2>2. QuotaTyped' /\ UNCHANGED <<hour, sent>>
    BY <1>4, <2>1, CountedCoversTheWindow DEF ShowQuota, QuotaInv, QuotaTyped
  <2> QED BY <2>1, <2>2, NothingSentKeeps
<1>5. CASE HourPasses
  BY <1>5, HourPassesKeeps
<1>6. CASE UNCHANGED quotaVars
  <2>1. QuotaTyped' /\ UNCHANGED <<hour, ledger, sent>>
    BY <1>6 DEF quotaVars, QuotaInv, QuotaTyped
  <2> QED BY <2>1, NothingSentKeeps
<1> QED BY <1>1, <1>2, <1>3, <1>4, <1>5, <1>6 DEF QuotaNext

\* A request of the window of FantasyPros is in the window of the ledger.
LEMMA QuotaInvBounds == QuotaInv => QuotaHolds
<1> SUFFICES ASSUME QuotaInv PROVE QuotaHolds
  OBVIOUS
<1> USE DEF QuotaInv
<1> DEFINE seen == {r \in sent : Lately(r)}
           scheduled == {r \in sent : Lately(r) /\ r.scheduled}
<1>1. seen \subseteq InWindow /\ scheduled \subseteq ScheduledInWindow
  <2>1. ASSUME NEW r \in sent, Lately(r) PROVE r.stamp > hour - Window
    <3>1. r.stamp \in Int /\ r.at \in Nat /\ hour \in Nat /\ Window \in Nat /\ Slack \in Nat
      BY QuotaIsSane DEF QuotaTyped, SentRequest
    <3>2. r.at - Slack <= r.stamp /\ r.at > hour - Window + Slack
      BY <2>1 DEF StampsAreClose, Lately
    <3> QED BY <3>1, <3>2
  <2> QED BY <2>1 DEF InWindow, ScheduledInWindow
<1>2. IsFiniteSet(InWindow) /\ IsFiniteSet(ScheduledInWindow)
  BY FS_Subset DEF QuotaTyped, InWindow, ScheduledInWindow
<1>3. /\ Cardinality(seen) <= Cardinality(InWindow) /\ IsFiniteSet(seen)
      /\ Cardinality(scheduled) <= Cardinality(ScheduledInWindow) /\ IsFiniteSet(scheduled)
  BY <1>1, <1>2, FS_Subset
<1>4. {Cardinality(seen), Cardinality(scheduled), Cardinality(InWindow), Cardinality(ScheduledInWindow),
       DailyLimit, Limit("scheduler")} \subseteq Nat
  BY <1>2, <1>3, FS_CardinalityType, LimitsTyped DEF Caller
<1>5. Cardinality(seen) <= DailyLimit /\ Cardinality(scheduled) <= Limit("scheduler")
  <2> HIDE DEF seen, scheduled
  <2> QED BY <1>3, <1>4 DEF WindowIsWithinTheLimits
<1> QED BY <1>5 DEF QuotaHolds

\* Whatever the limits, however many times the three callers overlap and however
\* late each of them writes, FantasyPros never sees more requests in a window than
\* the plan allows, nor scheduled ones in the reserve (_reserve_quota_request).
THEOREM QuotaAlwaysHolds == QuotaSpec => []QuotaHolds
<1>1. QuotaSpec => []QuotaInv
  BY QuotaStarts, QuotaSteps, PTL DEF QuotaSpec
<1> QED BY <1>1, QuotaInvBounds, PTL
=============================================================================
