---------------------------- MODULE CodexWorker ----------------------------
(***************************************************************************)
(* How the draft room, the in-season manager and the trash talk ask the    *)
(* model: a signed request file, one worker on the host that runs Codex on *)
(* one request after the other, a response file, and the caches of the     *)
(* decisions.  Beside it the worker's heartbeat, the watchdog that restarts *)
(* a stalled worker, and launchd, which restarts a dead one.               *)
(*                                                                         *)
(* A context stands for the content_hash of all it holds.  Signatures and  *)
(* ids that do not match never happen between these two programs.          *)
(***************************************************************************)
EXTENDS Naturals, FiniteSets

CONSTANTS
  Caller,      \* the containers: draft monitor, scheduler, an operator's CLI
  Asks,        \* what each of them asks for
  Timeout,     \* per purpose, the patience of the caller and the life of a request
  LastContext, \* per purpose, bound on the contexts
  LastMinute,  \* bound on the minutes in which calls begin
  Stale,       \* CODEX_WORKER_STALE_SECONDS
  MaxFaults    \* bound on stalls and deaths

Purpose == {"draft", "season", "trash"}

ASSUME CodexAssumption ==
  /\ Asks \in [Caller -> SUBSET Purpose]
  /\ Timeout \in [Purpose -> Nat \ {0}]
  /\ LastContext \in [Purpose -> Nat \ {0}]
  /\ {LastMinute, Stale} \subseteq Nat \ {0} /\ MaxFaults \in Nat

VARIABLES
  context,  \* per purpose, what the next call would ask about
  kickedOff,\* the game of a starter has begun: his slot is locked
  minute,
  request,  \* the ids with a request file
  life,     \* per request, the time until its expires_at
  response, \* per id, the file
  cache,    \* per question, draft-decisions and in-season-decisions
  temp,     \* the temporary file of a draft request
  call,     \* per caller, the call it is in and the outcome of its last one
  worker,
  beat,     \* age of codex-worker-heartbeat.json
  runs, lost,  \* history: runs of Codex per id, and those whose answer was lost
  faults

vars == <<context, kickedOff, minute, request, life, response, cache, temp, call, worker, beat, runs, lost, faults>>

Contexts == UNION {1 .. LastContext[p] : p \in Purpose}
Question == [purpose : Purpose, context : Contexts]
Id == [purpose : {"draft", "trash"}, context : Contexts, minute : {0}]
      \cup [purpose : {"season"}, context : Contexts, minute : 1 .. LastMinute]
Nobody == [purpose |-> "none"]

\* What a run decides: two legal choices (in the season the second moves the
\* starter whose game begins), or an illegal one or none at all.
Choice == {"stay", "move"}
Answer == Choice \cup {"error"}
Absent == "absent"

Questioned(id) == [purpose |-> id.purpose, context |-> id.context]
Outcome == {"none", "decided", "unavailable", "refused", "raised"}
CallRecord == [pc : {"idle", "writing", "waiting"}, id : Id \cup {Nobody}, left : Nat,
               locked : BOOLEAN, outcome : Outcome, choice : Choice \cup {Absent}]
WorkerRecord == [pc : {"dead", "idle", "login", "running"}, todo : SUBSET Id, job : Id \cup {Nobody},
                 left : Nat, stalled : BOOLEAN]
Idle == [pc |-> "idle", id |-> Nobody, left |-> 0, locked |-> FALSE, outcome |-> "none", choice |-> Absent]
Resting == [pc |-> "idle", todo |-> {}, job |-> Nobody, left |-> 0, stalled |-> FALSE]

Init ==
  /\ context = [p \in Purpose |-> 1] /\ kickedOff = FALSE /\ minute = 1
  /\ request = {} /\ life = [id \in Id |-> 0] /\ response = [id \in Id |-> Absent]
  /\ cache = [q \in Question |-> Absent]
  /\ temp = [id \in Id |-> FALSE]
  /\ call = [c \in Caller |-> Idle]
  /\ worker = Resting /\ beat = 0
  /\ runs = [id \in Id |-> 0] /\ lost = [id \in Id |-> 0]
  /\ faults = 0

callerFiles == <<request, life, temp, cache>>
workerFiles == <<response, beat, runs, lost>>
world == <<context, kickedOff, minute, faults>>

-----------------------------------------------------------------------------
(* The callers.                                                            *)

\* The season's requests also hold the minute of the attempt.
IdOf(p) == [purpose |-> p, context |-> context[p], minute |-> IF p = "season" THEN minute ELSE 0]

\* validate_decision refuses to move a starter who is locked in the context
\* of the call; the other validations compare with what the hash covers.
MovesLocked(purpose, locked, choice) == purpose = "season" /\ locked /\ choice = "move"
Valid(purpose, locked, choice) == choice \in Choice /\ ~MovesLocked(purpose, locked, choice)

Ends(c, outcome, choice) ==
  call' = [call EXCEPT ![c] = [Idle EXCEPT !.id = call[c].id, !.outcome = outcome, !.choice = choice]]

MayBegin(c, p) == call[c].pc = "idle" /\ p \in Asks[c] /\ minute < LastMinute

\* The trash talk keeps no cache.  A cached plan of the season that no longer
\* passes validation raises; the draft's cache would be passed over.
UseCache(c, p) ==
  LET id == IdOf(p)  choice == cache[Questioned(id)] IN
  /\ MayBegin(c, p) /\ choice # Absent
  /\ call' = [call EXCEPT ![c] =
       IF Valid(p, kickedOff, choice)
         THEN [Idle EXCEPT !.id = id, !.outcome = "decided", !.choice = choice]
         ELSE [Idle EXCEPT !.id = id, !.outcome = "refused"]]
  /\ UNCHANGED <<worker, callerFiles, workerFiles, world>>

\* A request that is there already is shared.  A new one of the season or of
\* the trash talk is written under a unique temporary name and renamed; the
\* draft's temporary name holds the pid, which is 1 in every container.
Ask(c, p) ==
  LET id == IdOf(p)  new == id \notin request IN
  /\ MayBegin(c, p) /\ cache[Questioned(id)] = Absent
  /\ call' = [call EXCEPT ![c] =
       [Idle EXCEPT !.pc = IF new /\ p = "draft" THEN "writing" ELSE "waiting",
                    !.id = id, !.left = Timeout[p], !.locked = kickedOff]]
  /\ IF new /\ p = "draft"
       THEN temp' = [temp EXCEPT ![id] = TRUE] /\ UNCHANGED <<request, life>>
       ELSE /\ request' = request \cup {id}
            /\ life' = IF new THEN [life EXCEPT ![id] = Timeout[p]] ELSE life
            /\ UNCHANGED temp
  /\ UNCHANGED <<cache, worker, workerFiles, world>>

\* Path.replace of a temporary file another container has renamed raises, and
\* that is no ExpertDraftUnavailable: the room is blocked without a fallback.
Rename(c) ==
  LET id == call[c].id IN
  /\ call[c].pc = "writing"
  /\ IF temp[id]
       THEN /\ request' = request \cup {id}
            /\ life' = [life EXCEPT ![id] = Timeout["draft"]]
            /\ temp' = [temp EXCEPT ![id] = FALSE]
            /\ call' = [call EXCEPT ![c].pc = "waiting"]
       ELSE Ends(c, "raised", Absent) /\ UNCHANGED <<request, life, temp>>
  /\ UNCHANGED <<cache, worker, workerFiles, world>>

\* A poll finds the response: a valid decision is cached.  (The draft's cache
\* is written under a temporary name with the pid, too; that its renaming may
\* raise like that of a request is left out.)
Settle(c) ==
  LET id == call[c].id  answer == response[id] IN
  /\ call[c].pc = "waiting" /\ call[c].left > 0 /\ answer # Absent
  /\ IF Valid(id.purpose, call[c].locked, answer)
       THEN /\ Ends(c, "decided", answer)
            /\ cache' = IF id.purpose = "trash" THEN cache ELSE [cache EXCEPT ![Questioned(id)] = answer]
       ELSE Ends(c, "unavailable", Absent) /\ UNCHANGED cache
  /\ UNCHANGED <<request, life, temp, worker, workerFiles, world>>

\* The deadline, even when the response came since the last poll.
GiveUp(c) ==
  /\ call[c].pc = "waiting" /\ call[c].left = 0
  /\ Ends(c, "unavailable", Absent)
  /\ UNCHANGED <<worker, callerFiles, workerFiles, world>>

Fault == faults < MaxFaults /\ faults' = faults + 1

\* The container restarts.
CallerDies(c) ==
  /\ Fault /\ call[c].pc # "idle"
  /\ call' = [call EXCEPT ![c] = Idle]
  /\ UNCHANGED <<worker, callerFiles, workerFiles, context, kickedOff, minute>>

-----------------------------------------------------------------------------
(* The worker.                                                             *)

Awake == worker.pc # "dead" /\ ~worker.stalled
Unanswered == {id \in request : response[id] = Absent}

\* Mutant: every request in the directory is taken.
Requested == request

\* readdir: the requests without a response.
Pending == Unanswered

List ==
  /\ Awake /\ worker.pc = "idle" /\ worker.todo = {} /\ Pending # {}
  /\ worker' = [worker EXCEPT !.todo = Pending]
  /\ UNCHANGED <<call, callerFiles, workerFiles, world>>

Respond(id, answer) ==
  /\ response' = [response EXCEPT ![id] = answer]
  /\ worker' = [worker EXCEPT !.pc = "idle", !.todo = @ \ {id}, !.job = Nobody, !.left = 0]

\* Mutant: an expired request is passed over.
PassOverExpired ==
  /\ Awake /\ worker.pc = "idle"
  /\ \E id \in worker.todo : life[id] = 0 /\ worker' = [worker EXCEPT !.todo = @ \ {id}]
  /\ UNCHANGED <<call, callerFiles, workerFiles, world>>

\* validateRequest refuses an expired request, and the refusal is its response.
RefuseExpired ==
  /\ Awake /\ worker.pc = "idle"
  /\ \E id \in worker.todo : life[id] = 0 /\ Respond(id, "error")
  /\ UNCHANGED <<call, callerFiles, beat, runs, lost, world>>

\* The files are taken in the order of their hashes, hence in any.
Take ==
  /\ Awake /\ worker.pc = "idle"
  /\ \E id \in worker.todo :
       life[id] > 0 /\ worker' = [worker EXCEPT !.pc = "login", !.job = id]
  /\ UNCHANGED <<call, callerFiles, workerFiles, world>>

LoginMissing ==
  /\ Awake /\ worker.pc = "login"
  /\ Respond(worker.job, "error")
  /\ UNCHANGED <<call, callerFiles, beat, runs, lost, world>>

\* A run may take what is left of the request's life, at least a second.
StartCodex ==
  /\ Awake /\ worker.pc = "login"
  /\ worker' = [worker EXCEPT !.pc = "running", !.left = IF life[worker.job] = 0 THEN 1 ELSE life[worker.job]]
  /\ runs' = [runs EXCEPT ![worker.job] = @ + 1]
  /\ UNCHANGED <<call, callerFiles, response, beat, lost, world>>

\* Codex ends with a decision or without one; at its limit it is killed.
CodexEnds ==
  /\ Awake /\ worker.pc = "running"
  /\ \E answer \in Answer : (worker.left = 0 => answer = "error") /\ Respond(worker.job, answer)
  /\ UNCHANGED <<call, callerFiles, beat, runs, lost, world>>

\* The event loop hangs.
Stall ==
  /\ Fault /\ Awake
  /\ worker' = [worker EXCEPT !.stalled = TRUE]
  /\ UNCHANGED <<call, callerFiles, workerFiles, context, kickedOff, minute>>

Killed ==
  /\ worker' = [Resting EXCEPT !.pc = "dead"]
  /\ lost' = IF worker.pc = "running" THEN [lost EXCEPT ![worker.job] = @ + 1] ELSE lost

WorkerDies ==
  /\ Fault /\ worker.pc # "dead"
  /\ Killed
  /\ UNCHANGED <<call, callerFiles, response, beat, runs, context, kickedOff, minute>>

\* launchd's KeepAlive; main checks the login and writes the first heartbeat.
\* (Without a login it exits at once, and nothing has changed.)
StartWorker ==
  /\ worker.pc = "dead"
  /\ worker' = Resting /\ beat' = 0
  /\ UNCHANGED <<call, callerFiles, response, runs, lost, world>>

\* codex-watchdog.sh: kickstart -k kills what runs.
Watchdog ==
  /\ beat > Stale
  /\ Killed
  /\ UNCHANGED <<call, callerFiles, response, beat, runs, world>>

-----------------------------------------------------------------------------
(* Time and the world.                                                     *)

\* Mutant: the heartbeat is written between two requests.
BeatsBetweenRequests == Awake /\ worker.pc = "idle"

\* setInterval: the heartbeat is written while a request is processed, too.
Beats == Awake

Less(n) == IF n = 0 THEN 0 ELSE n - 1
Capped(n, bound) == IF n < bound THEN n + 1 ELSE n

\* Nobody sleeps through a tick: callers poll every quarter of a second, a
\* file is written at once, Codex is killed at its limit, the watchdog runs
\* every minute.
Tick ==
  /\ \A c \in Caller :
       call[c].pc = "idle" \/ (call[c].pc = "waiting" /\ call[c].left > 0 /\ response[call[c].id] = Absent)
  /\ ~(Awake /\ worker.pc = "running" /\ worker.left = 0)
  /\ call' = [c \in Caller |-> [call[c] EXCEPT !.left = Less(@)]]
  /\ life' = [id \in Id |-> Less(life[id])]
  /\ worker' = [worker EXCEPT !.left = Less(@)]
  /\ beat' = IF Beats THEN 0 ELSE Capped(beat, Stale + 1)
  /\ minute' = Capped(minute, LastMinute)
  /\ UNCHANGED <<context, kickedOff, request, response, cache, temp, runs, lost, faults>>

\* A pick, a new observation, a new event of a matchup.
ContextChanges(p) ==
  /\ context[p] < LastContext[p]
  /\ context' = [context EXCEPT ![p] = @ + 1]
  /\ UNCHANGED <<kickedOff, minute, faults, call, worker, callerFiles, workerFiles>>

KickOff ==
  /\ ~kickedOff /\ kickedOff' = TRUE
  /\ UNCHANGED <<context, minute, faults, call, worker, callerFiles, workerFiles>>

CallerStep(c) == Rename(c) \/ Settle(c) \/ GiveUp(c)
WorkerStep == List \/ RefuseExpired \/ Take \/ LoginMissing \/ StartCodex \/ CodexEnds

Next ==
  \/ \E c \in Caller :
       (\E p \in Purpose : UseCache(c, p) \/ Ask(c, p)) \/ CallerStep(c) \/ CallerDies(c)
  \/ WorkerStep \/ Stall \/ WorkerDies \/ StartWorker \/ Watchdog
  \/ Tick \/ KickOff \/ \E p \in Purpose : ContextChanges(p)

Spec == Init /\ [][Next]_vars

\* Callers, worker, launchd and watchdog go on, and time passes: strongly, as
\* the guards of Tick only keep it from overtaking what polls, and whatever
\* calls begin, as the loops that make them sleep.  Nothing else is assumed of
\* who begins a call or of the world.
FairSpec ==
  /\ Spec
  /\ \A c \in Caller : WF_vars(CallerStep(c))
  /\ WF_vars(WorkerStep) /\ WF_vars(StartWorker) /\ WF_vars(Watchdog)
  /\ SF_vars(Tick) /\ <>(minute = LastMinute)

-----------------------------------------------------------------------------
(* Properties.                                                             *)

CodexTypeOK ==
  /\ context \in [Purpose -> Nat] /\ \A p \in Purpose : context[p] \in 1 .. LastContext[p]
  /\ kickedOff \in BOOLEAN /\ minute \in 1 .. LastMinute
  /\ request \subseteq Id /\ life \in [Id -> Nat]
  /\ response \in [Id -> Answer \cup {Absent}]
  /\ cache \in [Question -> Choice \cup {Absent}]
  /\ temp \in [Id -> BOOLEAN]
  /\ call \in [Caller -> CallRecord] /\ worker \in WorkerRecord
  /\ beat \in Nat /\ faults \in Nat
  /\ runs \in [Id -> Nat] /\ lost \in [Id -> Nat]

\* The subscription is spent once per question: Codex runs again on a request
\* only when the answer of every earlier run was lost with the worker.
RunsAgainOnlyAfterLoss == \A id \in Id : runs[id] <= lost[id] + 1

\* The draft monitor and the scheduler may ask about one board at the same
\* time, join each other's request or find the cache: the decisions they get
\* for it are the same.
OneAnswerPerBoard ==
  \A c, d \in Caller :
    (call[c].outcome = "decided" /\ call[d].outcome = "decided"
     /\ call[c].id = call[d].id /\ call[c].id.purpose = "draft") => call[c].choice = call[d].choice

\* The watchdog ends no run of Codex, which may take as long as the heartbeat
\* may be old, unless the worker has stalled.
OnlyStalledRunsAreKilled == [][Watchdog /\ worker.pc \in {"login", "running"} => worker.stalled]_vars

\* Every request is answered, if only with an error, whatever dies or stalls:
\* again and again no request waits, and no response is ever taken back.
RequestsAreAnswered == []<>(Unanswered = {})

\* in_season_expert.py: every executable identity invalidates the cache, so a
\* cached plan is usable.
CachedPlanIsUsable == \A c \in Caller : call[c].outcome # "refused"

\* in_season_expert.py: names with a pid collide between containers.
WritesDoNotCollide == \A c \in Caller : call[c].outcome # "raised"
=============================================================================
