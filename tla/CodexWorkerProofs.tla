------------------------- MODULE CodexWorkerProofs -------------------------
(***************************************************************************)
(* For any callers, contexts, timeouts and faults.  The invariant ties     *)
(* what the worker holds to the response files (Held), counts the runs     *)
(* whose answer can still appear (Counted), makes response file, cache and *)
(* outcome of a draft question agree (Agreed), and says that a worker that *)
(* can go on has just beaten (Fresh).                                      *)
(***************************************************************************)
EXTENDS CodexWorker, TLAPS

Held ==
  /\ \A c \in Caller : call[c].pc # "idle" \/ call[c].outcome = "decided" => call[c].id \in Id
  /\ \A c \in Caller : call[c].outcome = "decided" => call[c].choice \in Choice
  /\ worker.pc \in {"login", "running"} => worker.job \in worker.todo
  /\ \A id \in worker.todo : response[id] = Absent

Counted ==
  \A id \in Id :
    /\ runs[id] <= lost[id] + 1
    /\ response[id] = Absent /\ ~(worker.pc = "running" /\ worker.job = id) => runs[id] <= lost[id]

DraftId(q) == [purpose |-> "draft", context |-> q.context, minute |-> 0]

Agreed ==
  /\ \A q \in Question : q.purpose = "draft" /\ cache[q] # Absent => response[DraftId(q)] = cache[q]
  /\ \A c \in Caller : call[c].outcome = "decided" /\ call[c].id.purpose = "draft" => response[call[c].id] = call[c].choice

Fresh == Awake => beat = 0

CodexInv == CodexTypeOK /\ Held /\ Counted /\ Agreed /\ Fresh

-----------------------------------------------------------------------------
(* Ids.                                                                    *)

LEMMA IdTyped ==
  ASSUME CodexTypeOK, NEW p \in Purpose
  PROVE  /\ IdOf(p) \in Id /\ Questioned(IdOf(p)) \in Question
         /\ Questioned(IdOf(p)).purpose = p
         /\ IdOf(p).purpose = p
         /\ p = "draft" => IdOf(p) = DraftId(Questioned(IdOf(p)))
<1>1. context[p] \in Contexts /\ minute \in 1 .. LastMinute
  BY DEF CodexTypeOK, Contexts
<1> QED
  BY <1>1 DEF IdOf, Id, Questioned, Question, DraftId, Purpose

LEMMA QuestionTyped ==
  ASSUME NEW id \in Id
  PROVE  /\ Questioned(id) \in Question /\ Questioned(id).purpose = id.purpose
         /\ id.purpose \in Purpose
         /\ id.purpose = "draft" => id = DraftId(Questioned(id))
BY DEF Id, Questioned, Question, DraftId, Purpose

LEMMA IdleTyped == Idle \in CallRecord /\ Idle.pc = "idle" /\ Idle.outcome = "none"
BY DEF Idle, CallRecord, Outcome, Choice, Absent

LEMMA RestingTyped ==
  /\ Resting \in WorkerRecord /\ [Resting EXCEPT !.pc = "dead"] \in WorkerRecord
  /\ Resting.pc = "idle" /\ Resting.todo = {}
  /\ [Resting EXCEPT !.pc = "dead"].pc = "dead" /\ [Resting EXCEPT !.pc = "dead"].todo = {}
BY DEF Resting, WorkerRecord

-----------------------------------------------------------------------------
LEMMA InitEstablishes == Init => CodexInv
<1> SUFFICES ASSUME Init PROVE CodexInv
  OBVIOUS
<1>1. CodexTypeOK
  <2>1. \A p \in Purpose : 1 \in 1 .. LastContext[p]
    BY CodexAssumption
  <2>2. 1 \in 1 .. LastMinute
    BY CodexAssumption
  <2> QED
    BY <2>1, <2>2, IdleTyped, RestingTyped DEF Init, Answer, Absent, CodexTypeOK
<1>2. Held
  BY IdleTyped, RestingTyped DEF Init, Held
<1>3. Counted
  BY DEF Init, Counted
<1>4. Agreed
  BY IdleTyped DEF Init, Agreed
<1>5. Fresh
  BY DEF Init, Fresh
<1> QED
  BY <1>1, <1>2, <1>3, <1>4, <1>5 DEF CodexInv

-----------------------------------------------------------------------------
(* A step of a caller leaves the responses, the worker and the runs alone. *)

LEMMA CallerOnly ==
  ASSUME CodexInv, CodexTypeOK', UNCHANGED <<worker, workerFiles>>,
         NEW c \in Caller, \A d \in Caller : d # c => call'[d] = call[d],
         call'[c].pc # "idle" \/ call'[c].outcome = "decided" => call'[c].id \in Id,
         call'[c].outcome = "decided" => call'[c].choice \in Choice,
         call'[c].outcome = "decided" /\ call'[c].id.purpose = "draft" => response[call'[c].id] = call'[c].choice,
         \A q \in Question : q.purpose = "draft" /\ cache'[q] # Absent => response[DraftId(q)] = cache'[q]
  PROVE  CodexInv'
<1>1. Held'
  BY DEF CodexInv, Held, workerFiles
<1>2. Counted'
  BY DEF CodexInv, Counted, workerFiles
<1>3. Agreed'
  BY DEF CodexInv, Agreed, workerFiles, DraftId
<1>4. Fresh'
  BY DEF CodexInv, Fresh, workerFiles, Awake
<1> QED
  BY <1>1, <1>2, <1>3, <1>4 DEF CodexInv

LEMMA UseCacheKeeps ==
  ASSUME CodexInv, NEW c \in Caller, NEW p \in Purpose, UseCache(c, p) PROVE CodexInv'
<1>1. CodexTypeOK
  BY DEF CodexInv
<1>2. PICK id \in Id : id = IdOf(p)
  BY <1>1, IdTyped
<1>3. PICK q \in Question : q = Questioned(id) /\ q.purpose = p /\ id.purpose = p /\ (p = "draft" => id = DraftId(q))
  BY <1>1, <1>2, IdTyped
<1>4. cache[q] \in Choice
  BY <1>1, <1>2, <1>3 DEF UseCache, CodexTypeOK
<1>5. PICK new \in CallRecord :
        /\ new.pc = "idle" /\ new.id = id /\ (new.outcome = "decided" => new.choice = cache[q])
        /\ call' = [call EXCEPT ![c] = new]
  <2>1. [Idle EXCEPT !.id = id, !.outcome = "decided", !.choice = cache[q]] \in CallRecord
    BY <1>4, IdleTyped DEF CallRecord, Idle, Outcome
  <2>2. [Idle EXCEPT !.id = id, !.outcome = "refused"] \in CallRecord
    BY IdleTyped DEF CallRecord, Idle, Outcome
  <2> QED
    BY <1>2, <1>3, <2>1, <2>2 DEF UseCache, Idle
<1>6. UNCHANGED <<worker, workerFiles, callerFiles, world>>
  BY DEF UseCache
<1>7. CodexTypeOK'
  BY <1>1, <1>5, <1>6 DEF workerFiles, callerFiles, world, CodexTypeOK
<1>8. call'[c] = new /\ \A d \in Caller : d # c => call'[d] = call[d]
  BY <1>1, <1>5 DEF CodexTypeOK
<1>9. new.outcome = "decided" /\ new.id.purpose = "draft" => response[new.id] = new.choice
  BY <1>3, <1>4, <1>5 DEF CodexInv, Agreed, Choice, Absent
<1>10. \A r \in Question : r.purpose = "draft" /\ cache'[r] # Absent => response[DraftId(r)] = cache'[r]
  BY <1>6 DEF CodexInv, Agreed, callerFiles
<1> QED
  BY <1>4, <1>5, <1>6, <1>7, <1>8, <1>9, <1>10, CallerOnly

LEMMA AskKeeps ==
  ASSUME CodexInv, NEW c \in Caller, NEW p \in Purpose, Ask(c, p) PROVE CodexInv'
<1>1. CodexTypeOK
  BY DEF CodexInv
<1>2. PICK id \in Id : id = IdOf(p)
  BY <1>1, IdTyped
<1>3. PICK new \in CallRecord : new.id = id /\ new.outcome = "none" /\ call' = [call EXCEPT ![c] = new]
  <2> DEFINE pc == IF id \notin request /\ p = "draft" THEN "writing" ELSE "waiting"
  <2>1. [Idle EXCEPT !.pc = pc, !.id = id, !.left = Timeout[p], !.locked = kickedOff] \in CallRecord
    BY <1>1, IdleTyped, CodexAssumption DEF CallRecord, Idle, CodexTypeOK
  <2> QED
    BY <1>2, <2>1 DEF Ask, Idle
<1>4. UNCHANGED <<worker, workerFiles, world, cache>>
  BY DEF Ask
<1>5. request' \subseteq Id /\ life' \in [Id -> Nat] /\ temp' \in [Id -> BOOLEAN]
  BY <1>1, <1>2, CodexAssumption DEF Ask, CodexTypeOK
<1>6. CodexTypeOK'
  BY <1>1, <1>3, <1>4, <1>5 DEF workerFiles, world, CodexTypeOK
<1>7. call'[c] = new /\ \A d \in Caller : d # c => call'[d] = call[d]
  BY <1>1, <1>3 DEF CodexTypeOK
<1>8. \A r \in Question : r.purpose = "draft" /\ cache'[r] # Absent => response[DraftId(r)] = cache'[r]
  BY <1>4 DEF CodexInv, Agreed
<1> QED
  BY <1>3, <1>4, <1>6, <1>7, <1>8, CallerOnly

\* The call that ends without a decision.
LEMMA EndsTyped ==
  ASSUME CodexInv, NEW c \in Caller, NEW o \in Outcome, NEW ch \in Choice \cup {Absent}, Ends(c, o, ch)
  PROVE  /\ call' \in [Caller -> CallRecord]
         /\ call'[c].pc = "idle" /\ call'[c].id = call[c].id /\ call'[c].outcome = o /\ call'[c].choice = ch
         /\ \A d \in Caller : d # c => call'[d] = call[d]
<1>1. call \in [Caller -> CallRecord]
  BY DEF CodexInv, CodexTypeOK
<1>2. [Idle EXCEPT !.id = call[c].id, !.outcome = o, !.choice = ch] \in CallRecord
  BY <1>1, IdleTyped DEF Idle, CallRecord
<1> QED
  BY <1>1, <1>2 DEF Ends, Idle

LEMMA RenameKeeps ==
  ASSUME CodexInv, NEW c \in Caller, Rename(c) PROVE CodexInv'
<1>1. CodexTypeOK
  BY DEF CodexInv
<1>2. PICK id \in Id : id = call[c].id
  BY DEF Rename, CodexInv, Held
<1>3. UNCHANGED <<worker, workerFiles, world, cache>>
  BY DEF Rename
<1>4. \A r \in Question : r.purpose = "draft" /\ cache'[r] # Absent => response[DraftId(r)] = cache'[r]
  BY <1>3 DEF CodexInv, Agreed
<1>5. CASE temp[id]
  <2>1. call' = [call EXCEPT ![c].pc = "waiting"]
    BY <1>2, <1>5 DEF Rename
  <2>2. call' \in [Caller -> CallRecord]
    BY <1>1, <2>1 DEF CallRecord, CodexTypeOK
  <2>3. /\ call'[c].id = id /\ call'[c].outcome = call[c].outcome /\ call'[c].choice = call[c].choice
        /\ \A d \in Caller : d # c => call'[d] = call[d]
    BY <1>1, <1>2, <2>1 DEF CallRecord, CodexTypeOK
  <2>4. request' \subseteq Id /\ life' \in [Id -> Nat] /\ temp' \in [Id -> BOOLEAN]
    <3>1. /\ request' = request \cup {id}
          /\ life' = [life EXCEPT ![id] = Timeout["draft"]]
          /\ temp' = [temp EXCEPT ![id] = FALSE]
      BY <1>2, <1>5 DEF Rename
    <3>2. Timeout["draft"] \in Nat
      BY CodexAssumption DEF Purpose
    <3> QED
      BY <1>1, <1>2, <3>1, <3>2 DEF CodexTypeOK
  <2>5. CodexTypeOK'
    BY <1>1, <1>3, <2>2, <2>4 DEF workerFiles, world, CodexTypeOK
  <2>6. /\ call'[c].outcome = "decided" => call'[c].choice \in Choice
        /\ call'[c].outcome = "decided" /\ call'[c].id.purpose = "draft" => response[call'[c].id] = call'[c].choice
    BY <1>2, <2>3 DEF CodexInv, Agreed, Held
  <2> QED
    BY <1>3, <1>4, <2>3, <2>5, <2>6, CallerOnly
<1>6. CASE ~temp[id]
  <2>1. Ends(c, "raised", Absent) /\ UNCHANGED <<request, life, temp>>
    BY <1>2, <1>6 DEF Rename
  <2>2. /\ call' \in [Caller -> CallRecord]
        /\ call'[c].pc = "idle" /\ call'[c].outcome = "raised"
        /\ \A d \in Caller : d # c => call'[d] = call[d]
    BY <2>1, EndsTyped DEF Outcome
  <2>3. CodexTypeOK'
    BY <1>1, <1>3, <2>1, <2>2 DEF workerFiles, world, CodexTypeOK
  <2> QED
    BY <1>3, <1>4, <2>2, <2>3, CallerOnly
<1> QED
  BY <1>5, <1>6

LEMMA SettleKeeps ==
  ASSUME CodexInv, NEW c \in Caller, Settle(c) PROVE CodexInv'
<1>1. CodexTypeOK
  BY DEF CodexInv
<1>2. PICK id \in Id : id = call[c].id
  BY DEF Settle, CodexInv, Held
<1>3. UNCHANGED <<worker, workerFiles, world, request, life, temp>>
  BY DEF Settle
<1>4. CASE Valid(id.purpose, call[c].locked, response[id])
  <2>1. response[id] \in Choice
    BY <1>4 DEF Valid
  <2>2. /\ Ends(c, "decided", response[id])
        /\ cache' = IF id.purpose = "trash" THEN cache ELSE [cache EXCEPT ![Questioned(id)] = response[id]]
    BY <1>2, <1>4 DEF Settle
  <2>3. /\ call' \in [Caller -> CallRecord]
        /\ call'[c].id = id /\ call'[c].choice = response[id]
        /\ \A d \in Caller : d # c => call'[d] = call[d]
    BY <1>2, <2>1, <2>2, EndsTyped DEF Outcome
  <2>4. cache' \in [Question -> Choice \cup {Absent}]
    BY <1>1, <2>1, <2>2, QuestionTyped DEF CodexTypeOK
  <2>5. CodexTypeOK'
    BY <1>1, <1>3, <2>3, <2>4 DEF workerFiles, world, CodexTypeOK
  <2>6. ASSUME NEW r \in Question, r.purpose = "draft", cache'[r] # Absent PROVE response[DraftId(r)] = cache'[r]
    <3>1. CASE r = Questioned(id) /\ id.purpose # "trash"
      BY <1>1, <2>2, <2>6, <3>1, QuestionTyped DEF CodexTypeOK
    <3>2. CASE ~(r = Questioned(id) /\ id.purpose # "trash")
      <4>1. cache'[r] = cache[r]
        BY <1>1, <2>2, <3>2 DEF CodexTypeOK
      <4> QED
        BY <2>6, <4>1 DEF CodexInv, Agreed
    <3> QED
      BY <3>1, <3>2
  <2> QED
    BY <1>3, <2>1, <2>3, <2>5, <2>6, CallerOnly
<1>5. CASE ~Valid(id.purpose, call[c].locked, response[id])
  <2>1. Ends(c, "unavailable", Absent) /\ UNCHANGED cache
    BY <1>2, <1>5 DEF Settle
  <2>2. /\ call' \in [Caller -> CallRecord]
        /\ call'[c].pc = "idle" /\ call'[c].outcome = "unavailable"
        /\ \A d \in Caller : d # c => call'[d] = call[d]
    BY <2>1, EndsTyped DEF Outcome
  <2>3. CodexTypeOK'
    BY <1>1, <1>3, <2>1, <2>2 DEF workerFiles, world, CodexTypeOK
  <2>4. \A r \in Question : r.purpose = "draft" /\ cache'[r] # Absent => response[DraftId(r)] = cache'[r]
    BY <2>1 DEF CodexInv, Agreed
  <2> QED
    BY <1>3, <2>2, <2>3, <2>4, CallerOnly
<1> QED
  BY <1>4, <1>5

LEMMA GiveUpKeeps ==
  ASSUME CodexInv, NEW c \in Caller, GiveUp(c) \/ CallerDies(c) PROVE CodexInv'
<1>1. CodexTypeOK
  BY DEF CodexInv
<1>2. UNCHANGED <<worker, workerFiles, callerFiles, context, kickedOff, minute>> /\ faults' \in Nat
  BY <1>1 DEF GiveUp, CallerDies, Fault, world, CodexTypeOK
<1>3. /\ call' \in [Caller -> CallRecord]
      /\ call'[c].pc = "idle" /\ call'[c].outcome # "decided"
      /\ \A d \in Caller : d # c => call'[d] = call[d]
  <2>1. CASE GiveUp(c)
    BY <2>1, EndsTyped DEF GiveUp, Outcome
  <2>2. CASE CallerDies(c)
    BY <1>1, <2>2, IdleTyped DEF CallerDies, CodexTypeOK
  <2> QED
    BY <2>1, <2>2
<1>4. CodexTypeOK'
  BY <1>1, <1>2, <1>3 DEF workerFiles, callerFiles, CodexTypeOK
<1>5. \A r \in Question : r.purpose = "draft" /\ cache'[r] # Absent => response[DraftId(r)] = cache'[r]
  BY <1>2 DEF CodexInv, Agreed, callerFiles
<1> QED
  BY <1>2, <1>3, <1>4, <1>5, CallerOnly

-----------------------------------------------------------------------------
(* A step of the worker leaves the callers and their files alone, and keeps *)
(* every response there is.                                                 *)

LEMMA WorkerOnly ==
  ASSUME CodexInv, UNCHANGED <<call, callerFiles, context, kickedOff, minute>>,
         worker' \in WorkerRecord, response' \in [Id -> Answer \cup {Absent}],
         beat' \in Nat, faults' \in Nat, runs' \in [Id -> Nat], lost' \in [Id -> Nat],
         \A id \in Id : response[id] # Absent => response'[id] = response[id],
         worker'.pc \in {"login", "running"} => worker'.job \in worker'.todo,
         \A id \in worker'.todo : response'[id] = Absent,
         Counted', Fresh'
  PROVE  CodexInv'
<1>1. CodexTypeOK'
  BY DEF CodexInv, CodexTypeOK, callerFiles
<1>2. Held'
  BY DEF CodexInv, Held
<1>3. Agreed'
  <2>1. ASSUME NEW q \in Question, q.purpose = "draft", cache[q] # Absent PROVE response'[DraftId(q)] = cache[q]
    <3>1. DraftId(q) \in Id
      BY DEF Question, DraftId, Id
    <3> QED
      BY <2>1, <3>1 DEF CodexInv, Agreed
  <2>2. ASSUME NEW c \in Caller, call[c].outcome = "decided", call[c].id.purpose = "draft"
        PROVE  response'[call[c].id] = call[c].choice
    <3>1. call[c].id \in Id /\ call[c].choice # Absent
      BY <2>2 DEF CodexInv, Held, Choice, Absent
    <3> QED
      BY <2>2, <3>1 DEF CodexInv, Agreed
  <2>3. UNCHANGED <<call, cache>>
    BY DEF callerFiles
  <2> QED
    BY <2>1, <2>2, <2>3 DEF Agreed, DraftId
<1> QED
  BY <1>1, <1>2, <1>3 DEF CodexInv

\* A response for a request the worker holds.
LEMMA RespondKeeps ==
  ASSUME CodexInv, Awake, NEW id \in worker.todo, worker.pc = "running" => worker.job = id, NEW answer \in Answer, Respond(id, answer),
         UNCHANGED <<call, callerFiles, beat, runs, lost, world>>
  PROVE  CodexInv'
<1>1. CodexTypeOK /\ Held /\ Counted /\ Fresh
  BY DEF CodexInv
<1>2. worker \in WorkerRecord /\ id \in Id
  BY <1>1 DEF CodexTypeOK, WorkerRecord
<1>3. worker' = [worker EXCEPT !.pc = "idle", !.todo = @ \ {id}, !.job = Nobody, !.left = 0]
  BY DEF Respond
<1>4. /\ worker' \in WorkerRecord
      /\ worker'.pc = "idle" /\ worker'.todo = worker.todo \ {id} /\ worker'.stalled = worker.stalled
  BY <1>2, <1>3 DEF WorkerRecord
<1>5. /\ response' = [response EXCEPT ![id] = answer] /\ answer # Absent
      /\ response' \in [Id -> Answer \cup {Absent}]
  BY <1>1 DEF Respond, Answer, Choice, Absent, CodexTypeOK
<1>6. response[id] = Absent
  BY <1>1 DEF Held
<1>7. response'[id] # Absent /\ \A other \in Id : other # id => response'[other] = response[other]
  BY <1>1, <1>2, <1>5 DEF CodexTypeOK
<1>8. \A other \in worker'.todo : response'[other] = Absent
  BY <1>1, <1>2, <1>4, <1>7 DEF Held, WorkerRecord
<1>9. Counted'
  BY <1>1, <1>4, <1>7 DEF Counted
<1>10. Fresh'
  BY <1>1 DEF Fresh
<1> QED
  BY <1>1, <1>4, <1>5, <1>6, <1>7, <1>8, <1>9, <1>10, WorkerOnly DEF world, CodexTypeOK

LEMMA ListKeeps ==
  ASSUME CodexInv, List PROVE CodexInv'
<1>1. CodexTypeOK /\ Held /\ Counted /\ Fresh
  BY DEF CodexInv
<1>2. UNCHANGED <<call, callerFiles, workerFiles, world>> /\ worker.pc = "idle" /\ Pending \subseteq Id
  BY <1>1 DEF List, Pending, Unanswered, CodexTypeOK
<1>3. /\ worker' \in WorkerRecord
      /\ worker'.pc = "idle" /\ worker'.todo = Pending /\ worker'.stalled = worker.stalled
  BY <1>1, <1>2 DEF List, WorkerRecord, CodexTypeOK
<1>4. \A id \in worker'.todo : response[id] = Absent
  BY <1>3 DEF Pending, Unanswered
<1>5. Counted' /\ Fresh'
  BY <1>1, <1>2, <1>3 DEF Counted, Fresh, Awake, workerFiles
<1> QED
  BY <1>1, <1>2, <1>3, <1>4, <1>5, WorkerOnly DEF workerFiles, world, CodexTypeOK

LEMMA TakeKeeps ==
  ASSUME CodexInv, Take PROVE CodexInv'
<1>1. CodexTypeOK /\ Held /\ Counted /\ Fresh
  BY DEF CodexInv
<1>2. PICK id \in worker.todo : worker' = [worker EXCEPT !.pc = "login", !.job = id]
  BY DEF Take
<1>3. UNCHANGED <<call, callerFiles, workerFiles, world>> /\ worker.pc = "idle" /\ id \in Id
  BY <1>1 DEF Take, CodexTypeOK, WorkerRecord
<1>4. /\ worker' \in WorkerRecord
      /\ worker'.pc = "login" /\ worker'.job = id /\ worker'.todo = worker.todo /\ worker'.stalled = worker.stalled
  BY <1>1, <1>2, <1>3 DEF WorkerRecord, CodexTypeOK
<1>5. Counted' /\ Fresh'
  BY <1>1, <1>3, <1>4 DEF Counted, Fresh, Awake, workerFiles
<1> QED
  BY <1>1, <1>3, <1>4, <1>5, WorkerOnly DEF Held, workerFiles, world, CodexTypeOK

LEMMA StartCodexKeeps ==
  ASSUME CodexInv, StartCodex PROVE CodexInv'
<1>1. CodexTypeOK /\ Held /\ Counted /\ Fresh
  BY DEF CodexInv
<1>2. PICK id \in Id : id = worker.job /\ id \in worker.todo
  BY <1>1 DEF StartCodex, Held, CodexTypeOK, WorkerRecord
<1>3. UNCHANGED <<call, callerFiles, response, beat, lost, world>> /\ worker.pc = "login"
  BY DEF StartCodex
<1>4. /\ worker' \in WorkerRecord
      /\ worker'.pc = "running" /\ worker'.job = id /\ worker'.todo = worker.todo /\ worker'.stalled = worker.stalled
  <2>1. worker' = [worker EXCEPT !.pc = "running", !.left = IF life[id] = 0 THEN 1 ELSE life[id]]
    BY <1>2 DEF StartCodex
  <2>2. (IF life[id] = 0 THEN 1 ELSE life[id]) \in Nat
    BY <1>1 DEF CodexTypeOK
  <2> QED
    BY <1>1, <1>2, <2>1, <2>2 DEF WorkerRecord, CodexTypeOK
<1>5. /\ runs' \in [Id -> Nat] /\ runs'[id] = runs[id] + 1
      /\ \A other \in Id : other # id => runs'[other] = runs[other]
  BY <1>1, <1>2 DEF StartCodex, CodexTypeOK
<1>6. runs[id] <= lost[id]
  BY <1>1, <1>2, <1>3 DEF Held, Counted
<1>7. Counted'
  BY <1>1, <1>2, <1>3, <1>4, <1>5, <1>6 DEF Counted, CodexTypeOK
<1>8. Fresh'
  BY <1>1, <1>3, <1>4 DEF Fresh, Awake
<1> QED
  BY <1>1, <1>3, <1>4, <1>5, <1>7, <1>8, WorkerOnly, <1>2 DEF Held, world, CodexTypeOK

LEMMA StallKeeps ==
  ASSUME CodexInv, Stall PROVE CodexInv'
<1>1. CodexTypeOK /\ Held /\ Counted
  BY DEF CodexInv
<1>2. UNCHANGED <<call, callerFiles, workerFiles, context, kickedOff, minute>> /\ faults' \in Nat
  BY <1>1 DEF Stall, Fault, CodexTypeOK
<1>3. /\ worker' \in WorkerRecord /\ worker'.stalled
      /\ worker'.pc = worker.pc /\ worker'.job = worker.job /\ worker'.todo = worker.todo
  BY <1>1 DEF Stall, WorkerRecord, CodexTypeOK
<1>4. Counted' /\ Fresh'
  BY <1>1, <1>2, <1>3 DEF Counted, Fresh, Awake, workerFiles
<1> QED
  BY <1>1, <1>2, <1>3, <1>4, WorkerOnly DEF Held, workerFiles, CodexTypeOK

\* Whoever kills the worker: an answer it was waiting for is lost.
LEMMA KilledKeeps ==
  ASSUME CodexInv, Killed, UNCHANGED <<call, callerFiles, response, beat, runs, context, kickedOff, minute>>, faults' \in Nat
  PROVE  CodexInv'
<1>1. CodexTypeOK /\ Held /\ Counted
  BY DEF CodexInv
<1>2. worker' \in WorkerRecord /\ worker'.pc = "dead" /\ worker'.todo = {}
  BY RestingTyped DEF Killed
<1>3. CASE worker.pc = "running"
  <2>1. PICK id \in Id : id = worker.job
    BY <1>1, <1>3 DEF Held, CodexTypeOK, WorkerRecord
  <2>2. /\ lost' \in [Id -> Nat] /\ lost'[id] = lost[id] + 1
        /\ \A other \in Id : other # id => lost'[other] = lost[other]
    BY <1>1, <1>3, <2>1 DEF Killed, CodexTypeOK
  <2>3. Counted'
    BY <1>1, <1>2, <1>3, <2>1, <2>2 DEF Counted, CodexTypeOK
  <2>4. Fresh'
    BY <1>2 DEF Fresh, Awake
  <2> QED
    BY <1>1, <1>2, <2>2, <2>3, <2>4, WorkerOnly DEF CodexTypeOK
<1>4. CASE worker.pc # "running"
  <2>1. lost' = lost
    BY <1>4 DEF Killed
  <2>2. Counted' /\ Fresh'
    BY <1>1, <1>2, <1>4, <2>1 DEF Counted, Fresh, Awake
  <2> QED
    BY <1>1, <1>2, <2>1, <2>2, WorkerOnly DEF CodexTypeOK
<1> QED
  BY <1>3, <1>4

LEMMA StartWorkerKeeps ==
  ASSUME CodexInv, StartWorker PROVE CodexInv'
<1>1. CodexTypeOK /\ Counted
  BY DEF CodexInv
<1>2. UNCHANGED <<call, callerFiles, response, runs, lost, world>> /\ beat' = 0 /\ worker.pc = "dead"
  BY DEF StartWorker
<1>3. worker' \in WorkerRecord /\ worker'.pc = "idle" /\ worker'.todo = {}
  BY RestingTyped DEF StartWorker
<1>4. Counted' /\ Fresh'
  BY <1>1, <1>2, <1>3 DEF Counted, Fresh
<1> QED
  BY <1>1, <1>2, <1>3, <1>4, WorkerOnly DEF world, CodexTypeOK

LEMMA TickKeeps ==
  ASSUME CodexInv, Tick PROVE CodexInv'
<1>1. CodexTypeOK /\ Held /\ Counted /\ Agreed
  BY DEF CodexInv
<1>2. \A n \in Nat : Less(n) \in Nat /\ \A k \in Nat : Capped(n, k) \in Nat
  BY DEF Less, Capped
<1>3. UNCHANGED <<context, kickedOff, request, response, cache, temp, runs, lost, faults>>
  BY DEF Tick
<1>4. /\ call' \in [Caller -> CallRecord]
      /\ \A c \in Caller : /\ call'[c].pc = call[c].pc /\ call'[c].id = call[c].id
                           /\ call'[c].outcome = call[c].outcome /\ call'[c].choice = call[c].choice
  <2>1. call' = [c \in Caller |-> [call[c] EXCEPT !.left = Less(@)]]
    BY DEF Tick
  <2>2. ASSUME NEW c \in Caller PROVE [call[c] EXCEPT !.left = Less(@)] \in CallRecord
    <3>1. call[c] \in CallRecord
      BY <1>1 DEF CodexTypeOK
    <3>2. Less(call[c].left) \in Nat
      BY <1>2, <3>1 DEF CallRecord
    <3> QED
      BY <3>1, <3>2 DEF CallRecord
  <2>3. ASSUME NEW c \in Caller
        PROVE  /\ call'[c].pc = call[c].pc /\ call'[c].id = call[c].id
               /\ call'[c].outcome = call[c].outcome /\ call'[c].choice = call[c].choice
    BY <1>1, <2>1 DEF CallRecord, CodexTypeOK
  <2> QED
    BY <2>1, <2>2, <2>3
<1>5. life' \in [Id -> Nat]
  BY <1>1, <1>2 DEF Tick, CodexTypeOK
<1>6. /\ worker' \in WorkerRecord
      /\ worker'.pc = worker.pc /\ worker'.job = worker.job /\ worker'.todo = worker.todo /\ worker'.stalled = worker.stalled
  <2>1. worker \in WorkerRecord /\ worker' = [worker EXCEPT !.left = Less(@)]
    BY <1>1 DEF Tick, CodexTypeOK
  <2>2. Less(worker.left) \in Nat
    BY <1>2, <2>1 DEF WorkerRecord
  <2> QED
    BY <2>1, <2>2 DEF WorkerRecord
<1>7. beat' \in Nat /\ minute' \in 1 .. LastMinute
  BY <1>1, <1>2, CodexAssumption DEF Tick, Capped, CodexTypeOK
<1>8. CodexTypeOK'
  BY <1>1, <1>3, <1>4, <1>5, <1>6, <1>7 DEF CodexTypeOK
<1>9. Held' /\ Counted'
  BY <1>1, <1>3, <1>4, <1>6 DEF Held, Counted
<1>10. Agreed'
  BY <1>1, <1>3, <1>4 DEF Agreed, DraftId
<1>11. Fresh'
  BY <1>6 DEF Tick, Fresh, Beats, Awake
<1> QED
  BY <1>8, <1>9, <1>10, <1>11 DEF CodexInv

\* The world changes, or nothing does.
LEMMA WorldKeeps ==
  ASSUME CodexInv, (KickOff \/ \E p \in Purpose : ContextChanges(p)) \/ UNCHANGED vars PROVE CodexInv'
<1>1. CodexTypeOK /\ Held /\ Counted /\ Agreed /\ Fresh
  BY DEF CodexInv
<1>2. UNCHANGED <<minute, faults, call, worker, callerFiles, workerFiles>>
  BY DEF KickOff, ContextChanges, vars, callerFiles, workerFiles
<1>3. /\ kickedOff' \in BOOLEAN /\ context' \in [Purpose -> Nat]
      /\ \A p \in Purpose : context'[p] \in 1 .. LastContext[p]
  <2>1. CASE KickOff
    BY <1>1, <2>1 DEF KickOff, CodexTypeOK
  <2>2. CASE UNCHANGED vars
    BY <1>1, <2>2 DEF vars, CodexTypeOK
  <2>3. ASSUME NEW p \in Purpose, ContextChanges(p)
        PROVE  /\ kickedOff' \in BOOLEAN /\ context' \in [Purpose -> Nat]
               /\ \A r \in Purpose : context'[r] \in 1 .. LastContext[r]
    <3>1. context[p] < LastContext[p] /\ context' = [context EXCEPT ![p] = context[p] + 1] /\ kickedOff' = kickedOff
      BY <2>3 DEF ContextChanges
    <3>2. context[p] \in Nat /\ LastContext[p] \in Nat
      BY <1>1, CodexAssumption DEF CodexTypeOK
    <3> QED
      BY <1>1, <3>1, <3>2 DEF CodexTypeOK
  <2> QED
    BY <2>1, <2>2, <2>3
<1>4. CodexTypeOK'
  BY <1>1, <1>2, <1>3 DEF CodexTypeOK, callerFiles, workerFiles
<1>5. Held' /\ Counted' /\ Agreed' /\ Fresh'
  BY <1>1, <1>2 DEF Held, Counted, Agreed, Fresh, DraftId, Awake, callerFiles, workerFiles
<1> QED
  BY <1>4, <1>5 DEF CodexInv

-----------------------------------------------------------------------------
LEMMA NextKeeps ==
  ASSUME CodexInv, [Next]_vars PROVE CodexInv'
<1>1. CodexTypeOK /\ Held
  BY DEF CodexInv
<1>2. ASSUME NEW c \in Caller, NEW p \in Purpose, UseCache(c, p) \/ Ask(c, p) PROVE CodexInv'
  BY <1>2, UseCacheKeeps, AskKeeps
<1>3. ASSUME NEW c \in Caller, CallerStep(c) \/ CallerDies(c) PROVE CodexInv'
  BY <1>3, RenameKeeps, SettleKeeps, GiveUpKeeps DEF CallerStep
<1>4. CASE RefuseExpired
  <2>1. PICK id \in worker.todo : Respond(id, "error")
    BY <1>4 DEF RefuseExpired
  <2>2. Awake /\ worker.pc = "idle" /\ UNCHANGED <<call, callerFiles, beat, runs, lost, world>>
    BY <1>4 DEF RefuseExpired
  <2> QED
    BY <2>1, <2>2, RespondKeeps DEF Answer
<1>5. CASE LoginMissing
  <2>1. worker.job \in worker.todo /\ worker.pc = "login"
    BY <1>1, <1>5 DEF LoginMissing, Held
  <2> QED
    BY <1>5, <2>1, RespondKeeps DEF LoginMissing, Answer
<1>6. CASE CodexEnds
  <2>1. worker.job \in worker.todo
    BY <1>1, <1>6 DEF CodexEnds, Held
  <2>2. PICK answer \in Answer : Respond(worker.job, answer)
    BY <1>6 DEF CodexEnds
  <2>3. Awake /\ UNCHANGED <<call, callerFiles, beat, runs, lost, world>>
    BY <1>6 DEF CodexEnds
  <2> QED
    BY <2>1, <2>2, <2>3, RespondKeeps
<1>7. CASE List \/ Take \/ StartCodex \/ Stall \/ StartWorker \/ Tick
  BY <1>7, ListKeeps, TakeKeeps, StartCodexKeeps, StallKeeps, StartWorkerKeeps, TickKeeps
<1>8. CASE WorkerDies
  BY <1>1, <1>8, KilledKeeps DEF WorkerDies, Fault, CodexTypeOK
<1>9. CASE Watchdog
  BY <1>1, <1>9, KilledKeeps DEF Watchdog, world, CodexTypeOK
<1>10. CASE (KickOff \/ \E p \in Purpose : ContextChanges(p)) \/ UNCHANGED vars
  BY <1>10, WorldKeeps
<1> QED
  BY <1>2, <1>3, <1>4, <1>5, <1>6, <1>7, <1>8, <1>9, <1>10 DEF Next, WorkerStep

\* The types, what the worker holds, the counts, the agreement and the fresh
\* heartbeat hold in every state.
THEOREM CodexInvariant == Spec => []CodexInv
<1>1. CodexInv /\ [Next]_vars => CodexInv'
  BY NextKeeps
<1> QED
  BY <1>1, InitEstablishes, PTL DEF Spec

\* Every variable of the exchange has its type.
THEOREM CodexTypesHold == Spec => []CodexTypeOK
<1>1. CodexInv => CodexTypeOK
  BY DEF CodexInv
<1> QED
  BY <1>1, CodexInvariant, PTL

\* Whoever dies when, Codex is run again on a request only after the answer
\* of every earlier run was lost.
THEOREM RunsAreCounted == Spec => []RunsAgainOnlyAfterLoss
<1>1. CodexInv => RunsAgainOnlyAfterLoss
  BY DEF CodexInv, Counted, RunsAgainOnlyAfterLoss
<1> QED
  BY <1>1, CodexInvariant, PTL

\* Any number of rooms that are given a decision for the same board are given
\* the same one, through the request, the response file or the cache.
THEOREM RoomsAgree == Spec => []OneAnswerPerBoard
<1>1. CodexInv => OneAnswerPerBoard
  BY DEF CodexInv, Agreed, OneAnswerPerBoard
<1> QED
  BY <1>1, CodexInvariant, PTL

\* For every age the watchdog tolerates, a run it ends belonged to a worker
\* whose event loop hung.
THEOREM WatchdogSparesWork == Spec => OnlyStalledRunsAreKilled
<1>1. CodexInv /\ Watchdog /\ worker.pc \in {"login", "running"} => worker.stalled
  <2> SUFFICES ASSUME CodexInv, Watchdog, worker.pc \in {"login", "running"} PROVE worker.stalled
    BY Zenon
  <2>1. beat # 0
    BY CodexAssumption DEF Watchdog
  <2>2. ~Awake
    BY <2>1 DEF CodexInv, Fresh
  <2> QED
    BY <2>2 DEF Awake
<1>2. CodexInv /\ [Next]_vars => [Watchdog /\ worker.pc \in {"login", "running"} => worker.stalled]_vars
  BY <1>1
<1> QED
  BY <1>2, CodexInvariant, PTL DEF Spec, OnlyStalledRunsAreKilled
=============================================================================
