---------------------- MODULE NotificationOutboxProofs ----------------------
(***************************************************************************)
(* NotificationOutbox keeps its types, shows Slack a second message only   *)
(* for an unrecorded one, exceeds the daily limit by at most one alert per *)
(* additional worker, and counts the attempts of events, for any rows,     *)
(* events, workers and bounds.                                             *)
(***************************************************************************)
EXTENDS NotificationOutbox, FiniteSetTheorems, TLAPS

Carrying == {"sending", "fallback", "commit"}

\* What a worker's place in its loop says about its lock and its outcome.
PlaceOK(w) ==
  /\ worker[w].at \in {"alerts", "events"} => worker[w].key = Nothing
  /\ worker[w].at \in Carrying =>
       /\ worker[w].key \in Key
       /\ rows[worker[w].key].status \in {"pending", "failed", "blocked"}
       /\ rows[worker[w].key].attempts < AttemptLimit
  /\ worker[w].at = "running" =>
       /\ worker[w].key \in Event
       /\ events[worker[w].key].status = "pending"
  /\ worker[w].day # NoDay => worker[w].at = "commit"
  /\ worker[w].at = "commit" /\ worker[w].outcome = "delivered" => worker[w].day # NoDay
  /\ worker[w].at = "commit" /\ worker[w].outcome = "failed" => worker[w].day = NoDay

OpenEventsHaveAttempts ==
  \A e \in Event : events[e].status \in {"absent", "pending"} => events[e].attempts < AttemptLimit

\* A row lock has one holder.
Exclusive == \A v, w \in Worker : v # w /\ worker[v].key # Nothing => worker[v].key # worker[w].key

\* The message that is recorded, or about to be.
Accounted(k) ==
  IF rows[k].status = "delivered" \/ \E w \in Worker : worker[w].key = k /\ worker[w].day # NoDay THEN 1 ELSE 0
MessagesAccounted == \A k \in Key : posts[k] <= unrecorded[k] + Accounted(k)

IInv ==
  /\ TypeOK
  /\ \A w \in Worker : PlaceOK(w)
  /\ OpenEventsHaveAttempts
  /\ Exclusive
  /\ MessagesAccounted

LEMMA InitInv == Init => IInv
<1> SUFFICES ASSUME Init PROVE IInv
  OBVIOUS
<1> USE OutboxAssumption DEF Init, Idle, NoDay
<1>1. TypeOK
  BY DEF TypeOK, Row, RowStatus, EventRow, WorkerState
<1>2. \A w \in Worker : PlaceOK(w)
  BY DEF PlaceOK, Carrying
<1>3. OpenEventsHaveAttempts /\ Exclusive
  BY DEF OpenEventsHaveAttempts, Exclusive
<1>4. MessagesAccounted
  BY DEF MessagesAccounted, Accounted
<1> QED
  BY <1>1, <1>2, <1>3, <1>4 DEF IInv

LEMMA DivNat == ASSUME NEW a \in Nat, NEW b \in Nat \ {0} PROVE a \div b \in Nat
  BY SMT

LEMMA TodayTyped == ASSUME TypeOK PROVE Today \in Nat
  BY DivNat, OutboxAssumption DEF Today, TypeOK

\* Producers and the environment: no worker moves, no held row changes.
LEMMA InsertKeeps ==
  ASSUME IInv, NEW k \in Key, NEW status \in {"pending", "blocked"}, InsertRow(k, status)
  PROVE  IInv'
<1> USE DEF IInv
<1>1. TypeOK'
  <2>1. [rows[k] EXCEPT !.status = status] \in Row
    BY DEF TypeOK, Row, RowStatus
  <2>2. Append(created, k) \in Seq(Key)
    BY DEF TypeOK
  <2> QED
    BY <2>1, <2>2 DEF InsertRow, TypeOK
<1>2. \A w \in Worker : PlaceOK(w)'
  BY DEF InsertRow, PlaceOK, TypeOK, Row, RowStatus, WorkerState, Carrying
<1>3. OpenEventsHaveAttempts' /\ Exclusive'
  BY DEF InsertRow, OpenEventsHaveAttempts, Exclusive
<1>4. MessagesAccounted'
  BY DEF InsertRow, MessagesAccounted, Accounted, TypeOK, Row, RowStatus
<1> QED
  BY <1>1, <1>2, <1>3, <1>4

LEMMA EnvironmentKeeps ==
  ASSUME IInv, \/ \E e \in Event : EnqueueEvent(e)
               \/ SlackChanges \/ Configure \/ Tick \/ UNCHANGED vars
  PROVE  IInv'
<1> USE OutboxAssumption DEF IInv
<1>1. ASSUME NEW e \in Event, EnqueueEvent(e) PROVE IInv'
  <2> USE <1>1 DEF EnqueueEvent
  <2>1. TypeOK'
    BY DEF TypeOK, EventRow
  <2>2. \A w \in Worker : PlaceOK(w)'
    BY DEF PlaceOK, TypeOK, EventRow, Carrying
  <2>3. OpenEventsHaveAttempts'
    BY DEF OpenEventsHaveAttempts, TypeOK, EventRow
  <2>4. Exclusive' /\ MessagesAccounted'
    BY DEF Exclusive, MessagesAccounted, Accounted
  <2> QED
    BY <2>1, <2>2, <2>3, <2>4
<1>2. ASSUME SlackChanges \/ Configure \/ Tick \/ UNCHANGED vars PROVE IInv'
  <2>1. /\ UNCHANGED <<rows, created, events, worker, crashes, posts, unrecorded, runs>>
    BY <1>2 DEF SlackChanges, Configure, Tick, vars
  <2>2. now' \in Nat
    BY <1>2 DEF SlackChanges, Configure, Tick, vars, TypeOK
  <2>3. slackUp' \in BOOLEAN /\ configured' \in BOOLEAN
    BY <1>2, Zenon DEF SlackChanges, Configure, Tick, vars, TypeOK
  <2> QED
    BY <2>1, <2>2, <2>3 DEF TypeOK, PlaceOK, OpenEventsHaveAttempts, Exclusive, MessagesAccounted, Accounted
<1> QED
  BY <1>1, <1>2

-----------------------------------------------------------------------------
(* The worker. *)

LEMMA IdleTyped ==
  ASSUME NEW place \in {"alerts", "events"}
  PROVE  [Idle EXCEPT !.at = place] \in WorkerState
  BY DEF Idle, WorkerState

\* A worker that holds nothing settles a row, or goes on.
LEMMA SettleKeeps ==
  ASSUME IInv, NEW w \in Worker, (\E k \in Key : SettleAlert(w, k)) \/ NoAlert(w) \/ NoEvent(w)
  PROVE  IInv'
<1> USE OutboxAssumption DEF IInv
<1>1. ASSUME NEW k \in Key, SettleAlert(w, k) PROVE IInv'
  <2> USE <1>1 DEF SettleAlert, Goto
  <2>1. Eligible(k) /\ ~Locked(k)
    BY DEF NextAlert, Eligible
  <2>2. PICK status \in {"suppressed", "blocked"} : rows' = [rows EXCEPT ![k].status = status]
    OBVIOUS
  <2>3. worker' = [worker EXCEPT ![w] = [Idle EXCEPT !.at = "events"]]
    OBVIOUS
  <2>4. TypeOK'
    <3>1. [rows[k] EXCEPT !.status = status] \in Row
      <4> HIDE <1>1 DEF SettleAlert
      <4> QED
        BY DEF TypeOK, Row, RowStatus
    <3>2. rows' \in [Key -> Row] /\ worker' \in [Worker -> WorkerState]
      BY <2>2, <2>3, <3>1, IdleTyped DEF TypeOK
    <3> QED
      BY <3>2 DEF TypeOK
  <2>5. \A v \in Worker : PlaceOK(v)'
    BY <2>1, <2>2, <2>3 DEF PlaceOK, TypeOK, Row, RowStatus, Locked, Idle, Carrying, WorkerState
  <2>6. OpenEventsHaveAttempts' /\ Exclusive'
    BY <2>3 DEF OpenEventsHaveAttempts, Exclusive, Idle, TypeOK, WorkerState
  <2>7. MessagesAccounted'
    <3> SUFFICES ASSUME NEW j \in Key PROVE posts'[j] <= unrecorded'[j] + Accounted(j)'
      BY DEF MessagesAccounted
    <3>1. rows[k].status # "delivered"
      BY <2>1 DEF Eligible
    <3>2. worker[w].day = NoDay
      BY DEF PlaceOK
    <3>3. Accounted(j)' = Accounted(j)
      BY <2>2, <2>3, <3>1, <3>2 DEF Accounted, TypeOK, Row, RowStatus, Idle, WorkerState
    <3> QED
      BY <3>3 DEF MessagesAccounted
  <2> QED
    BY <2>4, <2>5, <2>6, <2>7
<1>2. ASSUME NoAlert(w) \/ NoEvent(w) PROVE IInv'
  <2>1. PICK place \in {"alerts", "events"} :
          /\ worker' = [worker EXCEPT ![w] = [Idle EXCEPT !.at = place]]
          /\ UNCHANGED <<now, rows, created, events, slackUp, configured, crashes, posts, unrecorded, runs>>
    BY <1>2 DEF NoAlert, NoEvent, Goto
  <2>2. worker[w].at \in {"alerts", "events"} /\ worker[w].day = NoDay
    BY <1>2 DEF NoAlert, NoEvent, PlaceOK
  <2>3. TypeOK'
    BY <2>1, IdleTyped DEF TypeOK
  <2>4. \A v \in Worker : PlaceOK(v)'
    BY <2>1 DEF PlaceOK, TypeOK, Idle, Carrying, WorkerState
  <2>5. OpenEventsHaveAttempts' /\ Exclusive'
    BY <2>1 DEF OpenEventsHaveAttempts, Exclusive, Idle, TypeOK, WorkerState
  <2>6. MessagesAccounted'
    BY <2>1, <2>2 DEF MessagesAccounted, Accounted, TypeOK, Idle, WorkerState
  <2> QED
    BY <2>3, <2>4, <2>5, <2>6
<1> QED
  BY <1>1, <1>2

LEMMA TakeKeeps ==
  ASSUME IInv, NEW w \in Worker, (\E k \in Key : TakeAlert(w, k)) \/ (\E e \in Event : TakeEvent(w, e))
  PROVE  IInv'
<1> USE OutboxAssumption DEF IInv
<1>1. ASSUME NEW k \in Key, TakeAlert(w, k) PROVE IInv'
  <2>1. Eligible(k) /\ ~Locked(k) /\ k # Nothing
    BY <1>1 DEF TakeAlert, NextAlert, Eligible
  <2>2. worker[w].day = NoDay
    BY <1>1 DEF TakeAlert, PlaceOK
  <2>3. /\ worker' = [worker EXCEPT ![w] = [@ EXCEPT !.at = "sending", !.key = k, !.fallback = rows[k].fallback]]
        /\ UNCHANGED <<now, rows, created, events, slackUp, configured, crashes, posts, unrecorded, runs>>
    BY <1>1 DEF TakeAlert
  <2>4. worker \in [Worker -> WorkerState] /\ rows[k].fallback \in BOOLEAN
    BY DEF TypeOK, Row
  <2>5. /\ worker'[w] \in WorkerState /\ worker'[w].key = k /\ worker'[w].at = "sending" /\ worker'[w].day = NoDay
        /\ worker' \in [Worker -> WorkerState]
        /\ \A v \in Worker : v # w => worker'[v] = worker[v]
    <3> DEFINE taken == [worker[w] EXCEPT !.at = "sending", !.key = k, !.fallback = rows[k].fallback]
    <3> HIDE DEF IInv
    <3>1. taken \in WorkerState /\ taken.key = k /\ taken.at = "sending" /\ taken.day = NoDay
      <4>1. worker[w] \in WorkerState
        BY <2>4
      <4>2. taken \in WorkerState
        BY <2>4, <4>1 DEF WorkerState
      <4>3. taken.key = k /\ taken.at = "sending" /\ taken.day = worker[w].day
        BY <4>1 DEF WorkerState
      <4> QED
        BY <2>2, <4>2, <4>3
    <3>2. worker' = [worker EXCEPT ![w] = taken]
      BY <2>3
    <3> HIDE DEF taken
    <3> QED
      BY <2>4, <3>1, <3>2
  <2>6. TypeOK'
    BY <2>3, <2>5 DEF TypeOK
  <2>7. \A v \in Worker : worker[v].key # k
    BY <2>1 DEF Locked
  <2>8. \A v \in Worker : PlaceOK(v)'
    <3>1. rows[k].status \in {"pending", "failed", "blocked"} /\ rows[k].attempts < AttemptLimit
      BY <2>1 DEF Eligible
    <3>2. PlaceOK(w)'
      BY <2>3, <2>5, <3>1 DEF PlaceOK, Carrying
    <3>3. ASSUME NEW v \in Worker, v # w PROVE PlaceOK(v)'
      BY <2>3, <2>5, <3>3 DEF PlaceOK
    <3> QED
      BY <3>2, <3>3
  <2>9. OpenEventsHaveAttempts' /\ Exclusive'
    BY <2>3, <2>5, <2>7 DEF OpenEventsHaveAttempts, Exclusive
  <2>10. MessagesAccounted'
    <3>1. \A j \in Key : Accounted(j)' = Accounted(j)
      <4> HIDE DEF IInv
      <4> QED
        BY <2>2, <2>3, <2>5 DEF Accounted
    <3> QED
      BY <2>3, <3>1 DEF MessagesAccounted
  <2> QED
    BY <2>6, <2>8, <2>9, <2>10
<1>2. ASSUME NEW e \in Event, TakeEvent(w, e) PROVE IInv'
  <2>1. events[e].status = "pending" /\ ~Locked(e) /\ e # Nothing /\ e \notin Key
    BY <1>2 DEF TakeEvent, Due
  <2>2. worker[w].day = NoDay
    BY <1>2 DEF TakeEvent, PlaceOK
  <2>3. /\ worker' = [worker EXCEPT ![w] = [@ EXCEPT !.at = "running", !.key = e]]
        /\ runs' = [runs EXCEPT ![e] = @ + 1]
        /\ UNCHANGED <<now, rows, created, events, slackUp, configured, crashes, posts, unrecorded>>
    BY <1>2 DEF TakeEvent
  <2>4. worker[w] \in WorkerState /\ worker \in [Worker -> WorkerState]
    BY DEF TypeOK
  <2>5. /\ worker'[w] \in WorkerState /\ worker'[w].key = e /\ worker'[w].at = "running" /\ worker'[w].day = NoDay
        /\ worker' \in [Worker -> WorkerState]
        /\ \A v \in Worker : v # w => worker'[v] = worker[v]
    <3> HIDE DEF IInv
    <3> QED
      BY <2>2, <2>3, <2>4 DEF WorkerState
  <2>6. TypeOK'
    BY <2>3, <2>5 DEF TypeOK
  <2>7. \A v \in Worker : worker[v].key # e
    BY <2>1 DEF Locked
  <2>8. \A v \in Worker : PlaceOK(v)'
    <3>1. PlaceOK(w)'
      BY <2>1, <2>3, <2>5 DEF PlaceOK, Carrying
    <3>2. ASSUME NEW v \in Worker, v # w PROVE PlaceOK(v)'
      BY <3>2, <2>3, <2>5 DEF PlaceOK
    <3> QED
      BY <3>1, <3>2
  <2>9. OpenEventsHaveAttempts' /\ Exclusive'
    BY <2>3, <2>5, <2>7 DEF OpenEventsHaveAttempts, Exclusive
  <2>10. MessagesAccounted'
    <3>1. \A j \in Key : Accounted(j)' = Accounted(j)
      <4> HIDE DEF IInv
      <4> QED
        BY <2>2, <2>3, <2>5 DEF Accounted
    <3> QED
      BY <2>3, <3>1 DEF MessagesAccounted
  <2> QED
    BY <2>6, <2>8, <2>9, <2>10
<1> QED
  BY <1>1, <1>2

\* The answers of Slack: the row stays locked, the message is accounted for.
LEMMA PostKeeps ==
  ASSUME IInv, NEW w \in Worker, PostAccepted(w) \/ PostAnswerLost(w) \/ PostRefused(w)
  PROVE  IInv'
<1> USE OutboxAssumption DEF IInv
<1> DEFINE k == worker[w].key
<1>1. /\ worker[w].at \in {"sending", "fallback"} /\ k \in Key /\ k # Nothing
      /\ worker[w].day = NoDay
      /\ rows[k].status \in {"pending", "failed", "blocked"} /\ rows[k].attempts < AttemptLimit
  BY DEF PostAccepted, PostAnswerLost, PostRefused, Sending, PlaceOK, Carrying
<1>2. \A v \in Worker : v # w => worker[v].key # k
  BY <1>1 DEF Exclusive
<1>3. ASSUME PostAccepted(w) PROVE IInv'
  <2> USE <1>3 DEF PostAccepted
  <2>1. TypeOK'
    <3>1. worker'[w] \in WorkerState
      <4>1. worker \in [Worker -> WorkerState] /\ Today \in Nat
        BY TodayTyped DEF TypeOK
      <4>2. worker' = [worker EXCEPT ![w] = [@ EXCEPT !.at = "commit", !.outcome = "delivered", !.day = Today]]
        OBVIOUS
      <4> HIDE <1>3 DEF IInv
      <4> QED
        BY <4>1, <4>2 DEF WorkerState
    <3>2. posts' \in [Key -> Nat]
      BY <1>1 DEF TypeOK
    <3> QED
      BY <3>1, <3>2 DEF TypeOK
  <2>2. Today # NoDay
    BY TodayTyped DEF NoDay
  <2>3. \A v \in Worker : PlaceOK(v)'
    BY <1>1, <2>2 DEF PlaceOK, TypeOK, Carrying, WorkerState
  <2>4. OpenEventsHaveAttempts' /\ Exclusive'
    BY DEF OpenEventsHaveAttempts, Exclusive, TypeOK, WorkerState
  <2>5. MessagesAccounted'
    <3> SUFFICES ASSUME NEW j \in Key PROVE posts'[j] <= unrecorded'[j] + Accounted(j)'
      BY DEF MessagesAccounted
    <3>1. CASE j = k
      <4>1. Accounted(k) = 0
        BY <1>1, <1>2 DEF Accounted
      <4>2. Accounted(k)' = 1
        BY <1>1, <2>2 DEF Accounted, TypeOK, WorkerState
      <4> QED
        BY <3>1, <4>1, <4>2 DEF MessagesAccounted, TypeOK
    <3>2. CASE j # k
      <4>1. Accounted(j)' = Accounted(j)
        BY <1>1, <3>2 DEF Accounted, TypeOK, WorkerState
      <4> QED
        BY <3>2, <4>1 DEF MessagesAccounted, TypeOK
    <3> QED
      BY <3>1, <3>2
  <2> QED
    BY <2>1, <2>3, <2>4, <2>5
<1>4. ASSUME PostAnswerLost(w) \/ PostRefused(w) PROVE IInv'
  <2>1. /\ worker' = [worker EXCEPT ![w] = AfterFailure(w)]
        /\ UNCHANGED <<now, rows, created, events, slackUp, configured, crashes, runs>>
    BY <1>4 DEF PostAnswerLost, PostRefused
  <2>2. /\ AfterFailure(w) \in WorkerState
        /\ AfterFailure(w).key = k
        /\ AfterFailure(w).day = NoDay
        /\ AfterFailure(w).at \in {"fallback", "commit"}
        /\ AfterFailure(w).at = "commit" => AfterFailure(w).outcome = "failed"
    <3>1. worker[w] \in WorkerState
      BY DEF TypeOK
    <3> HIDE DEF IInv
    <3> QED
      BY <1>1, <3>1 DEF AfterFailure, WorkerState
  <2>3. /\ posts' \in [Key -> Nat] /\ unrecorded' \in [Key -> Nat]
        /\ \A j \in Key : posts'[j] <= unrecorded'[j] + (posts[j] - unrecorded[j])
    <3>1. CASE PostRefused(w)
      BY <3>1 DEF PostRefused, TypeOK
    <3>2. CASE PostAnswerLost(w)
      BY <1>1, <3>2 DEF PostAnswerLost, TypeOK
    <3> QED
      BY <1>4, <3>1, <3>2
  <2>4. TypeOK'
    BY <2>1, <2>2, <2>3 DEF TypeOK
  <2>5. \A v \in Worker : PlaceOK(v)'
    BY <1>1, <2>1, <2>2 DEF PlaceOK, TypeOK, Carrying
  <2>6. OpenEventsHaveAttempts' /\ Exclusive'
    BY <2>1, <2>2 DEF OpenEventsHaveAttempts, Exclusive, TypeOK
  <2>7. \A j \in Key : Accounted(j)' = Accounted(j)
    BY <1>1, <2>1, <2>2 DEF Accounted, TypeOK
  <2>8. \A j \in Key : Accounted(j) \in {0, 1}
    BY DEF Accounted
  <2>9. MessagesAccounted'
    <3> SUFFICES ASSUME NEW j \in Key PROVE posts'[j] <= unrecorded'[j] + Accounted(j)'
      BY DEF MessagesAccounted
    <3>1. posts[j] <= unrecorded[j] + Accounted(j) /\ {posts[j], unrecorded[j], posts'[j], unrecorded'[j]} \subseteq Nat
      BY <2>3 DEF MessagesAccounted, TypeOK
    <3> QED
      BY <2>3, <2>7, <2>8, <3>1
  <2> QED
    BY <2>4, <2>5, <2>6, <2>9
<1> QED
  BY <1>3, <1>4

\* The transaction's end: committed, or rolled back with its worker.
LEMMA CommitKeeps ==
  ASSUME IInv, NEW w \in Worker, CommitAlert(w)
  PROVE  IInv'
<1>0. PICK k \in Key : k = worker[w].key
  BY DEF IInv, CommitAlert, PlaceOK, Carrying
<1> DEFINE row == [status |-> worker[w].outcome, attempts |-> rows[k].attempts + 1,
                  day |-> worker[w].day, fallback |-> worker[w].fallback]
<1>1. /\ k # Nothing /\ worker[w].at = "commit"
      /\ rows[k].status \in {"pending", "failed", "blocked"} /\ rows[k].attempts < AttemptLimit
      /\ worker[w].outcome = "delivered" <=> worker[w].day # NoDay
  BY <1>0, OutboxAssumption DEF IInv, CommitAlert, PlaceOK, Carrying, TypeOK, WorkerState
<1>2. /\ rows' = [rows EXCEPT ![k] = row]
      /\ worker' = [worker EXCEPT ![w] = [Idle EXCEPT !.at = "events"]]
      /\ UNCHANGED <<now, created, events, slackUp, configured, crashes, posts, unrecorded, runs>>
  BY <1>0 DEF CommitAlert, Goto
<1>3. row \in Row /\ row.status \in {"delivered", "failed"} /\ row.status = worker[w].outcome
  BY <1>1, OutboxAssumption DEF IInv, TypeOK, Row, RowStatus, WorkerState
<1>4. rows \in [Key -> Row] /\ worker \in [Worker -> WorkerState]
  BY DEF IInv, TypeOK
<1>5. /\ rows'[k] = row /\ \A j \in Key : j # k => rows'[j] = rows[j]
      /\ \A v \in Worker : v # w => worker'[v] = worker[v]
      /\ rows' \in [Key -> Row] /\ worker' \in [Worker -> WorkerState]
  <2> HIDE DEF row
  <2> QED
    BY <1>1, <1>2, <1>3, <1>4, IdleTyped
<1>6. worker'[w].key = Nothing /\ worker'[w].at = "events" /\ worker'[w].day = NoDay
  BY <1>2, <1>4 DEF Idle
<1>7. \A v \in Worker : v # w => worker[v].key # k
  BY <1>0, <1>1 DEF IInv, Exclusive
<1> HIDE DEF row
<1>8. TypeOK'
  BY <1>2, <1>5 DEF IInv, TypeOK
<1>9. \A v \in Worker : PlaceOK(v)'
  <2>1. PlaceOK(w)'
    BY <1>6 DEF PlaceOK, Carrying
  <2>2. ASSUME NEW v \in Worker, v # w PROVE PlaceOK(v)'
    BY <1>2, <1>5, <1>7, <2>2 DEF IInv, PlaceOK
  <2> QED
    BY <2>1, <2>2
<1>10. OpenEventsHaveAttempts' /\ Exclusive'
  BY <1>2, <1>5, <1>6 DEF IInv, OpenEventsHaveAttempts, Exclusive
<1>11. MessagesAccounted'
  <2> SUFFICES ASSUME NEW j \in Key PROVE Accounted(j)' = Accounted(j)
    BY <1>2 DEF IInv, MessagesAccounted
  <2>1. CASE j # k
    BY <1>0, <1>5, <1>6, <2>1, OutboxAssumption DEF Accounted
  <2>2. CASE j = k
    <3>1. Accounted(k)' = IF row.status = "delivered" THEN 1 ELSE 0
      BY <1>1, <1>5, <1>6, <1>7 DEF Accounted
    <3>2. Accounted(k) = IF worker[w].day # NoDay THEN 1 ELSE 0
      BY <1>0, <1>1, <1>7 DEF Accounted
    <3> QED
      BY <1>1, <1>3, <2>2, <3>1, <3>2
  <2> QED
    BY <2>1, <2>2
<1> QED
  BY <1>8, <1>9, <1>10, <1>11 DEF IInv

LEMMA BackoffTyped == ASSUME NEW a \in Nat PROVE Backoff(a) \in Nat
<1>1. ASSUME NEW x \in 0 .. BackoffCap PROVE x \in Nat
  BY OutboxAssumption
<1>2. CASE 2 ^ a \in 0 .. BackoffCap
  <2>1. Backoff(a) = 2 ^ a
    BY <1>2, Zenon DEF Backoff
  <2> QED
    BY <1>1, <1>2, <2>1, Zenon
<1>3. CASE ~(2 ^ a \in 0 .. BackoffCap)
  BY <1>3, OutboxAssumption, Zenon DEF Backoff
<1> QED
  BY <1>2, <1>3

LEMMA FinishKeeps ==
  ASSUME IInv, NEW w \in Worker, FinishEvent(w)
  PROVE  IInv'
<1>0. PICK e \in Event : e = worker[w].key
  BY DEF IInv, FinishEvent, PlaceOK
<1>1. worker[w].at = "running" /\ worker[w].day = NoDay /\ events[e].status = "pending"
  BY <1>0 DEF IInv, FinishEvent, PlaceOK
<1>2. PICK old \in EventRow : old = events[e] /\ old.attempts < AttemptLimit /\ old.status = "pending"
  BY <1>1 DEF IInv, TypeOK, OpenEventsHaveAttempts
<1>3. PICK row \in {Completed(old), Retried(old)} : events' = [events EXCEPT ![e] = row]
  BY <1>0, <1>2 DEF FinishEvent
<1>4. row \in EventRow /\ (row.status \in {"absent", "pending"} => row.attempts < AttemptLimit)
  <2>0. old.attempts \in Nat /\ old.attempts + 1 \in 0 .. AttemptLimit
    BY <1>2, OutboxAssumption DEF EventRow
  <2>1. now + Backoff(old.attempts + 1) \in Nat
    <3>1. old.attempts + 1 \in Nat /\ now \in Nat
      BY <2>0 DEF IInv, TypeOK
    <3>2. Backoff(old.attempts + 1) \in Nat
      BY <3>1, BackoffTyped, Zenon
    <3> QED
      BY <3>1, <3>2
  <2>2. Completed(old) \in EventRow /\ Completed(old).status = "completed"
    <3> HIDE DEF IInv, FinishEvent
    <3> QED
      BY <1>2, <2>0 DEF EventRow, Completed
  <2>3. /\ Retried(old) \in EventRow
        /\ Retried(old).status = "pending" => Retried(old).attempts < AttemptLimit
        /\ Retried(old).status # "absent"
    <3> HIDE DEF IInv, FinishEvent
    <3>1. CASE old.attempts + 1 >= AttemptLimit
      <4>1. Retried(old) = [old EXCEPT !.status = "failed", !.attempts = @ + 1]
        BY <3>1 DEF Retried
      <4> QED
        BY <1>2, <2>0, <4>1 DEF EventRow
    <3>2. CASE ~(old.attempts + 1 >= AttemptLimit)
      <4>1. Retried(old) = [old EXCEPT !.attempts = @ + 1, !.notBefore = now + Backoff(old.attempts + 1)]
        BY <3>2 DEF Retried
      <4>2. /\ Retried(old) \in EventRow
            /\ Retried(old).attempts = old.attempts + 1
            /\ Retried(old).status = old.status
        BY <1>2, <2>0, <2>1, <4>1 DEF EventRow
      <4> QED
        BY <1>2, <2>0, <3>2, <4>2, OutboxAssumption
    <3> QED
      BY <3>1, <3>2
  <2> QED
    BY <2>2, <2>3
<1>5. /\ worker' = [worker EXCEPT ![w] = [Idle EXCEPT !.at = "alerts"]]
      /\ UNCHANGED <<now, rows, created, slackUp, configured, crashes, posts, unrecorded, runs>>
  BY DEF FinishEvent, Goto
<1>6. /\ worker'[w].key = Nothing /\ worker'[w].at = "alerts" /\ worker'[w].day = NoDay
      /\ \A v \in Worker : v # w => worker'[v] = worker[v]
      /\ worker' \in [Worker -> WorkerState]
  BY <1>5, IdleTyped DEF Idle, IInv, TypeOK
<1>7. \A v \in Worker : v # w => worker[v].key # e
  BY <1>0, OutboxAssumption DEF IInv, Exclusive
<1>8. events' \in [Event -> EventRow] /\ events'[e] = row /\ \A f \in Event : f # e => events'[f] = events[f]
  <2> QED
    BY <1>1, <1>3, <1>4 DEF IInv, TypeOK
<1>9. TypeOK'
  BY <1>5, <1>6, <1>8 DEF IInv, TypeOK
<1>10. \A v \in Worker : PlaceOK(v)'
  <2>1. PlaceOK(w)'
    BY <1>6 DEF PlaceOK, Carrying
  <2>2. ASSUME NEW v \in Worker, v # w PROVE PlaceOK(v)'
    BY <1>5, <1>6, <1>7, <1>8, <2>2 DEF IInv, PlaceOK
  <2> QED
    BY <2>1, <2>2
<1>11. OpenEventsHaveAttempts'
  BY <1>4, <1>8 DEF IInv, OpenEventsHaveAttempts
<1>12. Exclusive'
  BY <1>6 DEF IInv, Exclusive
<1>13. MessagesAccounted'
  <2>1. \A j \in Key : Accounted(j)' = Accounted(j)
    BY <1>1, <1>5, <1>6 DEF Accounted
  <2> QED
    BY <1>5, <2>1 DEF IInv, MessagesAccounted
<1> QED
  BY <1>9, <1>10, <1>11, <1>12, <1>13 DEF IInv

LEMMA DeathKeeps ==
  ASSUME IInv, NEW w \in Worker, WorkerDies(w)
  PROVE  IInv'
<1> DEFINE k == worker[w].key
<1>1. /\ worker' = [worker EXCEPT ![w] = Idle]
      /\ crashes' = crashes + 1
      /\ UNCHANGED <<now, rows, created, events, slackUp, configured, posts, runs>>
      /\ unrecorded' = IF worker[w].day # NoDay THEN [unrecorded EXCEPT ![k] = @ + 1] ELSE unrecorded
  BY DEF WorkerDies
<1>2. worker[w].day # NoDay => k \in Key
  BY DEF IInv, PlaceOK, Carrying
<1>3. Idle \in WorkerState /\ Idle.key = Nothing /\ Idle.at = "alerts" /\ Idle.day = NoDay
  BY DEF Idle, WorkerState
<1>4. /\ worker'[w] = Idle /\ \A v \in Worker : v # w => worker'[v] = worker[v]
      /\ worker' \in [Worker -> WorkerState]
  BY <1>1, <1>3 DEF IInv, TypeOK
<1>5. /\ unrecorded' \in [Key -> Nat]
      /\ \A j \in Key : unrecorded'[j] = unrecorded[j] + IF worker[w].day # NoDay /\ j = k THEN 1 ELSE 0
  BY <1>1, <1>2 DEF IInv, TypeOK
<1>6. TypeOK'
  BY <1>1, <1>4, <1>5 DEF IInv, TypeOK
<1>7. \A v \in Worker : PlaceOK(v)'
  BY <1>1, <1>3, <1>4 DEF IInv, PlaceOK, Carrying
<1>8. OpenEventsHaveAttempts' /\ Exclusive'
  BY <1>1, <1>3, <1>4 DEF IInv, OpenEventsHaveAttempts, Exclusive
<1>9. MessagesAccounted'
  <2> SUFFICES ASSUME NEW j \in Key PROVE posts'[j] <= unrecorded'[j] + Accounted(j)'
    BY DEF MessagesAccounted
  <2>1. posts[j] <= unrecorded[j] + Accounted(j) /\ posts'[j] = posts[j] /\ posts[j] \in Nat /\ unrecorded[j] \in Nat
    BY <1>1 DEF IInv, MessagesAccounted, TypeOK
  <2>2. Accounted(j) \in {0, 1} /\ Accounted(j)' \in {0, 1}
    BY DEF Accounted
  <2>3. CASE worker[w].day # NoDay /\ j = k
    BY <1>5, <2>1, <2>2, <2>3
  <2>4. CASE ~(worker[w].day # NoDay /\ j = k)
    <3>1. Accounted(j) = Accounted(j)'
      BY <1>1, <1>3, <1>4, <2>4 DEF Accounted
    <3> QED
      BY <1>5, <2>1, <2>4, <3>1
  <2> QED
    BY <2>3, <2>4
<1> QED
  BY <1>6, <1>7, <1>8, <1>9 DEF IInv

LEMMA StepKeeps == ASSUME IInv, [Next]_vars PROVE IInv'
<1>1. ASSUME NEW k \in Operational, QueueSlackAlert(k) PROVE IInv'
  BY <1>1, InsertKeeps DEF QueueSlackAlert, Key
<1>2. ASSUME NEW k \in Trash, QueueTrashTalk(k) PROVE IInv'
  BY <1>2, InsertKeeps DEF QueueTrashTalk, Key
<1>3. ASSUME NEW w \in Worker, WorkerStep(w) \/ WorkerDies(w) PROVE IInv'
  BY <1>3, SettleKeeps, TakeKeeps, PostKeeps, CommitKeeps, FinishKeeps, DeathKeeps DEF WorkerStep
<1> QED
  BY <1>1, <1>2, <1>3, EnvironmentKeeps DEF Next

\* The rows, events and workers keep the shape the code gives them.
THEOREM TypeCorrect == Spec => []TypeOK
<1>1. IInv => TypeOK
  BY DEF IInv
<1> QED
  BY <1>1, InitInv, StepKeeps, PTL DEF Spec

\* Slack shows an alert again only when an earlier message of it went
\* unrecorded, for any number of workers, crashes and lost answers.
THEOREM NoNeedlessRepeat == Spec => []RepeatsOnlyTheUnrecorded
<1>1. IInv => RepeatsOnlyTheUnrecorded
  <2> SUFFICES ASSUME IInv, NEW k \in Key PROVE posts[k] <= 1 + unrecorded[k]
    BY DEF RepeatsOnlyTheUnrecorded
  <2>1. Accounted(k) \in {0, 1}
    BY DEF Accounted
  <2> QED
    BY <2>1 DEF IInv, TypeOK, MessagesAccounted
<1> QED
  BY <1>1, InitInv, StepKeeps, PTL DEF Spec

-----------------------------------------------------------------------------
(* The daily limit.  A worker that took an alert while the day had room    *)
(* may still deliver it: those alerts are counted with the delivered ones. *)

InFlight(d) ==
  {w \in Worker :
    /\ worker[w].key \in Operational
    /\ \/ worker[w].at \in {"sending", "fallback"} /\ Today <= d
       \/ worker[w].at = "commit" /\ worker[w].day = d}

\* No row and no worker holds a delivery of a later day.
NoneAhead == (\A k \in Key : rows[k].day <= Today) /\ (\A w \in Worker : worker[w].day <= Today)

WithinLimit ==
  \A d \in Nat : Cardinality(DeliveredOn(d)) + Cardinality(InFlight(d)) < DailyLimit + Cardinality(Worker)

LInv == IInv /\ NoneAhead /\ WithinLimit

\* The three ways a step changes the delivered alerts D and those in flight F.
LEMMA LimitShrinks ==
  ASSUME NEW D \in SUBSET Operational, NEW F \in SUBSET Worker, NEW D2 \in SUBSET D, NEW F2 \in SUBSET F,
         Cardinality(D) + Cardinality(F) < DailyLimit + Cardinality(Worker)
  PROVE  Cardinality(D2) + Cardinality(F2) < DailyLimit + Cardinality(Worker)
<1>1. /\ IsFiniteSet(D) /\ IsFiniteSet(F)
      /\ Cardinality(D2) <= Cardinality(D) /\ Cardinality(F2) <= Cardinality(F)
      /\ IsFiniteSet(D2) /\ IsFiniteSet(F2) /\ IsFiniteSet(Worker)
  BY FS_Subset, OutboxAssumption
<1>2. {Cardinality(D), Cardinality(F), Cardinality(D2), Cardinality(F2), Cardinality(Worker)} \subseteq Nat
  BY <1>1, FS_CardinalityType
<1> QED
  BY <1>1, <1>2, OutboxAssumption

LEMMA LimitStarts ==
  ASSUME NEW D \in SUBSET Operational, NEW F2 \in SUBSET Worker, Cardinality(D) < DailyLimit
  PROVE  Cardinality(D) + Cardinality(F2) < DailyLimit + Cardinality(Worker)
<1>1. IsFiniteSet(D) /\ IsFiniteSet(F2) /\ IsFiniteSet(Worker) /\ Cardinality(F2) <= Cardinality(Worker)
  BY FS_Subset, OutboxAssumption
<1>2. {Cardinality(D), Cardinality(F2), Cardinality(Worker)} \subseteq Nat
  BY <1>1, FS_CardinalityType
<1> QED
  BY <1>1, <1>2, OutboxAssumption

LEMMA LimitCommits ==
  ASSUME NEW D \in SUBSET Operational, NEW F \in SUBSET Worker, NEW k \in Operational, NEW w \in F,
         Cardinality(D) + Cardinality(F) < DailyLimit + Cardinality(Worker)
  PROVE  Cardinality(D \cup {k}) + Cardinality(F \ {w}) < DailyLimit + Cardinality(Worker)
<1>1. IsFiniteSet(D) /\ IsFiniteSet(F) /\ IsFiniteSet(Worker)
  BY FS_Subset, OutboxAssumption
<1>2. /\ Cardinality(D \cup {k}) = Cardinality(D) \/ Cardinality(D \cup {k}) = Cardinality(D) + 1
      /\ Cardinality(F \ {w}) = Cardinality(F) - 1
  BY <1>1, FS_AddElement, FS_RemoveElement
<1>3. {Cardinality(D), Cardinality(F), Cardinality(Worker)} \subseteq Nat
  BY <1>1, FS_CardinalityType
<1> QED
  BY <1>2, <1>3, OutboxAssumption

LEMMA DivMonotone ==
  ASSUME NEW a \in Nat, NEW b \in Nat, NEW c \in Nat \ {0}, a <= b PROVE a \div c <= b \div c
  BY SMT

LEMMA LimitInit == Init => LInv
<1> SUFFICES ASSUME Init PROVE NoneAhead /\ WithinLimit
  BY InitInv DEF LInv
<1>1. Today \in Nat
  BY InitInv, TodayTyped DEF IInv
<1>2. NoneAhead
  BY <1>1 DEF NoneAhead, Init, Idle, NoDay
<1>3. \A d \in Nat : DeliveredOn(d) = {} /\ InFlight(d) = {}
  BY OutboxAssumption DEF DeliveredOn, InFlight, Init, Idle, Key
<1>4. Cardinality({}) = 0 /\ Cardinality(Worker) \in Nat
  BY FS_EmptySet, FS_CardinalityType, OutboxAssumption
<1>5. WithinLimit
  BY <1>3, <1>4, OutboxAssumption DEF WithinLimit
<1> QED
  BY <1>2, <1>5

LEMMA TodayGrows ==
  ASSUME IInv, now' \in Nat, now <= now'
  PROVE  Today \in Nat /\ Today' \in Nat /\ Today <= Today'
  BY DivNat, DivMonotone, OutboxAssumption DEF Today, IInv, TypeOK

\* Steps that deliver nothing and put nothing in flight.
LEMMA QuietKeepsLimit ==
  ASSUME LInv, \A d \in Nat : DeliveredOn(d)' \subseteq DeliveredOn(d) /\ InFlight(d)' \subseteq InFlight(d)
  PROVE  WithinLimit'
<1> SUFFICES ASSUME NEW d \in Nat
             PROVE  Cardinality(DeliveredOn(d)') + Cardinality(InFlight(d)') < DailyLimit + Cardinality(Worker)
  BY DEF WithinLimit
<1>1. DeliveredOn(d) \in SUBSET Operational /\ InFlight(d) \in SUBSET Worker
  BY DEF DeliveredOn, InFlight
<1>2. Cardinality(DeliveredOn(d)) + Cardinality(InFlight(d)) < DailyLimit + Cardinality(Worker)
  BY DEF LInv, WithinLimit
<1>3. DeliveredOn(d)' \in SUBSET DeliveredOn(d) /\ InFlight(d)' \in SUBSET InFlight(d)
  OBVIOUS
<1> QED
  BY <1>1, <1>2, <1>3, LimitShrinks, Zenon

LEMMA ProducersKeepLimit ==
  ASSUME LInv, \/ \E k \in Key, status \in {"pending", "blocked"} : InsertRow(k, status)
               \/ \E e \in Event : EnqueueEvent(e)
               \/ SlackChanges \/ Configure \/ Tick \/ UNCHANGED vars
  PROVE  NoneAhead' /\ WithinLimit'
<1>1. worker' = worker /\ now' \in Nat /\ now <= now'
  <2>1. now \in Nat
    BY DEF LInv, IInv, TypeOK
  <2>2. worker' = worker /\ (now' = now \/ now' = now + 1)
    BY Zenon DEF InsertRow, EnqueueEvent, SlackChanges, Configure, Tick, vars
  <2> QED
    BY <2>1, <2>2
<1>2. \A k \in Key : rows'[k].day = rows[k].day /\ (rows'[k].status = "delivered" => rows[k].status = "delivered")
  <2>1. CASE rows' = rows
    BY <2>1
  <2>2. ASSUME NEW k \in Key, NEW status \in {"pending", "blocked"}, InsertRow(k, status)
        PROVE  \A j \in Key : rows'[j].day = rows[j].day /\ (rows'[j].status = "delivered" => rows[j].status = "delivered")
    BY <2>2 DEF InsertRow, LInv, IInv, TypeOK, Row, RowStatus
  <2> QED
    BY <2>1, <2>2 DEF EnqueueEvent, SlackChanges, Configure, Tick, vars
<1>3. Today \in Nat /\ Today' \in Nat /\ Today <= Today'
  BY <1>1, TodayGrows DEF LInv
<1>4. NoneAhead'
  <2>1. \A k \in Key : rows[k].day \in Nat \cup {NoDay}
    BY DEF LInv, IInv, TypeOK, Row
  <2>2. \A w \in Worker : worker[w].day \in Nat \cup {NoDay}
    BY DEF LInv, IInv, TypeOK, WorkerState
  <2> QED
    BY <1>1, <1>2, <1>3, <2>1, <2>2 DEF LInv, NoneAhead, NoDay
<1>5. ASSUME NEW d \in Nat PROVE DeliveredOn(d)' \subseteq DeliveredOn(d) /\ InFlight(d)' \subseteq InFlight(d)
  BY <1>1, <1>2, <1>3 DEF DeliveredOn, InFlight, Key
<1> QED
  BY <1>4, <1>5, QuietKeepsLimit

\* What the worker that moves may do without touching the limit.
LEMMA WorkerKeepsLimit ==
  ASSUME LInv, NEW w \in Worker, now' = now,
         \A k \in Key : rows'[k].day <= Today
                     /\ (rows'[k].status = "delivered" /\ k \in Operational
                           => rows[k].status = "delivered" /\ rows[k].day = rows'[k].day),
         \A v \in Worker : v # w => worker'[v] = worker[v],
         \/ worker'[w].key \notin Operational /\ worker'[w].day = NoDay
         \/ /\ worker'[w].key = worker[w].key /\ worker[w].at \in {"sending", "fallback"}
            /\ \/ worker'[w].at \in {"fallback", "commit"} /\ worker'[w].day = NoDay
               \/ worker'[w].at = "commit" /\ worker'[w].day = Today
  PROVE  NoneAhead' /\ WithinLimit'
<1>1. Today \in Nat /\ Today' = Today /\ NoDay <= Today
  BY TodayTyped DEF LInv, IInv, Today, NoDay
<1>2. NoneAhead'
  BY <1>1 DEF NoneAhead, LInv
<1>3. ASSUME NEW d \in Nat PROVE DeliveredOn(d)' \subseteq DeliveredOn(d)
  BY DEF DeliveredOn, Key
<1>4. ASSUME NEW d \in Nat PROVE InFlight(d)' \subseteq InFlight(d)
  <2> SUFFICES ASSUME NEW v \in Worker, v \in InFlight(d)' PROVE v \in InFlight(d)
    BY DEF InFlight
  <2>1. CASE v # w
    BY <1>1, <2>1 DEF InFlight
  <2>2. CASE v = w
    BY <1>1, <2>2 DEF InFlight, NoDay
  <2> QED
    BY <2>1, <2>2
<1> QED
  BY <1>2, <1>3, <1>4, QuietKeepsLimit

LEMMA TakeKeepsLimit ==
  ASSUME LInv, NEW w \in Worker, NEW k \in Key, TakeAlert(w, k)
  PROVE  NoneAhead' /\ WithinLimit'
<1>1. /\ UNCHANGED <<now, rows>>
      /\ worker'[w].key = k /\ worker'[w].at = "sending" /\ worker'[w].day = worker[w].day
      /\ \A v \in Worker : v # w => worker'[v] = worker[v]
  BY DEF TakeAlert, LInv, IInv, TypeOK, WorkerState
<1>2. worker[w].day = NoDay
  BY DEF TakeAlert, LInv, IInv, PlaceOK
<1>3. CASE k \notin Operational
  BY <1>1, <1>2, <1>3, WorkerKeepsLimit DEF LInv, NoneAhead
<1>4. CASE k \in Operational
  <2>1. Today \in Nat /\ Today' = Today
    BY <1>1, TodayTyped DEF LInv, IInv, Today
  <2>2. NoneAhead'
    BY <1>1, <1>2, <2>1 DEF NoneAhead, LInv
  <2>3. Cardinality(DeliveredOn(Today)) < DailyLimit
    <3>1. /\ ~(Cardinality(DeliveredOn(Today)) >= DailyLimit)
          /\ IsFiniteSet(DeliveredOn(Today))
      BY <1>4, FS_Subset, OutboxAssumption DEF TakeAlert, LimitReached, DeliveredOn
    <3> QED
      BY <3>1, FS_CardinalityType, OutboxAssumption
  <2>4. SUFFICES ASSUME NEW d \in Nat
                 PROVE  Cardinality(DeliveredOn(d)') + Cardinality(InFlight(d)') < DailyLimit + Cardinality(Worker)
    BY <2>2 DEF WithinLimit
  <2>5. DeliveredOn(d)' = DeliveredOn(d) /\ DeliveredOn(d) \in SUBSET Operational
    BY <1>1 DEF DeliveredOn
  <2>6. CASE d >= Today
    <3>1. d # Today => DeliveredOn(d) = {}
      BY <2>1, <2>6 DEF DeliveredOn, LInv, NoneAhead, Key
    <3>2. Cardinality(DeliveredOn(d)) < DailyLimit
      BY <2>3, <3>1, FS_EmptySet, OutboxAssumption
    <3>3. InFlight(d)' \in SUBSET Worker
      BY DEF InFlight
    <3> QED
      BY <2>5, <3>2, <3>3, LimitStarts
  <2>7. CASE ~(d >= Today)
    <3>1. InFlight(d)' \in SUBSET InFlight(d)
      BY <1>1, <2>1, <2>7 DEF InFlight
    <3>2. InFlight(d) \in SUBSET Worker
      BY DEF InFlight
    <3>3. Cardinality(DeliveredOn(d)) + Cardinality(InFlight(d)) < DailyLimit + Cardinality(Worker)
      BY DEF LInv, WithinLimit
    <3> QED
      BY <2>5, <3>1, <3>2, <3>3, LimitShrinks, Zenon
  <2> QED
    BY <2>6, <2>7
<1> QED
  BY <1>3, <1>4

LEMMA CommitKeepsLimit ==
  ASSUME LInv, NEW w \in Worker, CommitAlert(w)
  PROVE  NoneAhead' /\ WithinLimit'
<1>1. PICK k \in Key : /\ k = worker[w].key /\ worker[w].at = "commit"
                       /\ rows[k].status # "delivered"
                       /\ worker[w].outcome = "delivered" <=> worker[w].day # NoDay
  BY DEF LInv, IInv, CommitAlert, PlaceOK, Carrying, TypeOK, WorkerState
<1>2. /\ rows'[k].status = worker[w].outcome /\ rows'[k].day = worker[w].day
      /\ \A j \in Key : j # k => rows'[j] = rows[j]
  BY <1>1 DEF CommitAlert, LInv, IInv, TypeOK
<1>3. /\ worker'[w].key = Nothing /\ worker'[w].at = "events" /\ worker'[w].day = NoDay
      /\ \A v \in Worker : v # w => worker'[v] = worker[v]
      /\ UNCHANGED now
  BY DEF CommitAlert, Goto, Idle, LInv, IInv, TypeOK
<1>4. Today \in Nat /\ Today' = Today
  BY <1>3, TodayTyped DEF LInv, IInv, Today
<1>5. Nothing \notin Operational /\ worker[w].day <= Today /\ \A j \in Key : rows'[j].day <= Today
  BY <1>2, OutboxAssumption DEF LInv, NoneAhead, Key
<1>6. CASE ~(k \in Operational /\ worker[w].outcome = "delivered")
  BY <1>2, <1>3, <1>4, <1>5, <1>6, WorkerKeepsLimit
<1>7. CASE k \in Operational /\ worker[w].outcome = "delivered"
  <2>1. NoneAhead'
    BY <1>3, <1>4, <1>5 DEF NoneAhead, LInv, NoDay
  <2>2. SUFFICES ASSUME NEW d \in Nat
                 PROVE  Cardinality(DeliveredOn(d)') + Cardinality(InFlight(d)') < DailyLimit + Cardinality(Worker)
    BY <2>1 DEF WithinLimit
  <2>3. DeliveredOn(d) \in SUBSET Operational /\ InFlight(d) \in SUBSET Worker
    BY DEF DeliveredOn, InFlight
  <2>4. Cardinality(DeliveredOn(d)) + Cardinality(InFlight(d)) < DailyLimit + Cardinality(Worker)
    BY DEF LInv, WithinLimit
  <2>5. InFlight(d)' = InFlight(d) \ {w}
    BY <1>3, <1>4, <1>5 DEF InFlight
  <2>6. CASE d = worker[w].day
    <3>1. w \in InFlight(d)
      BY <1>1, <1>7, <2>6 DEF InFlight
    <3>2. DeliveredOn(d)' = DeliveredOn(d) \cup {k}
      BY <1>1, <1>2, <1>7, <2>6 DEF DeliveredOn, Key
    <3> QED
      BY <1>7, <2>3, <2>4, <2>5, <3>1, <3>2, LimitCommits
  <2>7. CASE d # worker[w].day
    <3>1. DeliveredOn(d)' \in SUBSET DeliveredOn(d)
      BY <1>1, <1>2, <2>7 DEF DeliveredOn, Key
    <3>2. InFlight(d)' \in SUBSET InFlight(d)
      BY <2>5
    <3> QED
      BY <2>3, <2>4, <3>1, <3>2, LimitShrinks, Zenon
  <2> QED
    BY <2>6, <2>7
<1> QED
  BY <1>6, <1>7

\* Steps of a worker that move it from a place where it holds nothing, or
\* finish an event, or lose the worker.
LEMMA IdleKeepsLimit ==
  ASSUME LInv, NEW w \in Worker,
         (\E k \in Key : SettleAlert(w, k)) \/ NoAlert(w) \/ NoEvent(w)
           \/ (\E e \in Event : TakeEvent(w, e)) \/ FinishEvent(w) \/ WorkerDies(w)
  PROVE  NoneAhead' /\ WithinLimit'
<1>1. now' = now
  BY DEF SettleAlert, NoAlert, NoEvent, TakeEvent, FinishEvent, WorkerDies
<1>2. \A k \in Key : rows'[k].day <= Today
                  /\ (rows'[k].status = "delivered" => rows[k].status = "delivered" /\ rows[k].day = rows'[k].day)
  <2>1. CASE rows' = rows
    BY <2>1 DEF LInv, NoneAhead
  <2>2. ASSUME NEW k \in Key, SettleAlert(w, k)
        PROVE  \A j \in Key : rows'[j].day = rows[j].day /\ (rows'[j].status = "delivered" => rows[j].status = "delivered")
    <3>1. PICK status \in {"suppressed", "blocked"} : rows' = [rows EXCEPT ![k].status = status]
      BY <2>2 DEF SettleAlert
    <3>2. rows \in [Key -> Row]
      BY DEF LInv, IInv, TypeOK
    <3> HIDE DEF LInv
    <3> QED
      BY <3>1, <3>2 DEF Row, RowStatus
  <2> QED
    BY <2>1, <2>2 DEF NoAlert, NoEvent, TakeEvent, FinishEvent, WorkerDies, LInv, NoneAhead
<1>3. \A v \in Worker : v # w => worker'[v] = worker[v]
  BY DEF SettleAlert, NoAlert, NoEvent, TakeEvent, FinishEvent, WorkerDies, Goto, LInv, IInv, TypeOK
<1>4. worker'[w].key \notin Operational /\ worker'[w].day = NoDay
  <2>1. ASSUME NEW e \in Event, TakeEvent(w, e) PROVE worker'[w].key = e /\ worker'[w].day = NoDay
    BY <2>1 DEF TakeEvent, LInv, IInv, PlaceOK, TypeOK, WorkerState
  <2>2. CASE ~(\E e \in Event : TakeEvent(w, e))
    <3>1. worker'[w].key = Nothing /\ worker'[w].day = NoDay
      BY <2>2 DEF SettleAlert, NoAlert, NoEvent, FinishEvent, WorkerDies, Goto, Idle, LInv, IInv, TypeOK
    <3> QED
      BY <3>1, OutboxAssumption DEF Key
  <2> QED
    BY <2>1, <2>2, OutboxAssumption DEF Key
<1> QED
  BY <1>1, <1>2, <1>3, <1>4, WorkerKeepsLimit

LEMMA PostKeepsLimit ==
  ASSUME LInv, NEW w \in Worker, PostAccepted(w) \/ PostAnswerLost(w) \/ PostRefused(w)
  PROVE  NoneAhead' /\ WithinLimit'
<1>1. /\ UNCHANGED <<now, rows>>
      /\ \A v \in Worker : v # w => worker'[v] = worker[v]
  BY DEF PostAccepted, PostAnswerLost, PostRefused, LInv, IInv, TypeOK
<1>2. worker[w].at \in {"sending", "fallback"} /\ worker[w].day = NoDay /\ worker[w] \in WorkerState
  BY DEF PostAccepted, PostAnswerLost, PostRefused, Sending, LInv, IInv, PlaceOK, TypeOK
<1>3. /\ worker'[w].key = worker[w].key
      /\ \/ worker'[w].at \in {"fallback", "commit"} /\ worker'[w].day = NoDay
         \/ worker'[w].at = "commit" /\ worker'[w].day = Today
  <2>1. CASE PostAccepted(w)
    BY <1>2, <2>1 DEF PostAccepted, LInv, IInv, TypeOK, WorkerState
  <2>2. CASE PostAnswerLost(w) \/ PostRefused(w)
    <3>1. worker'[w] = AfterFailure(w)
      BY <2>2 DEF PostAnswerLost, PostRefused, LInv, IInv, TypeOK
    <3> QED
      BY <1>2, <3>1 DEF AfterFailure, WorkerState
  <2> QED
    BY <2>1, <2>2
<1> QED
  BY <1>1, <1>2, <1>3, WorkerKeepsLimit DEF LInv, NoneAhead

LEMMA StepKeepsLimit == ASSUME LInv, [Next]_vars PROVE LInv'
<1>1. IInv'
  BY StepKeeps DEF LInv
<1>2. ASSUME NEW k \in Operational, QueueSlackAlert(k) PROVE NoneAhead' /\ WithinLimit'
  BY <1>2, ProducersKeepLimit DEF QueueSlackAlert, Key
<1>3. ASSUME NEW k \in Trash, QueueTrashTalk(k) PROVE NoneAhead' /\ WithinLimit'
  BY <1>3, ProducersKeepLimit DEF QueueTrashTalk, Key
<1>4. ASSUME NEW w \in Worker, WorkerStep(w) \/ WorkerDies(w) PROVE NoneAhead' /\ WithinLimit'
  BY <1>4, IdleKeepsLimit, TakeKeepsLimit, PostKeepsLimit, CommitKeepsLimit DEF WorkerStep
<1>5. ASSUME (\E e \in Event : EnqueueEvent(e)) \/ SlackChanges \/ Configure \/ Tick \/ UNCHANGED vars
      PROVE  NoneAhead' /\ WithinLimit'
  BY <1>5, ProducersKeepLimit
<1> QED
  BY <1>1, <1>2, <1>3, <1>4, <1>5 DEF LInv, Next

\* SLACK_DAILY_ALERT_LIMIT is exceeded by at most one alert for every worker
\* beyond the first, although the count is read without a lock.
THEOREM DailyLimitBound == Spec => []DailyLimitHolds
<1>1. LInv => DailyLimitHolds
  <2> SUFFICES ASSUME LInv, NEW d \in 0 .. Today
               PROVE  Cardinality(DeliveredOn(d)) < DailyLimit + Cardinality(Worker)
    BY DEF DailyLimitHolds
  <2>1. d \in Nat
    BY TodayTyped DEF LInv, IInv
  <2>2. Cardinality(DeliveredOn(d)) + Cardinality(InFlight(d)) < DailyLimit + Cardinality(Worker)
    BY <2>1 DEF LInv, WithinLimit
  <2>3. IsFiniteSet(DeliveredOn(d)) /\ IsFiniteSet(InFlight(d))
    BY FS_Subset, OutboxAssumption DEF DeliveredOn, InFlight
  <2>4. {Cardinality(DeliveredOn(d)), Cardinality(InFlight(d)), Cardinality(Worker)} \subseteq Nat
    BY <2>3, FS_CardinalityType, OutboxAssumption
  <2> QED
    BY <2>2, <2>4, OutboxAssumption
<1> QED
  BY <1>1, LimitInit, StepKeepsLimit, PTL DEF Spec

-----------------------------------------------------------------------------
(* Attempts of events.  A worker that runs an event is the only one that   *)
(* holds it (IInv), so a start adds one to both sides of the count.        *)

RunsOn(e) == {w \in Worker : worker[w].key = e}

LEMMA RunsOnFinite == \A e : IsFiniteSet(RunsOn(e)) /\ Cardinality(RunsOn(e)) \in Nat
  BY FS_Subset, FS_CardinalityType, OutboxAssumption DEF RunsOn

\* Steps that start and end no event: alerts, producers and the environment.
LEMMA OthersKeepCount ==
  ASSUME AttemptsAreCounted, UNCHANGED <<runs, crashes>>,
         \A e \in Event : events'[e].attempts = events[e].attempts,
         \A w \in Worker, e \in Event : worker'[w].key = e <=> worker[w].key = e
  PROVE  AttemptsAreCounted'
<1>1. \A e \in Event : RunsOn(e)' = RunsOn(e)
  BY DEF RunsOn
<1> QED
  BY <1>1 DEF AttemptsAreCounted, RunsOn

LEMMA AlertKeepsCount ==
  ASSUME IInv, AttemptsAreCounted, NEW w \in Worker,
         (\E k \in Key : SettleAlert(w, k) \/ TakeAlert(w, k)) \/ NoAlert(w) \/ NoEvent(w)
           \/ PostAccepted(w) \/ PostAnswerLost(w) \/ PostRefused(w) \/ CommitAlert(w)
  PROVE  AttemptsAreCounted'
<1>1. UNCHANGED <<runs, crashes, events>>
  BY DEF SettleAlert, TakeAlert, NoAlert, NoEvent, PostAccepted, PostAnswerLost, PostRefused, CommitAlert
<1>2. worker \in [Worker -> WorkerState] /\ worker[w].at # "running"
  BY DEF SettleAlert, TakeAlert, NoAlert, NoEvent, PostAccepted, PostAnswerLost, PostRefused, CommitAlert,
         Sending, IInv, TypeOK
<1>3. worker[w].key \in Key \cup {Nothing}
  BY <1>2 DEF IInv, PlaceOK, Carrying, WorkerState
<1>4. /\ \A v \in Worker : v # w => worker'[v] = worker[v]
      /\ worker'[w].key \in Key \cup {Nothing}
  <2>1. CASE \E k \in Key : TakeAlert(w, k)
    BY <1>2, <2>1 DEF TakeAlert, WorkerState
  <2>2. CASE (\E k \in Key : SettleAlert(w, k)) \/ NoAlert(w) \/ NoEvent(w) \/ CommitAlert(w)
    BY <1>2, <2>2 DEF SettleAlert, NoAlert, NoEvent, CommitAlert, Goto, Idle
  <2>3. CASE PostAccepted(w)
    BY <1>2, <1>3, <2>3 DEF PostAccepted, WorkerState
  <2>4. CASE PostAnswerLost(w) \/ PostRefused(w)
    <3>1. worker' = [worker EXCEPT ![w] = AfterFailure(w)]
      BY <2>4 DEF PostAnswerLost, PostRefused
    <3>2. AfterFailure(w).key = worker[w].key
      BY <1>2 DEF AfterFailure, WorkerState
    <3> QED
      BY <1>2, <1>3, <3>1, <3>2
  <2> QED
    BY <2>1, <2>2, <2>3, <2>4
<1>5. \A v \in Worker, e \in Event : worker'[v].key = e <=> worker[v].key = e
  BY <1>3, <1>4, OutboxAssumption
<1> QED
  BY <1>1, <1>5, OthersKeepCount

\* The start of an event is counted by the lock its worker takes.
LEMMA TakeEventKeepsCount ==
  ASSUME IInv, AttemptsAreCounted, NEW w \in Worker, NEW e \in Event, TakeEvent(w, e)
  PROVE  AttemptsAreCounted'
<1>1. worker[w].key = Nothing /\ RunsOn(e) = {}
  BY DEF TakeEvent, Due, Locked, RunsOn, IInv, PlaceOK
<1>2. /\ worker'[w].key = e /\ \A v \in Worker : v # w => worker'[v] = worker[v]
      /\ runs' = [runs EXCEPT ![e] = @ + 1] /\ UNCHANGED <<events, crashes>>
  BY DEF TakeEvent, IInv, TypeOK, WorkerState
<1>3. RunsOn(e)' = {w} /\ \A f \in Event \ {e} : RunsOn(f)' = RunsOn(f)
  BY <1>1, <1>2, OutboxAssumption DEF RunsOn
<1>4. Cardinality({}) = 0 /\ Cardinality({w}) = 1
  BY FS_EmptySet, FS_Singleton
<1> SUFFICES ASSUME NEW f \in Event
             PROVE  runs'[f] <= events'[f].attempts + crashes' + Cardinality(RunsOn(f)')
  BY DEF AttemptsAreCounted, RunsOn
<1>5. runs[f] <= events[f].attempts + crashes + Cardinality(RunsOn(f))
  BY DEF AttemptsAreCounted, RunsOn
<1>6. runs \in [Event -> Nat] /\ events[f].attempts \in Nat /\ crashes \in Nat
  BY OutboxAssumption DEF IInv, TypeOK, EventRow
<1> QED
  BY <1>1, <1>2, <1>3, <1>4, <1>5, <1>6

\* What a worker that lets go of its event does to the count.
LEMMA LettingGo ==
  ASSUME NEW w \in Worker, worker'[w].key = Nothing, \A v \in Worker : v # w => worker'[v] = worker[v],
         NEW e \in Event
  PROVE  /\ Cardinality(RunsOn(e)) <= Cardinality(RunsOn(e)') + 1
         /\ worker[w].key # e => RunsOn(e)' = RunsOn(e)
<1>1. Nothing # e
  BY OutboxAssumption
<1>2. RunsOn(e)' = RunsOn(e) \ {w}
  BY <1>1 DEF RunsOn
<1>3. CASE worker[w].key = e
  <2>1. w \in RunsOn(e)
    BY <1>3 DEF RunsOn
  <2>2. Cardinality(RunsOn(e) \ {w}) = Cardinality(RunsOn(e)) - 1
    BY <2>1, RunsOnFinite, FS_RemoveElement
  <2> QED
    BY <1>2, <1>3, <2>2, RunsOnFinite
<1>4. CASE worker[w].key # e
  <2>1. RunsOn(e)' = RunsOn(e)
    BY <1>2, <1>4 DEF RunsOn
  <2> QED
    BY <2>1, <1>4, RunsOnFinite
<1> QED
  BY <1>3, <1>4

\* Success and failure both count the attempt of the lock they release.
LEMMA FinishEventKeepsCount ==
  ASSUME IInv, AttemptsAreCounted, NEW w \in Worker, FinishEvent(w)
  PROVE  AttemptsAreCounted'
<1>1. PICK e \in Event : e = worker[w].key
  BY DEF FinishEvent, IInv, PlaceOK
<1>2. /\ worker'[w].key = Nothing /\ \A v \in Worker : v # w => worker'[v] = worker[v]
      /\ UNCHANGED <<runs, crashes>>
  BY DEF FinishEvent, Goto, Idle, IInv, TypeOK
<1>3. events'[e].attempts = events[e].attempts + 1 /\ \A f \in Event \ {e} : events'[f] = events[f]
  <2>1. events \in [Event -> EventRow]
    BY DEF IInv, TypeOK
  <2>2. PICK row \in {Completed(events[e]), Retried(events[e])} : events' = [events EXCEPT ![e] = row]
    BY <1>1 DEF FinishEvent
  <2>3. row.attempts = events[e].attempts + 1
    BY <2>1, <2>2 DEF Completed, Retried, EventRow
  <2> QED
    BY <2>1, <2>2, <2>3
<1> SUFFICES ASSUME NEW f \in Event
             PROVE  runs'[f] <= events'[f].attempts + crashes' + Cardinality(RunsOn(f)')
  BY DEF AttemptsAreCounted, RunsOn
<1>4. runs[f] <= events[f].attempts + crashes + Cardinality(RunsOn(f))
  BY DEF AttemptsAreCounted, RunsOn
<1>5. runs[f] \in Nat /\ events[f].attempts \in Nat /\ crashes \in Nat
  BY OutboxAssumption DEF IInv, TypeOK, EventRow
<1>6. Cardinality(RunsOn(f)) <= Cardinality(RunsOn(f)') + 1 /\ (f # e => RunsOn(f)' = RunsOn(f))
  BY <1>1, <1>2, LettingGo
<1>7. Cardinality(RunsOn(f)) \in Nat /\ Cardinality(RunsOn(f)') \in Nat
  <2>1. IsFiniteSet(RunsOn(f)')
    BY FS_Subset, OutboxAssumption DEF RunsOn
  <2> QED
    BY <2>1, RunsOnFinite, FS_CardinalityType
<1>8. CASE f = e
  BY <1>2, <1>3, <1>4, <1>5, <1>6, <1>7, <1>8
<1>9. CASE f # e
  BY <1>2, <1>3, <1>4, <1>5, <1>6, <1>7, <1>9
<1> QED
  BY <1>8, <1>9

\* A death rolls one lease back, and is itself counted.
LEMMA DeathKeepsCount ==
  ASSUME IInv, AttemptsAreCounted, NEW w \in Worker, WorkerDies(w)
  PROVE  AttemptsAreCounted'
<1>1. /\ worker'[w].key = Nothing /\ \A v \in Worker : v # w => worker'[v] = worker[v]
      /\ crashes' = crashes + 1 /\ UNCHANGED <<runs, events>>
  BY DEF WorkerDies, Idle, IInv, TypeOK
<1> SUFFICES ASSUME NEW f \in Event
             PROVE  runs'[f] <= events'[f].attempts + crashes' + Cardinality(RunsOn(f)')
  BY DEF AttemptsAreCounted, RunsOn
<1>2. runs[f] <= events[f].attempts + crashes + Cardinality(RunsOn(f))
  BY DEF AttemptsAreCounted, RunsOn
<1>3. runs[f] \in Nat /\ events[f].attempts \in Nat /\ crashes \in Nat
  BY OutboxAssumption DEF IInv, TypeOK, EventRow
<1>4. Cardinality(RunsOn(f)) <= Cardinality(RunsOn(f)') + 1
  BY <1>1, LettingGo
<1>5. Cardinality(RunsOn(f)) \in Nat /\ Cardinality(RunsOn(f)') \in Nat
  <2>1. IsFiniteSet(RunsOn(f)')
    BY FS_Subset, OutboxAssumption DEF RunsOn
  <2> QED
    BY <2>1, RunsOnFinite, FS_CardinalityType
<1> QED
  BY <1>1, <1>2, <1>3, <1>4, <1>5

LEMMA StepKeepsCount == ASSUME IInv, AttemptsAreCounted, [Next]_vars PROVE AttemptsAreCounted'
<1>1. ASSUME (\E k \in Operational : QueueSlackAlert(k)) \/ (\E k \in Trash : QueueTrashTalk(k))
             \/ (\E e \in Event : EnqueueEvent(e)) \/ SlackChanges \/ Configure \/ Tick \/ UNCHANGED vars
      PROVE  AttemptsAreCounted'
  <2>1. UNCHANGED <<worker, runs, crashes>>
    BY <1>1 DEF QueueSlackAlert, QueueTrashTalk, InsertRow, EnqueueEvent, SlackChanges, Configure, Tick, vars
  <2>2. \A e \in Event : events'[e].attempts = events[e].attempts
    <3>1. ASSUME NEW e \in Event, EnqueueEvent(e) PROVE \A f \in Event : events'[f].attempts = events[f].attempts
      BY <3>1 DEF EnqueueEvent, IInv, TypeOK, EventRow
    <3> QED
      BY <1>1, <3>1 DEF QueueSlackAlert, QueueTrashTalk, InsertRow, SlackChanges, Configure, Tick, vars
  <2> QED
    BY <2>1, <2>2, OthersKeepCount
<1>2. ASSUME NEW w \in Worker, WorkerStep(w) PROVE AttemptsAreCounted'
  BY <1>2, AlertKeepsCount, TakeEventKeepsCount, FinishEventKeepsCount DEF WorkerStep
<1>3. ASSUME NEW w \in Worker, WorkerDies(w) PROVE AttemptsAreCounted'
  BY <1>3, DeathKeepsCount
<1> QED
  BY <1>1, <1>2, <1>3 DEF Next

\* attempt_count never runs short of the attempts made by more than the
\* workers that died and those at work: no retry goes uncounted, so an event
\* that keeps failing reaches the limit.
THEOREM AttemptsCounted == Spec => []AttemptsAreCounted
<1>1. Init => AttemptsAreCounted
  <2> SUFFICES ASSUME Init, NEW e \in Event
               PROVE  runs[e] <= events[e].attempts + crashes + Cardinality(RunsOn(e))
    BY DEF AttemptsAreCounted, RunsOn
  <2> QED
    BY RunsOnFinite DEF Init
<1> QED
  BY <1>1, InitInv, StepKeeps, StepKeepsCount, PTL DEF Spec
=============================================================================
