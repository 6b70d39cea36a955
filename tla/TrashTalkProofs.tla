--------------------------- MODULE TrashTalkProofs ---------------------------
(***************************************************************************)
(* Theorems about the trash-talk feed for any matchups, facts, workers and *)
(* limits: it is a client of the notification outbox and takes over what   *)
(* is proved of it, its posts keep the limits although these are read a    *)
(* model call before the post is written, a lead change is told only of a  *)
(* lead that was held, and no post is queued without the owner's consent.  *)
(***************************************************************************)
EXTENDS TrashTalk, NotificationOutboxProofs

PostRow ==
  [status : {"none", "suppressed", "ready", "pending", "blocked", "delivered", "failed"},
   at : Nat \cup {Never}, target : Target, delivery : {Nothing}]
Pending == [from : Side, to : Side, since : Nat \cup {Never}]
Lead == [leader : Side \cup {"unseen"}, pending : Pending]

FeedTypes ==
  /\ board \in [Matchup -> -3 .. 3]
  /\ facts \subseteq Fact
  /\ enabled \in BOOLEAN
  /\ leads \in [Matchup -> Lead]
  /\ stable \in [Live -> Nat \cup {Never}]
  /\ heldSince \in [Matchup -> Nat \cup {Never}]
  /\ talk \in [Trash -> PostRow]
  /\ \/ evaluator = Resting
     \/ /\ evaluator.chosen \in Trash /\ evaluator.target \in Target
        /\ evaluator.at \in Nat /\ evaluator.at <= now

\* A published post was written in the past.
PostsAreDated == \A t \in Published : talk[t].at \in Nat /\ talk[t].at <= now

\* A pending lead was clear whenever an evaluation looked since it began.
PendingIsHeld ==
  \A m \in Matchup : leads[m].pending # NoPending =>
    /\ leads[m].pending.since \in Nat /\ leads[m].pending.to = leads[m].leader
    /\ heldSince[m] \in Nat /\ heldSince[m] <= leads[m].pending.since

FeedInv == IInv /\ FeedTypes /\ PostsAreDated /\ PendingIsHeld /\ LeadIsHeld

-----------------------------------------------------------------------------
(* The feed is a client of the outbox.                                     *)

LEMMA FeedStepIsOutboxStep ==
  ASSUME FeedTypes, [FeedNext]_allVars
  PROVE  [Next]_vars
<1>1. CASE \/ Evaluate \/ CreativeWorkerFails \/ Abandon \/ Withhold \/ SchedulerDies \/ Pause \/ Resume
           \/ \E m \in Matchup, s \in Side : OptOut(Team[m][s])
  <2>1. UNCHANGED vars
    BY <1>1, Zenon DEF Evaluate, CreativeWorkerFails, Abandon, Withhold, SchedulerDies, Pause, Resume, OptOut
  <2> QED
    BY <2>1
<1>2. CASE Publish
  <2>1. QueueTrashTalk(evaluator.chosen) /\ evaluator.chosen \in Trash
    BY <1>2 DEF Publish, FeedTypes
  <2> QED
    BY <2>1 DEF Next
<1>3. CASE Score
  BY <1>3 DEF Score, Next
<1>4. CASE Delivery
  BY <1>4 DEF Delivery, Next
<1>5. CASE UNCHANGED allVars
  BY <1>5 DEF allVars
<1> QED
  BY <1>1, <1>2, <1>3, <1>4, <1>5 DEF FeedNext

LEMMA ClockAdvances ==
  ASSUME IInv, [Next]_vars
  PROVE  now \in Nat /\ now' \in Nat /\ now <= now'
<1>1. now \in Nat
  BY DEF IInv, TypeOK
<1>2. now' = now \/ now' = now + 1
  <2>1. CASE \E w \in Worker : WorkerStep(w) \/ WorkerDies(w)
    BY <2>1, Zenon DEF WorkerStep, WorkerDies, SettleAlert, TakeAlert, NoAlert, PostAccepted, PostAnswerLost,
       PostRefused, CommitAlert, TakeEvent, NoEvent, FinishEvent
  <2>2. CASE \/ (\E k \in Operational : QueueSlackAlert(k)) \/ (\E k \in Trash : QueueTrashTalk(k))
             \/ (\E e \in Event : EnqueueEvent(e)) \/ Configure \/ UNCHANGED vars
    BY <2>2, Zenon DEF QueueSlackAlert, QueueTrashTalk, InsertRow, EnqueueEvent, Configure, vars
  <2>3. CASE SlackChanges \/ Tick
    BY <2>3 DEF SlackChanges, Tick
  <2> QED
    BY <2>1, <2>2, <2>3 DEF Next
<1> QED
  BY <1>1, <1>2

LEMMA FeedInitHolds == FeedInit => FeedInv
<1> SUFFICES ASSUME FeedInit PROVE FeedInv
  OBVIOUS
<1>1. IInv /\ now = 0
  BY InitInv DEF FeedInit, Init
<1>2. NoPost \in PostRow /\ NoPending \in Pending
  BY DEF NoPost, PostRow, NoPending, Pending, Target, Side, Never
<1>3. /\ \A m \in Matchup : leads[m] = [leader |-> "unseen", pending |-> NoPending]
      /\ \A t \in Trash : talk[t] = NoPost
  BY DEF FeedInit
<1>4. FeedTypes
  <2>1. [leader |-> "unseen", pending |-> NoPending] \in Lead
    BY <1>2 DEF Lead
  <2>2. leads \in [Matchup -> Lead] /\ talk \in [Trash -> PostRow]
    BY <1>2, <2>1 DEF FeedInit
  <2>3. /\ board \in [Matchup -> -3 .. 3] /\ stable \in [Live -> Nat \cup {Never}]
        /\ heldSince \in [Matchup -> Nat \cup {Never}]
    BY DEF FeedInit
  <2>4. facts \subseteq Fact /\ enabled \in BOOLEAN /\ evaluator = Resting
    BY DEF FeedInit
  <2> QED
    BY <2>2, <2>3, <2>4, Zenon DEF FeedTypes
<1>5. PostsAreDated
  BY <1>3 DEF PostsAreDated, Published, NoPost
<1>6. PendingIsHeld
  BY <1>3 DEF PendingIsHeld
<1>7. LeadIsHeld
  <2>1. \A m \in Matchup, s \in Side : LeadChange(m, s) \in Trash
    BY TriggerAssumption DEF Trigger
  <2>2. evaluator.chosen = Nothing /\ Nothing \notin Trash
    BY OutboxAssumption DEF FeedInit, Resting, Key
  <2> QED
    BY <2>1, <2>2 DEF LeadIsHeld
<1> QED
  BY <1>1, <1>4, <1>5, <1>6, <1>7 DEF FeedInv

-----------------------------------------------------------------------------
(* An evaluation.                                                          *)

LEMMA CandidatesTyped ==
  ASSUME FeedTypes, NEW c \in Candidates
  PROVE  c.key \in Trash /\ c.target \in Target
<1>1. CASE c \in {[key |-> Blowout(m), target |-> Team[m][Other(Leader(m))]] : m \in {x \in Matchup : Margin(x) = 3}}
  BY <1>1, TriggerAssumption DEF Trigger, Target, Other, Side
<1>2. CASE c \in {[key |-> LeadChange(m, leads[m].pending.from), target |-> Team[m][Other(Leader(m))]] :
                    m \in {x \in Matchup : LeadChanged(x)}}
  <2>1. PICK m \in Matchup : c = [key |-> LeadChange(m, leads[m].pending.from), target |-> Team[m][Other(Leader(m))]]
    BY <1>2
  <2>2. leads[m].pending.from \in Side
    BY DEF FeedTypes, Lead, Pending
  <2>3. LeadChange(m, leads[m].pending.from) \in Trash
    BY <2>2, TriggerAssumption DEF Trigger
  <2>4. Other(Leader(m)) \in Side
    BY DEF Other, Side
  <2> QED
    BY <2>1, <2>3, <2>4 DEF Target
<1>3. CASE c \in FactCandidates
  BY <1>3, TriggerAssumption DEF FactCandidates, FeedTypes, Trigger, Target
<1> QED
  BY <1>1, <1>2, <1>3 DEF Candidates

\* Only a changed lead makes a lead_change.
LEMMA LeadChangesAreSeen ==
  ASSUME NEW c \in Candidates, NEW m \in Matchup, NEW s \in Side, c.key = LeadChange(m, s), FeedTypes
  PROVE  LeadChanged(m)
<1>1. c \notin {[key |-> Blowout(x), target |-> Team[x][Other(Leader(x))]] : x \in {y \in Matchup : Margin(y) = 3}}
  BY DEF Blowout, LeadChange
<1>2. c \notin FactCandidates
  <2>1. \A f \in Fact : f # LeadChange(m, s)
    BY TriggerAssumption DEF LeadChange
  <2> QED
    BY <2>1 DEF FactCandidates, FeedTypes
<1>3. PICK x \in Matchup : LeadChanged(x) /\ c.key = LeadChange(x, leads[x].pending.from)
  BY <1>1, <1>2 DEF Candidates
<1>4. x = m
  BY <1>3 DEF LeadChange
<1> QED
  BY <1>3, <1>4

\* What an evaluation makes of the lead in one matchup.
NextHeld(m) ==
  IF ~Clear(m) THEN Never ELSE IF leads[m].leader = Leader(m) /\ heldSince[m] # Never THEN heldSince[m] ELSE now

LEMMA LeadStep ==
  ASSUME FeedInv, NEW m \in Matchup
  PROVE  /\ NextLead(m) \in Lead /\ NextHeld(m) \in Nat \cup {Never}
         /\ NextLead(m).pending # NoPending =>
              /\ NextLead(m).pending.since \in Nat /\ NextLead(m).pending.to = NextLead(m).leader
              /\ NextHeld(m) \in Nat /\ NextHeld(m) <= NextLead(m).pending.since
         /\ LeadChanged(m) => NextHeld(m) # Never /\ now - NextHeld(m) >= StableTicks
<1>1. PICK ld \in Side : ld = Leader(m)
  BY DEF Leader, Side
<1>2. PICK seen \in Lead : seen = leads[m]
  BY DEF FeedInv, FeedTypes
<1>3. now \in Nat /\ heldSince[m] \in Nat \cup {Never} /\ StableTicks \in Nat /\ Never \notin Nat
  BY FeedAssumption DEF FeedInv, IInv, TypeOK, FeedTypes, Never
<1>4. seen.pending # NoPending =>
        /\ seen.pending.since \in Nat /\ seen.pending.to = seen.leader
        /\ heldSince[m] \in Nat /\ heldSince[m] <= seen.pending.since
  BY <1>2 DEF FeedInv, PendingIsHeld
<1>5. PICK p : p = IF seen.leader \notin {"unseen", ld} /\ Clear(m) THEN [from |-> seen.leader, to |-> ld, since |-> now]
                   ELSE IF seen.pending # NoPending /\ (seen.pending.to # ld \/ ~Clear(m)) THEN NoPending
                   ELSE seen.pending
  OBVIOUS
<1>6. NextLead(m) = [leader |-> ld, pending |-> p]
  BY <1>1, <1>2, <1>5 DEF NextLead
<1>7. p \in Pending
  <2>1. NoPending \in Pending /\ seen.pending \in Pending /\ seen.leader \in Side \cup {"unseen"}
    BY DEF NoPending, Pending, Lead, Side
  <2> QED
    BY <1>3, <1>5, <2>1 DEF Pending
<1>8. p # NoPending => p.since \in Nat /\ p.to = ld /\ NextHeld(m) \in Nat /\ NextHeld(m) <= p.since
  <2>1. CASE seen.leader \notin {"unseen", ld} /\ Clear(m)
    BY <1>1, <1>2, <1>3, <1>5, <2>1 DEF NextHeld
  <2>2. CASE ~(seen.leader \notin {"unseen", ld} /\ Clear(m)) /\ p # NoPending
    <3>1. p = seen.pending /\ seen.pending.to = ld /\ Clear(m)
      BY <1>5, <2>2
    <3> QED
      BY <1>1, <1>2, <1>3, <1>4, <2>2, <3>1 DEF NextHeld
  <2> QED
    BY <2>1, <2>2
<1>9. LeadChanged(m) => NextHeld(m) # Never /\ now - NextHeld(m) >= StableTicks
  <2> SUFFICES ASSUME LeadChanged(m) PROVE NextHeld(m) # Never /\ now - NextHeld(m) >= StableTicks
    OBVIOUS
  <2>1. seen.pending # NoPending /\ seen.pending.to = ld /\ Clear(m) /\ now - seen.pending.since >= StableTicks
    BY <1>1, <1>2 DEF LeadChanged
  <2> QED
    BY <1>1, <1>2, <1>3, <1>4, <2>1 DEF NextHeld
<1> QED
  BY <1>1, <1>3, <1>6, <1>7, <1>8, <1>9 DEF Lead, NextHeld

LEMMA EvaluateKeeps ==
  ASSUME FeedInv, Evaluate
  PROVE  (FeedTypes /\ PostsAreDated /\ PendingIsHeld /\ LeadIsHeld)'
<1>1. /\ leads' = [m \in Matchup |-> NextLead(m)] /\ stable' = NextStable
      /\ heldSince' = [m \in Matchup |-> NextHeld(m)]
      /\ UNCHANGED <<now, board, facts, enabled, optedOut, talk>> /\ evaluator = Resting
  BY DEF Evaluate, NextHeld, vars
<1>2. now \in Nat
  BY DEF FeedInv, IInv, TypeOK
<1>3. \/ evaluator' = Resting
      \/ \E c \in Candidates : evaluator' = [chosen |-> c.key, target |-> c.target, at |-> now]
  BY <1>1 DEF Evaluate
<1>4. stable' \in [Live -> Nat \cup {Never}]
  BY <1>1, <1>2 DEF NextStable, FeedInv, FeedTypes
<1>5. leads' \in [Matchup -> Lead] /\ heldSince' \in [Matchup -> Nat \cup {Never}]
  BY <1>1, LeadStep
<1>6. \/ evaluator' = Resting
      \/ /\ evaluator'.chosen \in Trash /\ evaluator'.target \in Target
         /\ evaluator'.at \in Nat /\ evaluator'.at <= now
  <2>1. ASSUME NEW c \in Candidates, evaluator' = [chosen |-> c.key, target |-> c.target, at |-> now]
        PROVE  evaluator'.chosen \in Trash /\ evaluator'.target \in Target /\ evaluator'.at \in Nat /\ evaluator'.at <= now
    <3>1. c.key \in Trash /\ c.target \in Target
      BY CandidatesTyped DEF FeedInv
    <3> QED
      BY <1>2, <2>1, <3>1
  <2> QED
    BY <1>3, <2>1
<1>7. FeedTypes'
  <2>1. Resting' = Resting
    BY DEF Resting, Never
  <2> QED
    BY <1>1, <1>4, <1>5, <1>6, <2>1 DEF FeedInv, FeedTypes
<1>8. PostsAreDated'
  BY <1>1 DEF FeedInv, PostsAreDated, Published
<1>9. PendingIsHeld'
  BY <1>1, LeadStep DEF PendingIsHeld
<1>10. LeadIsHeld'
  <2> SUFFICES ASSUME NEW m \in Matchup, NEW s \in Side, evaluator'.chosen = LeadChange(m, s)
               PROVE  evaluator'.at - heldSince'[m] >= StableTicks /\ heldSince'[m] # Never
    BY DEF LeadIsHeld, LeadChange
  <2>1. LeadChange(m, s) \in Trash /\ Nothing \notin Trash
    BY TriggerAssumption, OutboxAssumption DEF Trigger, Key
  <2>2. PICK c \in Candidates : evaluator' = [chosen |-> c.key, target |-> c.target, at |-> now]
    BY <1>3, <2>1 DEF Resting
  <2>3. LeadChanged(m)
    BY <2>2, LeadChangesAreSeen DEF FeedInv
  <2> QED
    BY <1>1, <2>2, <2>3, LeadStep
<1> QED
  BY <1>7, <1>8, <1>9, <1>10

-----------------------------------------------------------------------------
(* The other steps.                                                        *)

LEMMA QuietKeeps ==
  ASSUME FeedInv, now' \in Nat, now <= now', UNCHANGED <<leads, stable, talk, heldSince>>,
         evaluator' = evaluator \/ evaluator' = Resting,
         board' \in [Matchup -> -3 .. 3], facts' \subseteq Fact, enabled' \in BOOLEAN
  PROVE  (FeedTypes /\ PostsAreDated /\ PendingIsHeld /\ LeadIsHeld)'
<1>1. now \in Nat
  BY DEF FeedInv, IInv, TypeOK
<1>2. \/ evaluator' = Resting
      \/ /\ evaluator'.chosen \in Trash /\ evaluator'.target \in Target
         /\ evaluator'.at \in Nat /\ evaluator'.at <= now'
  BY <1>1 DEF FeedInv, FeedTypes
<1>3. FeedTypes'
  BY <1>2 DEF FeedInv, FeedTypes, Resting, Never
<1>4. PostsAreDated'
  BY <1>1 DEF FeedInv, PostsAreDated, Published
<1>5. PendingIsHeld'
  BY DEF FeedInv, PendingIsHeld, NoPending
<1>6. LeadIsHeld'
  <2>1. CASE evaluator' = evaluator
    BY <2>1 DEF FeedInv, LeadIsHeld, LeadChange, Never
  <2>2. CASE evaluator' = Resting
    <3>1. \A m \in Matchup, s \in Side : LeadChange(m, s) \in Trash
      BY TriggerAssumption DEF Trigger
    <3>2. evaluator'.chosen = Nothing /\ Nothing \notin Trash
      BY <2>2, OutboxAssumption DEF Resting, Key
    <3>3. \A m \in Matchup, s \in Side : evaluator'.chosen # LeadChange(m, s)
      BY <3>1, <3>2
    <3> QED
      BY <3>3 DEF LeadIsHeld, LeadChange
  <2> QED
    BY <2>1, <2>2
<1> QED
  BY <1>3, <1>4, <1>5, <1>6

\* A post about what was chosen is written.
Written(st) ==
  /\ evaluator # Resting /\ evaluator' = Resting
  /\ talk[evaluator.chosen] = NoPost
  /\ talk' = [talk EXCEPT ![evaluator.chosen] = Post(st, evaluator.target)]
  /\ UNCHANGED <<now, board, facts, enabled, leads, stable, heldSince>>

LEMMA PostTyped ==
  ASSUME FeedInv, NEW st \in {"suppressed", "ready", "pending", "blocked"}, evaluator # Resting
  PROVE  Post(st, evaluator.target) \in PostRow
BY DEF FeedInv, IInv, TypeOK, FeedTypes, Post, PostRow

LEMMA WrittenKeeps ==
  ASSUME FeedInv, NEW st \in {"suppressed", "ready", "pending", "blocked"}, Written(st)
  PROVE  (FeedTypes /\ PostsAreDated /\ PendingIsHeld /\ LeadIsHeld)'
<1>1. PICK new \in PostRow : new = Post(st, evaluator.target)
  BY PostTyped DEF Written
<1>2. new.at = now /\ now \in Nat
  BY <1>1 DEF Post, FeedInv, IInv, TypeOK
<1>3. /\ talk \in [Trash -> PostRow] /\ evaluator.chosen \in Trash
      /\ talk' = [talk EXCEPT ![evaluator.chosen] = new]
  BY <1>1 DEF Written, FeedInv, FeedTypes
<1>4. FeedTypes'
  <2>1. Resting' = Resting
    BY DEF Resting, Never
  <2> QED
    BY <1>3, <2>1 DEF Written, FeedInv, FeedTypes
<1>5. PostsAreDated'
  BY <1>2, <1>3 DEF Written, FeedInv, PostsAreDated, Published
<1>6. PendingIsHeld'
  BY DEF Written, FeedInv, PendingIsHeld, NoPending
<1>7. LeadIsHeld'
  <2>1. \A m \in Matchup, s \in Side : LeadChange(m, s) \in Trash
    BY TriggerAssumption DEF Trigger
  <2>2. evaluator'.chosen = Nothing /\ Nothing \notin Trash
    BY OutboxAssumption DEF Written, Resting, Key
  <2>3. \A m \in Matchup, s \in Side : evaluator'.chosen # LeadChange(m, s)
    BY <2>1, <2>2
  <2> QED
    BY <2>3 DEF LeadIsHeld, LeadChange
<1> QED
  BY <1>4, <1>5, <1>6, <1>7

\* No post links to its row, so no outcome is ever mirrored.
LEMMA MirrorChangesNothing ==
  ASSUME FeedInv, NEW w \in Worker, Mirror(w)
  PROVE  UNCHANGED talk
<1>1. talk \in [Trash -> PostRow] /\ \A t \in Trash : talk[t].delivery = Nothing
  BY DEF FeedInv, FeedTypes, PostRow
<1>2. CASE worker[w].at = "commit"
  <2>1. worker[w].key \in Key /\ Nothing \notin Key
    BY <1>2, OutboxAssumption DEF FeedInv, IInv, PlaceOK, Carrying
  <2>2. \A t \in Trash : talk[t].delivery # worker[w].key
    BY <1>1, <2>1
  <2>3. talk' = [t \in Trash |-> talk[t]]
    BY <1>2, <2>2 DEF Mirror
  <2> QED
    BY <1>1, <2>3
<1>3. CASE worker[w].at # "commit"
  BY <1>3 DEF Mirror
<1> QED
  BY <1>2, <1>3

LEMMA PublishWrites ==
  ASSUME FeedInv, Publish
  PROVE  \E st \in {"pending", "blocked"} : Written(st) /\ StillAllowed
<1>1. evaluator.chosen \in Trash /\ evaluator.chosen \in Key
  BY DEF Publish, FeedInv, FeedTypes, Key
<1>2. PICK st \in {"pending", "blocked"} : InsertRow(evaluator.chosen, st)
  BY DEF Publish, QueueTrashTalk
<1>3. PICK old \in Row : old = rows[evaluator.chosen]
  BY <1>1 DEF FeedInv, IInv, TypeOK
<1>4. rows'[evaluator.chosen] = [old EXCEPT !.status = st]
  BY <1>1, <1>2, <1>3 DEF InsertRow, FeedInv, IInv, TypeOK
<1>5. rows'[evaluator.chosen].status = st
  BY <1>4 DEF Row
<1> QED
  BY <1>2, <1>5 DEF Publish, StillAllowed, Written, InsertRow

\* A worker settles rows that are there.
LEMMA WorkersInsertNothing ==
  ASSUME FeedInv, NEW w \in Worker, WorkerStep(w), NEW k \in Key, rows[k].status = "absent"
  PROVE  rows'[k].status = "absent"
<1>1. rows \in [Key -> Row] /\ Key = DOMAIN rows
  BY DEF FeedInv, IInv, TypeOK
<1>2. CASE \E j \in Key : SettleAlert(w, j)
  <2>1. PICK j \in Key : SettleAlert(w, j)
    BY <1>2
  <2>2. j # k
    BY <2>1 DEF SettleAlert, NextAlert, Eligible
  <2> QED
    BY <1>1, <2>1, <2>2 DEF SettleAlert
<1>3. CASE CommitAlert(w)
  <2>1. worker[w].key # k
    BY <1>3 DEF CommitAlert, FeedInv, IInv, PlaceOK, Carrying
  <2> QED
    BY <1>1, <1>3, <2>1 DEF CommitAlert
<1>4. CASE ~(\E j \in Key : SettleAlert(w, j)) /\ ~CommitAlert(w)
  <2>1. UNCHANGED rows
    BY <1>4, Zenon DEF WorkerStep, TakeAlert, NoAlert, PostAccepted, PostAnswerLost, PostRefused, TakeEvent,
       NoEvent, FinishEvent
  <2> QED
    BY <2>1
<1> QED
  BY <1>2, <1>3, <1>4

\* What a step of the feed does to posts and evaluator.
LEMMA FeedSteps ==
  ASSUME FeedInv, [FeedNext]_allVars
  PROVE  \/ Evaluate
         \/ \E st \in {"suppressed", "ready"} : Written(st)
         \/ \E st \in {"pending", "blocked"} : Written(st) /\ StillAllowed
         \/ /\ UNCHANGED <<leads, stable, talk, heldSince>>
            /\ evaluator' = evaluator \/ evaluator' = Resting
            /\ board' \in [Matchup -> -3 .. 3] /\ facts' \subseteq Fact /\ enabled' \in BOOLEAN
<1>0. board \in [Matchup -> -3 .. 3] /\ facts \subseteq Fact /\ enabled \in BOOLEAN
  BY DEF FeedInv, FeedTypes
<1>1. CASE CreativeWorkerFails
  BY <1>0, <1>1 DEF CreativeWorkerFails, Written, vars
<1>2. CASE Withhold
  BY <1>2 DEF Withhold, StillAllowed, Written, vars
<1>3. CASE Publish
  BY <1>3, PublishWrites
<1>4. CASE Abandon \/ SchedulerDies \/ Pause \/ Resume \/ \E m \in Matchup, s \in Side : OptOut(Team[m][s])
  BY <1>0, <1>4 DEF Abandon, SchedulerDies, Pause, Resume, OptOut
<1>5. CASE Score
  <2>1. board' \in [Matchup -> -3 .. 3] /\ facts' \subseteq Fact
    BY <1>0, <1>5 DEF Score
  <2> QED
    BY <1>0, <1>5, <2>1 DEF Score
<1>6. CASE Delivery
  <2>1. UNCHANGED talk
    BY <1>6, MirrorChangesNothing DEF Delivery, feedVars
  <2> QED
    BY <1>0, <1>6, <2>1 DEF Delivery, feedVars
<1>7. CASE UNCHANGED allVars
  BY <1>0, <1>7 DEF allVars, feedVars
<1> QED
  BY <1>1, <1>2, <1>3, <1>4, <1>5, <1>6, <1>7 DEF FeedNext

LEMMA FeedStepKeeps ==
  ASSUME FeedInv, [FeedNext]_allVars
  PROVE  FeedInv'
<1>1. [Next]_vars
  BY FeedStepIsOutboxStep DEF FeedInv
<1>2. IInv' /\ now \in Nat /\ now' \in Nat /\ now <= now'
  BY <1>1, StepKeeps, ClockAdvances DEF FeedInv
<1>3. (FeedTypes /\ PostsAreDated /\ PendingIsHeld /\ LeadIsHeld)'
  BY <1>2, FeedSteps, EvaluateKeeps, WrittenKeeps, QuietKeeps
<1> QED
  BY <1>2, <1>3 DEF FeedInv

-----------------------------------------------------------------------------
(* The feed is a client of the notification outbox: every behaviour of the *)
(* feed is one of the outbox, whose theorems therefore hold here.          *)
THEOREM FeedImplementsOutbox == FeedSpec => Spec
<1>1. FeedInit => Init
  BY DEF FeedInit
<1>2. FeedInv /\ [FeedNext]_allVars => [Next]_vars
  BY FeedStepIsOutboxStep DEF FeedInv
<1>3. FeedInv /\ [FeedNext]_allVars => FeedInv'
  BY FeedStepKeeps
<1> QED
  BY <1>1, <1>2, <1>3, FeedInitHolds, PTL DEF FeedSpec, Spec

LEMMA FeedInvariant == FeedSpec => []FeedInv
<1>1. FeedInv /\ [FeedNext]_allVars => FeedInv'
  BY FeedStepKeeps
<1> QED
  BY <1>1, FeedInitHolds, PTL DEF FeedSpec

(* Posts and runtime state keep their shape; no post is left a candidate.  *)
THEOREM FeedTypesHold == FeedSpec => []FeedTypeOK
<1>1. FeedInv => FeedTypeOK
  <2> SUFFICES ASSUME FeedInv PROVE FeedTypeOK
    OBVIOUS
  <2>1. now \in Nat
    BY DEF FeedInv, IInv, TypeOK
  <2>2. \A m \in Matchup : leads[m].leader \in Side \cup {"unseen"} /\ leads[m].pending.since \in Nat \cup {Never}
    BY DEF FeedInv, FeedTypes, Lead, Pending
  <2>3. \A t \in Trash :
          talk[t].status \in {"none", "suppressed", "ready", "pending", "blocked", "delivered", "failed"}
    BY DEF FeedInv, FeedTypes, PostRow
  <2>4. evaluator = Resting \/ (evaluator.chosen \in Trash /\ evaluator.at \in 0 .. now)
    BY <2>1 DEF FeedInv, FeedTypes
  <2> QED
    BY <2>2, <2>3, <2>4 DEF FeedTypeOK, FeedInv, FeedTypes
<1> QED
  BY <1>1, FeedInvariant, PTL

(* A lead change is chosen only when every evaluation of the last minutes  *)
(* saw the new leader clearly ahead, however the scores swing.             *)
THEOREM LeadChangesAreHeld == FeedSpec => []LeadIsHeld
<1>1. FeedInv => LeadIsHeld
  BY DEF FeedInv
<1> QED
  BY <1>1, FeedInvariant, PTL

(* No row of the feed enters the outbox after the owner's pause, or for a  *)
(* team that opted out, however long the creative worker took.             *)
THEOREM QueuedByConsent == FeedSpec => QueuedWithConsent
<1>1. ASSUME FeedInv, [FeedNext]_allVars
      PROVE  [\A k \in Trash : rows[k].status = "absent" /\ rows'[k].status # "absent" =>
                enabled /\ evaluator.target \notin optedOut]_allVars
  <2> SUFFICES ASSUME NEW k \in Trash, rows[k].status = "absent", rows'[k].status # "absent"
               PROVE  enabled /\ evaluator.target \notin optedOut
    BY <1>1
  <2>1. CASE Publish
    BY <2>1 DEF Publish, StillAllowed
  <2>2. CASE Delivery
    <3>1. k \in Key /\ k \notin Operational
      BY OutboxAssumption DEF Key
    <3>2. rows'[k].status = "absent"
      <4>1. ASSUME NEW j \in Operational, QueueSlackAlert(j) PROVE rows'[k].status = "absent"
        BY <1>1, <3>1, <4>1 DEF QueueSlackAlert, InsertRow, FeedInv, IInv, TypeOK
      <4>2. ASSUME NEW w \in Worker, WorkerStep(w) PROVE rows'[k].status = "absent"
        BY <1>1, <3>1, <4>2, WorkersInsertNothing
      <4>3. ASSUME (\E w \in Worker : WorkerDies(w)) \/ SlackChanges PROVE rows'[k].status = "absent"
        BY <4>3 DEF WorkerDies, SlackChanges
      <4> QED
        BY <2>2, <4>1, <4>2, <4>3 DEF Delivery
    <3> QED
      BY <3>2
  <2>3. CASE ~Publish /\ ~Delivery
    <3>1. UNCHANGED rows
      BY <1>1, <2>3, Zenon DEF FeedNext, Evaluate, CreativeWorkerFails, Abandon, Withhold, SchedulerDies, Pause,
         Resume, OptOut, Score, Tick, allVars, vars
    <3> QED
      BY <3>1
  <2> QED
    BY <2>1, <2>2, <2>3
<1> QED
  BY <1>1, FeedInvariant, PTL DEF FeedSpec, QueuedWithConsent

-----------------------------------------------------------------------------
(* The limits.  They are read at evaluator.at; the post is dated later.    *)

SameWeek(x) == {t \in Published : WeekStart(talk[t].at) = WeekStart(x)}
SameDay(x) == {t \in SameWeek(x) : DayStart(talk[t].at) = DayStart(x)}

Apart ==
  \A s, t \in Published : s # t => talk[s].at + Cooldown <= talk[t].at \/ talk[t].at + Cooldown <= talk[s].at

Few ==
  \A x \in Nat :
    /\ Cardinality(SameDay(x)) <= FeedDaily
    /\ Cardinality(SameWeek(x)) <= FeedWeekly
    /\ \A g \in Target : g # NoTeam => Cardinality(About(SameWeek(x), g)) <= TargetWeekly

LEMMA TimesMonotone ==
  ASSUME NEW a \in Nat, NEW b \in Nat, NEW c \in Nat, a <= b PROVE a * c <= b * c
<1>1. PICK d \in Nat : b = a + d
  <2>1. b - a \in Nat /\ b = a + (b - a)
    OBVIOUS
  <2> QED
    BY <2>1
<1>2. b * c = a * c + d * c /\ d * c \in Nat /\ a * c \in Nat
  BY <1>1, SMT
<1> QED
  BY <1>2

\* Whoever lies in the period of n, and not after e, lies in that of e.
LEMMA SamePeriod ==
  ASSUME NEW x \in Nat, NEW e \in Nat, NEW n \in Nat, NEW c \in Nat \ {0}, x <= e, e <= n,
         (x \div c) * c = (n \div c) * c
  PROVE  x >= (e \div c) * c
<1>1. PICK p \in Nat, q \in Nat, r \in Nat : p = x \div c /\ q = e \div c /\ r = n \div c
  BY DivNat
<1>2. p <= q /\ q <= r
  BY <1>1, DivMonotone
<1>3. p * c <= q * c /\ q * c <= r * c
  BY <1>2, TimesMonotone
<1>4. p * c <= x /\ p * c \in Nat /\ q * c \in Nat /\ r * c \in Nat
  <2>1. (x \div c) * c <= x
    BY SMT
  <2> QED
    BY <1>1, <2>1, SMT
<1>5. p * c = r * c
  BY <1>1
<1>6. q * c <= x
  BY <1>3, <1>4, <1>5
<1> QED
  BY <1>1, <1>6, <1>4

LEMMA OneMore ==
  ASSUME NEW A, IsFiniteSet(A), NEW t, NEW B \in SUBSET (A \cup {t}), NEW n \in Nat, Cardinality(A) < n
  PROVE  Cardinality(B) <= n
<1>1. IsFiniteSet(A \cup {t}) /\ Cardinality(A \cup {t}) <= Cardinality(A) + 1
  <2>1. Cardinality(A) \in Nat
    BY FS_CardinalityType
  <2>2. IsFiniteSet(A \cup {t})
        /\ Cardinality(A \cup {t}) = IF t \in A THEN Cardinality(A) ELSE Cardinality(A) + 1
    BY FS_AddElement
  <2> QED
    BY <2>1, <2>2
<1>2. IsFiniteSet(B) /\ Cardinality(B) <= Cardinality(A \cup {t})
  BY <1>1, FS_Subset
<1>3. {Cardinality(A), Cardinality(B), Cardinality(A \cup {t})} \subseteq Nat
  BY <1>1, <1>2, FS_CardinalityType
<1> QED
  BY <1>1, <1>2, <1>3

LEMMA NoMore ==
  ASSUME NEW A, IsFiniteSet(A), NEW B \in SUBSET A, NEW n \in Nat, Cardinality(A) <= n
  PROVE  Cardinality(B) <= n
<1>1. IsFiniteSet(B) /\ Cardinality(B) <= Cardinality(A)
  BY FS_Subset
<1>2. Cardinality(A) \in Nat /\ Cardinality(B) \in Nat
  BY <1>1, FS_CardinalityType
<1> QED
  BY <1>1, <1>2

LEMMA LimitsTyped ==
  /\ FeedDaily \in Nat /\ FeedWeekly \in Nat /\ TargetWeekly \in Nat /\ Cooldown \in Nat
  /\ DayTicks \in Nat \ {0} /\ DayTicks * WeekDays \in Nat \ {0}
<1>1. DayTicks \in Nat \ {0} /\ WeekDays \in Nat \ {0}
  BY FeedAssumption, OutboxAssumption
<1>2. DayTicks * WeekDays \in Nat \ {0}
  BY <1>1, SMT
<1> QED
  BY <1>1, <1>2, FeedAssumption

LEMMA WeekIsPeriod ==
  ASSUME NEW x PROVE WeekStart(x) = (x \div (DayTicks * WeekDays)) * (DayTicks * WeekDays)
BY DEF WeekStart

\* A step that publishes nothing.
LEMMA QuietLimits ==
  ASSUME Apart, Few, Published' \subseteq Published,
         \A t \in Published : talk'[t] = talk[t]
  PROVE  Apart' /\ Few'
<1>1. Apart'
  BY DEF Apart
<1>2. ASSUME NEW x \in Nat
      PROVE  /\ Cardinality(SameDay(x)') <= FeedDaily /\ Cardinality(SameWeek(x)') <= FeedWeekly
             /\ \A g \in Target : g # NoTeam => Cardinality(About(SameWeek(x), g)') <= TargetWeekly
  <2>1. /\ SameWeek(x)' \in SUBSET SameWeek(x) /\ SameDay(x)' \in SUBSET SameDay(x)
        /\ \A g \in Target : About(SameWeek(x), g)' \in SUBSET About(SameWeek(x), g)
    BY DEF SameWeek, SameDay, About, WeekStart, DayStart
  <2>2. /\ IsFiniteSet(SameWeek(x)) /\ IsFiniteSet(SameDay(x)) /\ \A g \in Target : IsFiniteSet(About(SameWeek(x), g))
    BY TriggerAssumption, FS_Subset DEF SameWeek, SameDay, About, Published
  <2>3. Cardinality(SameDay(x)') <= FeedDaily
    BY <2>1, <2>2, NoMore, LimitsTyped DEF Few
  <2>4. Cardinality(SameWeek(x)') <= FeedWeekly
    BY <2>1, <2>2, NoMore, LimitsTyped DEF Few
  <2>5. ASSUME NEW g \in Target, g # NoTeam PROVE Cardinality(About(SameWeek(x), g)') <= TargetWeekly
    BY <2>1, <2>2, <2>5, NoMore, LimitsTyped DEF Few
  <2> QED
    BY <2>3, <2>4, <2>5
<1>3. Few'
  BY <1>2 DEF Few, Target
<1> QED
  BY <1>1, <1>3

\* What is published within the period of now was there for the limits to see.
LEMMA SeenByTheLimits ==
  ASSUME FeedInv, evaluator # Resting, StillAllowed, NEW s \in Published, NEW c \in Nat \ {0},
         (talk[s].at \div c) * c = (now \div c) * c
  PROVE  talk[s].at >= (evaluator.at \div c) * c
<1>1. evaluator.at \in Nat /\ evaluator.at <= now /\ now \in Nat
  BY DEF FeedInv, FeedTypes, IInv, TypeOK
<1>2. talk[s].at \in Nat /\ talk[s].at + Cooldown <= evaluator.at
  BY DEF FeedInv, PostsAreDated, StillAllowed, WithinLimits, Active, Published
<1>3. talk[s].at <= evaluator.at
  BY <1>1, <1>2, LimitsTyped
<1> QED
  BY <1>1, <1>2, <1>3, SamePeriod

LEMMA PublishKeepsLimits ==
  ASSUME FeedInv, Apart, Few, StillAllowed, NEW st \in {"pending", "blocked"}, Written(st)
  PROVE  Apart' /\ Few'
<1>1. PICK t \in Trash, e \in Nat, g \in Target : t = evaluator.chosen /\ e = evaluator.at /\ g = evaluator.target
  BY DEF Written, FeedInv, FeedTypes
<1>2. PICK new \in PostRow : new = Post(st, g)
  BY <1>1, PostTyped DEF Written
<1>3. new.status = st /\ new.at = now /\ new.target = g /\ now \in Nat
  BY <1>2 DEF Post, FeedInv, IInv, TypeOK
<1>4. /\ talk \in [Trash -> PostRow] /\ talk'[t] = new
      /\ \A s \in Trash : s # t => talk'[s] = talk[s]
  BY <1>1, <1>2 DEF Written, FeedInv, FeedTypes
<1>5. t \notin Published
  BY <1>1 DEF Written, NoPost, Published
<1>6. /\ \A s \in Published : s # t /\ s \in Trash /\ talk'[s] = talk[s]
      /\ Published' \subseteq Published \cup {t}
  BY <1>4, <1>5 DEF Published
<1>7. CASE t \notin Published'
  <2>1. Published' \subseteq Published
    BY <1>6, <1>7
  <2> QED
    BY <1>6, <2>1, QuietLimits
<1>8. CASE t \in Published'
  <2>1. \A s \in Published : talk[s].at \in Nat /\ talk[s].at + Cooldown <= e /\ e <= now
    BY <1>1 DEF FeedInv, FeedTypes, Written, PostsAreDated, StillAllowed, WithinLimits, Active, Published
  <2>2. Apart'
    <3> SUFFICES ASSUME NEW s \in Published', NEW u \in Published', s # u
                 PROVE  talk'[s].at + Cooldown <= talk'[u].at \/ talk'[u].at + Cooldown <= talk'[s].at
      BY DEF Apart
    <3>1. CASE s \in Published /\ u \in Published
      BY <1>6, <3>1 DEF Apart
    <3>2. CASE s = t /\ u \in Published
      BY <1>3, <1>4, <1>6, <2>1, <3>2, LimitsTyped
    <3>3. CASE s \in Published /\ u = t
      BY <1>3, <1>4, <1>6, <2>1, <3>3, LimitsTyped
    <3> QED
      BY <1>6, <3>1, <3>2, <3>3
  <2>3. /\ Cardinality(ActiveSince(WeekStart(e))) < FeedWeekly
        /\ Cardinality(ActiveSince(DayStart(e))) < FeedDaily
        /\ g # NoTeam => Cardinality(About(ActiveSince(WeekStart(e)), g)) < TargetWeekly
    BY <1>1 DEF StillAllowed, WithinLimits
  <2>4. /\ IsFiniteSet(ActiveSince(WeekStart(e))) /\ IsFiniteSet(ActiveSince(DayStart(e)))
        /\ IsFiniteSet(About(ActiveSince(WeekStart(e)), g))
    BY TriggerAssumption, FS_Subset DEF ActiveSince, Active, About
  <2>5. ASSUME NEW s \in Published, WeekStart(talk[s].at) = WeekStart(now) PROVE s \in ActiveSince(WeekStart(e))
    <3>1. PICK c \in Nat \ {0} : c = DayTicks * WeekDays
      BY LimitsTyped
    <3>2. \A x : WeekStart(x) = (x \div c) * c
      BY <3>1, WeekIsPeriod
    <3>3. talk[s].at >= (e \div c) * c
      BY <1>1, <2>5, <3>2, SeenByTheLimits DEF Written
    <3> QED
      BY <3>2, <3>3 DEF ActiveSince, Active, Published
  <2>6. ASSUME NEW s \in Published, DayStart(talk[s].at) = DayStart(now) PROVE s \in ActiveSince(DayStart(e))
    <3>1. talk[s].at >= (e \div DayTicks) * DayTicks
      BY <1>1, <2>6, SeenByTheLimits, LimitsTyped DEF Written, DayStart
    <3> QED
      BY <3>1 DEF ActiveSince, Active, Published, DayStart
  <2>7. ASSUME NEW x \in Nat
        PROVE  /\ Cardinality(SameDay(x)') <= FeedDaily /\ Cardinality(SameWeek(x)') <= FeedWeekly
               /\ \A h \in Target : h # NoTeam => Cardinality(About(SameWeek(x), h)') <= TargetWeekly
    <3>1. /\ IsFiniteSet(SameWeek(x)) /\ IsFiniteSet(SameDay(x))
          /\ \A h \in Target : IsFiniteSet(About(SameWeek(x), h))
      BY TriggerAssumption, FS_Subset DEF SameWeek, SameDay, About, Published
    <3>2. /\ SameWeek(x)' = {s \in Published' : WeekStart(talk'[s].at) = WeekStart(x)}
          /\ SameDay(x)' = {s \in SameWeek(x)' : DayStart(talk'[s].at) = DayStart(x)}
          /\ \A h : About(SameWeek(x), h)' = {s \in SameWeek(x)' : talk'[s].target = h}
      BY DEF SameWeek, SameDay, About, WeekStart, DayStart
    <3>3. Cardinality(SameWeek(x)') <= FeedWeekly
      <4>1. CASE WeekStart(now) = WeekStart(x)
        <5>1. SameWeek(x)' \in SUBSET (ActiveSince(WeekStart(e)) \cup {t})
          BY <1>6, <2>5, <3>2, <4>1
        <5> QED
          BY <2>3, <2>4, <5>1, OneMore, LimitsTyped
      <4>2. CASE WeekStart(now) # WeekStart(x)
        <5>1. SameWeek(x)' \in SUBSET SameWeek(x)
          BY <1>3, <1>4, <1>6, <3>2, <4>2 DEF SameWeek
        <5> QED
          BY <3>1, <5>1, NoMore, LimitsTyped DEF Few
      <4> QED
        BY <4>1, <4>2
    <3>4. Cardinality(SameDay(x)') <= FeedDaily
      <4>1. CASE DayStart(now) = DayStart(x)
        <5>1. SameDay(x)' \in SUBSET (ActiveSince(DayStart(e)) \cup {t})
          BY <1>6, <2>6, <3>2, <4>1
        <5> QED
          BY <2>3, <2>4, <5>1, OneMore, LimitsTyped
      <4>2. CASE DayStart(now) # DayStart(x)
        <5>1. SameDay(x)' \in SUBSET SameDay(x)
          BY <1>3, <1>4, <1>6, <3>2, <4>2 DEF SameDay, SameWeek
        <5> QED
          BY <3>1, <5>1, NoMore, LimitsTyped DEF Few
      <4> QED
        BY <4>1, <4>2
    <3>5. ASSUME NEW h \in Target, h # NoTeam PROVE Cardinality(About(SameWeek(x), h)') <= TargetWeekly
      <4>1. CASE WeekStart(now) = WeekStart(x) /\ h = g
        <5>1. About(SameWeek(x), h)' \in SUBSET (About(ActiveSince(WeekStart(e)), g) \cup {t})
          BY <1>6, <2>5, <3>2, <4>1 DEF About
        <5> QED
          BY <2>3, <2>4, <3>5, <4>1, <5>1, OneMore, LimitsTyped
      <4>2. CASE ~(WeekStart(now) = WeekStart(x) /\ h = g)
        <5>1. About(SameWeek(x), h)' \in SUBSET About(SameWeek(x), h)
          BY <1>3, <1>4, <1>6, <3>2, <4>2 DEF SameWeek, About
        <5> QED
          BY <3>1, <3>5, <5>1, NoMore, LimitsTyped DEF Few
      <4> QED
        BY <4>1, <4>2
    <3> QED
      BY <3>3, <3>4, <3>5
  <2>8. Few'
    BY <2>7 DEF Few, Target
  <2> QED
    BY <2>2, <2>8
<1> QED
  BY <1>7, <1>8

(* Posts keep the cooldown, the limits of a day and of a week and the      *)
(* limit per team, although the limits are read for the time of the        *)
(* evaluation and the post is written a model call later, perhaps on       *)
(* another day.                                                            *)
THEOREM FeedKeepsItsLimits == FeedSpec => []FeedWithinLimits
<1>1. FeedInit => Apart /\ Few
  <2> SUFFICES ASSUME FeedInit PROVE Apart /\ Few
    OBVIOUS
  <2>1. Published = {}
    BY DEF FeedInit, Published, NoPost
  <2>2. \A x \in Nat : SameWeek(x) = {} /\ SameDay(x) = {} /\ \A g \in Target : About(SameWeek(x), g) = {}
    BY <2>1 DEF SameWeek, SameDay, About
  <2>3. Cardinality({}) = 0
    BY FS_EmptySet
  <2>4. Apart
    BY <2>1 DEF Apart
  <2>5. Few
    <3> SUFFICES ASSUME NEW x \in Nat
                 PROVE  /\ Cardinality(SameDay(x)) <= FeedDaily
                        /\ Cardinality(SameWeek(x)) <= FeedWeekly
                        /\ \A g \in Target : g # NoTeam => Cardinality(About(SameWeek(x), g)) <= TargetWeekly
      BY DEF Few
    <3>1. FeedDaily >= 0 /\ FeedWeekly >= 0 /\ TargetWeekly >= 0
      BY LimitsTyped
    <3>2. SameDay(x) = {} /\ SameWeek(x) = {}
      BY <2>2
    <3>3. \A g \in Target : About(SameWeek(x), g) = {}
      BY <2>2
    <3> QED
      BY <2>3, <3>1, <3>2, <3>3
  <2> QED
    BY <2>4, <2>5
<1>2. FeedInv /\ Apart /\ Few /\ [FeedNext]_allVars => (Apart /\ Few)'
  <2> SUFFICES ASSUME FeedInv, Apart, Few, [FeedNext]_allVars PROVE Apart' /\ Few'
    OBVIOUS
  <2>1. CASE Evaluate \/ UNCHANGED talk
    <3>1. UNCHANGED talk
      BY <2>1 DEF Evaluate
    <3>2. Published' \subseteq Published /\ \A t \in Published : talk'[t] = talk[t]
      BY <3>1 DEF Published
    <3> QED
      BY <3>2, QuietLimits
  <2>2. ASSUME NEW st \in {"suppressed", "ready"}, Written(st) PROVE Apart' /\ Few'
    <3>1. PICK t \in Trash : t = evaluator.chosen
      BY <2>2 DEF Written, FeedInv, FeedTypes
    <3>2. PICK new \in PostRow : new = Post(st, evaluator.target) /\ new.status = st
      BY <2>2, PostTyped DEF Written, Post
    <3>3. t \notin Published /\ t \notin Published'
      BY <2>2, <3>1, <3>2 DEF Written, NoPost, Published, FeedInv, FeedTypes
    <3>4. \A s \in Trash : s # t => talk'[s] = talk[s]
      BY <2>2, <3>1 DEF Written, FeedInv, FeedTypes
    <3>5. Published' \subseteq Published /\ \A s \in Published : talk'[s] = talk[s]
      BY <3>3, <3>4 DEF Published
    <3> QED
      BY <3>5, QuietLimits
  <2> QED
    BY <2>1, <2>2, FeedSteps, PublishKeepsLimits
<1>3. FeedInv /\ Apart /\ Few => FeedWithinLimits
  <2> SUFFICES ASSUME FeedInv, Apart, Few, NEW t \in Published
               PROVE  LET at == talk[t].at
                          week == {s \in Published : WeekStart(talk[s].at) = WeekStart(at)} IN
                      /\ Cardinality({s \in week : DayStart(talk[s].at) = DayStart(at)}) <= FeedDaily
                      /\ Cardinality(week) <= FeedWeekly
                      /\ talk[t].target # NoTeam => Cardinality(About(week, talk[t].target)) <= TargetWeekly
    BY DEF FeedWithinLimits, Apart
  <2>1. PICK x \in Nat, g \in Target : x = talk[t].at /\ g = talk[t].target
    BY DEF FeedInv, PostsAreDated, FeedTypes, PostRow, Published
  <2>2. /\ SameWeek(x) = {s \in Published : WeekStart(talk[s].at) = WeekStart(x)}
        /\ SameDay(x) = {s \in SameWeek(x) : DayStart(talk[s].at) = DayStart(x)}
    BY DEF SameWeek, SameDay
  <2>3. /\ Cardinality(SameDay(x)) <= FeedDaily /\ Cardinality(SameWeek(x)) <= FeedWeekly
        /\ g # NoTeam => Cardinality(About(SameWeek(x), g)) <= TargetWeekly
    BY DEF Few
  <2> QED
    BY <2>1, <2>2, <2>3
<1> QED
  BY <1>1, <1>2, <1>3, FeedInvariant, PTL DEF FeedSpec
=============================================================================
