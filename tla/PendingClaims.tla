---------------------------- MODULE PendingClaims ----------------------------
(***************************************************************************)
(* Edits of Sleeper's My Waivers queue.  A manager pass turns a desired    *)
(* order into exact cancellations, from the bottom up, and at most one     *)
(* reordering; the browser agent carries each out on a panel that shows    *)
(* names, while the owner edits the same queue by hand and heartbeats keep *)
(* the backend's copy of it.                                               *)
(***************************************************************************)
EXTENDS Integers, Sequences, SequencesExt

CONSTANTS
  Wanted, Given, NoDrop, \* players to add, players to drop
  AgentMade,   \* claims the agent submitted: acquisitions of the lifecycle report
  Unresolved,  \* claims whose abbreviated names fit several players
  MaxQueue, MaxEdits, MaxRows \* bounds: claims at a time, edits by the owner, rows of earlier passes

Claim == [add : Wanted, drop : Given \cup {NoDrop}]

ASSUME PendingAssumption ==
  /\ NoDrop \notin Given
  /\ AgentMade \subseteq Claim /\ Unresolved \subseteq Claim
  /\ {MaxQueue, MaxEdits, MaxRows} \subseteq Nat

VARIABLES
  queue,     \* My Waivers
  snapshot,  \* browser-pending-waivers.json; <<>> when it is too old
  claimPlan, \* the compiled actions of the running pass
  edits,     \* CANCEL_WAIVER_CLAIM and REORDER_WAIVER_CLAIMS rows, oldest first
  editor,    \* the browser agent
  ownerEdits

pendingVars == <<queue, snapshot, claimPlan, edits, editor, ownerEdits>>

Queues == {q \in SeqOf(Claim, MaxQueue) : IsInjective(q)}
Without(q, claims) == SelectSeq(q, LAMBDA c : c \notin claims)

\* A claim whose players are not unique is left out of the context.
Observed == Without(snapshot, Unresolved)

\* matchesPendingWaiverRow: a claim without a drop fits a row with any drop.
Fits(row, claim) == row.add = claim.add /\ (claim.drop # NoDrop => row.drop = claim.drop)
ExactPendingOrder(rows, claims) ==
  Len(rows) = Len(claims) /\ \A i \in DOMAIN rows : Fits(rows[i], claims[i])

PendingInit ==
  /\ queue \in Queues
  /\ snapshot = queue
  /\ claimPlan = <<>> /\ edits = <<>>
  /\ editor = [stage |-> "idle"]
  /\ ownerEdits = 0

-----------------------------------------------------------------------------
(* The manager.                                                            *)

Cancels(current, desired) == Reverse(Without(current, ToSet(desired)))

AfterCancels(current, desired, k) ==
  LET c == Cancels(current, desired) IN Without(current, {c[i] : i \in 1 .. k})

\* What of the desired order is in the queue already; the rest are new claims.
Kept(current, desired) == SelectSeq(desired, LAMBDA c : c \in ToSet(current))

Compile(current, desired) ==
  LET cancels == Cancels(current, desired)
      rest == AfterCancels(current, desired, Len(cancels))
      cancel == [k \in DOMAIN cancels |->
        [type |-> "CANCEL", claim |-> cancels[k],
         before |-> AfterCancels(current, desired, k - 1), after |-> AfterCancels(current, desired, k)]]
      reorder == [type |-> "REORDER", before |-> rest, after |-> Kept(current, desired)]
  IN IF Len(rest) > 1 /\ rest # reorder.after THEN Append(cancel, reorder) ELSE cancel

\* validate_decision admits an order of the pending claims and planned ones;
\* keep, which compiles to nothing, is the current order.
ManagePending ==
  /\ claimPlan = <<>> /\ Len(edits) <= MaxRows
  /\ \E desired \in Queues :
       /\ Compile(Observed, desired) # <<>>
       /\ claimPlan' = Compile(Observed, desired)
  /\ UNCHANGED <<queue, snapshot, edits, editor, ownerEdits>>

EditRows == DOMAIN edits
InPlan(row) == \E k \in DOMAIN claimPlan : claimPlan[k] = row.edit
Obsolete == {n \in EditRows : edits[n].status = "ready" /\ ~InPlan(edits[n])}
Withdraw(rows) == [n \in EditRows |-> IF n \in rows THEN [edits[n] EXCEPT !.status = "blocked"] ELSE edits[n]]

NewEdits ==
  LET new == SelectSeq(claimPlan, LAMBDA e : \A n \in EditRows : edits[n].edit # e) IN
  [k \in DOMAIN new |-> [edit |-> new[k], status |-> "ready"]]

\* synchronize_pending_waiver_actions: an edit of another plan that is leased
\* and not announced yet ends it, after the rows the query happened to return
\* before that one.
SynchronisePending ==
  /\ claimPlan # <<>>
  /\ claimPlan' = <<>>
  /\ IF \E n \in EditRows : edits[n].status = "leased" /\ ~InPlan(edits[n])
       THEN \E some \in SUBSET Obsolete : edits' = Withdraw(some)
       ELSE edits' = Withdraw(Obsolete) \o NewEdits
  /\ UNCHANGED <<queue, snapshot, editor, ownerEdits>>

\* The browser's heartbeat; without one the file grows too old to be read.
Heartbeat == snapshot' = queue /\ UNCHANGED <<queue, claimPlan, edits, editor, ownerEdits>>
SnapshotLapses == snapshot' = <<>> /\ UNCHANGED <<queue, claimPlan, edits, editor, ownerEdits>>

-----------------------------------------------------------------------------
(* The browser agent.                                                      *)

LeaseEdit ==
  /\ editor.stage = "idle"
  /\ \E n \in EditRows :
       /\ edits[n].status = "ready"
       /\ \A m \in EditRows : m < n => edits[m].status # "ready"
       /\ edits' = [edits EXCEPT ![n].status = "leased"]
       /\ editor' = [stage |-> "leased", row |-> n, edit |-> edits[n].edit]
  /\ UNCHANGED <<queue, snapshot, claimPlan, ownerEdits>>

\* The report the loop sends before it looks at anything.
AnnounceEdit ==
  /\ editor.stage = "leased"
  /\ edits' = [edits EXCEPT ![editor.row].status = "preflight"]
  /\ editor' = [editor EXCEPT !.stage = "preflight"]
  /\ UNCHANGED <<queue, snapshot, claimPlan, ownerEdits>>

\* The lease answers with a copy of the command.
Edit == editor.edit
SettleEdit(status) ==
  /\ edits' = [edits EXCEPT ![editor.row].status = status]
  /\ editor' = [stage |-> "idle"]

MatchingRows(claim) == {i \in DOMAIN queue : Fits(queue[i], claim)}

\* Mutant: the first row that fits is taken.
FirstMatch(claim) == MatchingRows(claim) # {}

UniqueMatch(claim) == \E i \in DOMAIN queue : MatchingRows(claim) = {i}

FirstOf(rows) == CHOOSE i \in rows : \A j \in rows : i <= j

Prepared(place) ==
  /\ editor' = [stage |-> "prepared", row |-> editor.row, edit |-> Edit, saw |-> queue, calm |-> TRUE, index |-> place]
  /\ UNCHANGED edits

\* The panel against the queue after, the queue before, and for a
\* cancellation the one row of the claim, whose place is remembered.
PreflightPending ==
  /\ editor.stage = "preflight"
  /\ IF ExactPendingOrder(queue, Edit.after) THEN SettleEdit("verified")
     ELSE IF ~ExactPendingOrder(queue, Edit.before) THEN SettleEdit("blocked")
     ELSE IF Edit.type = "CANCEL"
       THEN IF ~UniqueMatch(Edit.claim) THEN SettleEdit("blocked")
            ELSE Prepared(FirstOf(MatchingRows(Edit.claim)))
     ELSE Prepared(1)
  /\ UNCHANGED <<queue, snapshot, claimPlan, ownerEdits>>

\* An acquisition that waits in My Waivers is unresolved: its critical
\* incident closes the acquisition gate.
Incident == ToSet(snapshot) \cap AgentMade # {}

\* _pending_waiver_state_blockers compares the copy of the last heartbeat.
WritePending ==
  /\ editor.stage = "prepared"
  /\ IF Incident \/ Observed # Edit.before
       THEN SettleEdit("blocked")
     ELSE IF Edit.type = "REORDER" /\ ~ExactPendingOrder(queue, Edit.before)
       THEN SettleEdit("unverified")
     ELSE editor' = [editor EXCEPT !.stage = Edit.type] /\ UNCHANGED edits
  /\ UNCHANGED <<queue, snapshot, claimPlan, ownerEdits>>

\* The Cancel control of the row at the remembered place.
CancelClaim ==
  /\ editor.stage = "CANCEL"
  /\ editor' = [editor EXCEPT !.stage = "verifying"]
  /\ queue' = IF editor.index <= Len(queue) THEN RemoveAt(queue, editor.index) ELSE queue
  /\ UNCHANGED <<snapshot, claimPlan, edits, ownerEdits>>

\* dragTo: the row at the source takes the place of the target.
Dragged(q, source, target) == InsertAt(RemoveAt(q, source), target, q[source])

\* Mutant: the places of the rows are read once, before the first drag.
SourceBefore(claim) ==
  LET i == CHOOSE i \in DOMAIN Edit.before : Edit.before[i] = claim IN IF i <= Len(queue) THEN i ELSE Len(queue)

SourceOf(claim) == FirstOf(MatchingRows(claim))

\* One turn of the loop over the desired order; the rows are read again in each.
DragClaim ==
  /\ editor.stage = "REORDER"
  /\ editor.index <= Len(Edit.after)
  /\ LET desired == Edit.after[editor.index] IN
     IF MatchingRows(desired) = {} THEN SettleEdit("unverified") /\ UNCHANGED queue
     ELSE /\ queue' = IF editor.index <= Len(queue) THEN Dragged(queue, SourceOf(desired), editor.index) ELSE queue
          /\ editor' = [editor EXCEPT !.index = @ + 1, !.stage = IF editor.index = Len(Edit.after) THEN "verifying" ELSE "REORDER"]
          /\ UNCHANGED edits
  /\ UNCHANGED <<snapshot, claimPlan, ownerEdits>>

VerifyPending ==
  /\ editor.stage = "verifying"
  /\ SettleEdit(IF ExactPendingOrder(queue, Edit.after) THEN "verified" ELSE "unverified")
  /\ UNCHANGED <<queue, snapshot, claimPlan, ownerEdits>>

-----------------------------------------------------------------------------
(* The owner edits My Waivers by hand.                                     *)
OwnerEdits ==
  /\ ownerEdits < MaxEdits
  /\ ownerEdits' = ownerEdits + 1
  /\ queue' \in Queues
  /\ \/ \E c \in Claim : Len(queue) < MaxQueue /\ queue' = Append(queue, c)
     \/ \E i \in DOMAIN queue : queue' = RemoveAt(queue, i)
     \/ \E i, j \in DOMAIN queue : i # j /\ queue' = Dragged(queue, i, j)
  /\ editor' = IF "calm" \in DOMAIN editor THEN [editor EXCEPT !.calm = FALSE] ELSE editor
  /\ UNCHANGED <<snapshot, claimPlan, edits>>

PendingNext ==
  \/ ManagePending \/ SynchronisePending \/ Heartbeat \/ SnapshotLapses
  \/ LeaseEdit \/ AnnounceEdit \/ PreflightPending \/ WritePending \/ CancelClaim \/ DragClaim \/ VerifyPending
  \/ OwnerEdits

PendingSpec == PendingInit /\ [][PendingNext]_pendingVars

-----------------------------------------------------------------------------
Exactly(row, claim) == row.add = claim.add /\ row.drop = claim.drop
ToldApart(q) == \A i, j \in DOMAIN q : Fits(q[i], q[j]) => i = j

(* "Exact cancellations run bottom-up and reorders preserve the same claim *)
(* set" (in-season-data-plan.md): while nobody else edits the queue the    *)
(* agent prepared for, a cancellation removes the claim it was decided for *)
(* and no other, also when two claims for one player cannot be told apart  *)
(* in the panel.  Left out is a claim without a drop that has gone since   *)
(* the decision: any row of its player fits it.                            *)
CancelsTheDecidedClaim ==
  [][editor.stage = "CANCEL" /\ editor'.stage = "verifying" /\ editor.calm
      /\ (Edit.claim \in ToSet(queue) \/ Edit.claim.drop # NoDrop) =>
       \E i \in DOMAIN queue : Exactly(queue[i], Edit.claim) /\ queue' = RemoveAt(queue, i)]_pendingVars

(* A reordering drags one row after the other into its place, on a panel   *)
(* it reads again before each: when nobody else edits in the meantime and  *)
(* the panel tells the claims apart, the queue ends in the decided order.  *)
ReorderReachesTheOrder ==
  [][editor.stage = "REORDER" /\ editor'.stage = "verifying" /\ editor.calm
      /\ editor.saw = Edit.before /\ ToldApart(Edit.before) =>
       queue' = Edit.after]_pendingVars
=============================================================================
