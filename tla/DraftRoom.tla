----------------------------- MODULE DraftRoom -----------------------------
(***************************************************************************)
(* The live snake draft: the rooms that watch the board and decide (the    *)
(* draft monitor polls every two seconds, the scheduler builds the same    *)
(* room every five minutes), the outbox rows they queue, the browser agent *)
(* that clicks, and the other managers and Sleeper's clock around them.    *)
(*                                                                         *)
(* A pick stream only grows, so the number of its picks stands for the     *)
(* content_hash of it: the board after n picks is board n.  A command is   *)
(* named by what its dedupe key holds, board and player.                   *)
(***************************************************************************)
EXTENDS Integers, Sequences

CONSTANTS
  Room,       \* the processes that run build_draft_room
  Player,     \* the matched players of the rankings
  NoPlayer,
  Teams, Rounds,
  OwnerSlot,  \* draft_order of the owner
  Timer,      \* settings.pick_timer
  LastPick,   \* bound: the picks of the draft that are followed
  SubmitRemaining, \* draft_auto_submit_seconds_remaining, 15 s
  Safety      \* 2 s between the end of a command and the deadline

ASSUME DraftAssumption ==
  /\ {Teams, Rounds, LastPick, Timer, SubmitRemaining, Safety} \subseteq Nat \ {0}
  /\ OwnerSlot \in 1 .. Teams
  /\ Safety < SubmitRemaining /\ SubmitRemaining < Timer
  /\ NoPlayer \notin Player

VARIABLES
  now,
  picks,    \* GET draft/{id}/picks
  room,     \* what a running build_draft_room holds in its local variables
  command,  \* the DRAFT_PLAYER rows of the outbox by board and player
  agent,    \* the browser agent: the command it holds and how far it is
  agentReady  \* a fresh heartbeat with the DRAFT_PLAYER capability

vars == <<now, picks, room, command, agent, agentReady>>

Total == Teams * Rounds
Board == 0 .. Total
Key == [board : Board, player : Player]
MaxTime == Total * Timer

\* The slot of a pick: odd rounds run forwards, even rounds backwards.
SnakeSlot(n) ==
  LET round == (n - 1) \div Teams  index == (n - 1) % Teams
  IN IF round % 2 = 0 THEN index + 1 ELSE Teams - index

\* The first owner's pick in two rounds from n on, or n + Teams.
NextOwnerPick(n) ==
  LET mine == {k \in n .. n + 2 * Teams : SnakeSlot(k) = OwnerSlot}
  IN IF mine = {} THEN n + Teams ELSE CHOOSE k \in mine : \A j \in mine : k <= j

Complete(board) == board >= Total
OwnerOnClock(board) == ~Complete(board) /\ NextOwnerPick(board + 1) = board + 1
\* last_picked, and start_time before the first pick.
StartedAt(board) == IF board = 0 THEN 0 ELSE picks[board].at
Drafted(board) == {picks[n].player : n \in 1 .. board}
Current == Len(picks)
\* Bound: what begins after LastPick is not followed.
Followed == ~Complete(Current) /\ Current < LastPick

\* A pick remembers who made it, and the agent's the board it was decided on.
Pick == [player : Player, by : {"manager", "owner", "agent", "autopick"}, decided : Board, at : 0 .. MaxTime]
RoomState == [stage : {"idle", "drafted", "expert", "refresh", "queue"},
              board : Board, started : 0 .. MaxTime, choice : Player \cup {NoPlayer}]
Idle == [stage |-> "idle", board |-> 0, started |-> 0, choice |-> NoPlayer]
NoCommand == [status |-> "none", notBefore |-> 0, expires |-> 0, created |-> 0]
Handsfree == [stage |-> "idle", board |-> 0, player |-> NoPlayer]

Init ==
  /\ now = 0
  /\ picks = <<>>
  /\ room = [r \in Room |-> Idle]
  /\ command = [k \in Key |-> NoCommand]
  /\ agent = Handsfree
  /\ agentReady = TRUE

-----------------------------------------------------------------------------
(* One poll of a room.                                                     *)

\* build_draft_room reads the draft first: its clock may be of an older board
\* than the picks it reads next.
ReadDraft(r) ==
  /\ room[r].stage = "idle"
  /\ Followed
  /\ room' = [room EXCEPT ![r] = [Idle EXCEPT !.stage = "drafted", !.started = StartedAt(Current)]]
  /\ UNCHANGED <<now, picks, command, agent, agentReady>>

\* _existing_autopick_for_board finds a command of any status for this board.
ExistingFor(board) == {k \in Key : k.board = board /\ command[k].status # "none"}

\* A room that is not on the clock, or finds its board decided, only reports.
ReadPicks(r) ==
  /\ room[r].stage = "drafted"
  /\ room' = [room EXCEPT ![r] =
       IF OwnerOnClock(Current) /\ ExistingFor(Current) = {}
         THEN [room[r] EXCEPT !.stage = "expert", !.board = Current] ELSE Idle]
  /\ UNCHANGED <<now, picks, command, agent, agentReady>>

\* The expert chooses from the live allowlist; when it fails the emergency
\* fallback takes the best candidate of the same list.
Choose(r) ==
  /\ room[r].stage = "expert"
  /\ \E p \in Player \ Drafted(room[r].board) :
       room' = [room EXCEPT ![r] = [room[r] EXCEPT !.stage = "refresh", !.choice = p]]
  /\ UNCHANGED <<now, picks, command, agent, agentReady>>

\* No decision: the fallback is off or empty, the confidence is below the
\* minimum, a configuration blocker stands, or Sleeper answers nonsense.
Abandon(r) ==
  /\ room[r].stage \in {"expert", "refresh"}
  /\ room' = [room EXCEPT ![r] = Idle]
  /\ UNCHANGED <<now, picks, command, agent, agentReady>>

\* Mutant: the clock of the first read is kept.
RefreshKeepsClock(r) ==
  /\ room[r].stage = "refresh"
  /\ room' = [room EXCEPT ![r] = IF Current = room[r].board THEN [room[r] EXCEPT !.stage = "queue"] ELSE Idle]
  /\ UNCHANGED <<now, picks, command, agent, agentReady>>

\* _refresh_unchanged_live_board: an advanced board discards the decision, an
\* unchanged one gives its newest clock.
Refresh(r) ==
  /\ room[r].stage = "refresh"
  /\ room' = [room EXCEPT ![r] =
       IF Current = room[r].board
         THEN [room[r] EXCEPT !.stage = "queue", !.started = StartedAt(Current)] ELSE Idle]
  /\ UNCHANGED <<now, picks, command, agent, agentReady>>

Later(a, b) == IF a >= b THEN a ELSE b
Window(r) ==
  [notBefore |-> Later(now, room[r].started + Timer - SubmitRemaining),
   expires |-> room[r].started + Timer - Safety]

\* Mutant: a window that is already over is queued.
TimeRemainsAlways(w) == TRUE

TimeRemains(w) == w.notBefore < w.expires

\* _queue_autopick: blocked without a ready agent or without time; the dedupe
\* key of propose_execution returns the row that is already there.
QueueAutopick(r) ==
  /\ room[r].stage = "queue"
  /\ room' = [room EXCEPT ![r] = Idle]
  /\ LET k == [board |-> room[r].board, player |-> room[r].choice] IN
     command' =
       IF agentReady /\ TimeRemains(Window(r)) /\ command[k].status = "none"
         THEN [command EXCEPT ![k] =
                [status |-> "ready", notBefore |-> Window(r).notBefore, expires |-> Window(r).expires, created |-> now]]
         ELSE command
  /\ UNCHANGED <<now, picks, agent, agentReady>>

-----------------------------------------------------------------------------
(* The browser agent.  Crashes and lost reports are CommandOutbox's.       *)

Held == [board |-> agent.board, player |-> agent.player]
Settle(status) ==
  /\ command' = [command EXCEPT ![Held].status = status]
  /\ agent' = Handsfree

Leasable(k) ==
  command[k].status = "ready" /\ command[k].notBefore <= now /\ now < command[k].expires

Lease ==
  /\ agent.stage = "idle" /\ agentReady
  /\ \E k \in Key :
       /\ Leasable(k)
       /\ \A other \in Key : Leasable(other) => command[k].created <= command[other].created
       /\ command' = [command EXCEPT ![k].status = "leased"]
       /\ agent' = [stage |-> "leased", board |-> k.board, player |-> k.player]
  /\ UNCHANGED <<now, picks, room, agentReady>>

MadeAsDecided ==
  /\ Current > agent.board
  /\ picks[agent.board + 1].player = agent.player
  /\ picks[agent.board + 1].by # "manager"

\* Mutant: the owner is on the clock and the player is available, whatever the board.
PreflightAnyBoard == OwnerOnClock(Current) /\ agent.player \notin Drafted(Current)

\* The board is the one of the decision, the owner is on the clock of it and
\* the player is still there.
PreflightPasses ==
  /\ Current = agent.board
  /\ OwnerOnClock(Current)
  /\ agent.player \notin Drafted(Current)

\* preflightDraftPick: done already, as decided, or refused.
PreflightDraftPick ==
  /\ agent.stage = "leased"
  /\ IF MadeAsDecided
       THEN Settle("verified")
     ELSE IF PreflightPasses
       THEN agent' = [agent EXCEPT !.stage = "looked"] /\ UNCHANGED command
     ELSE Settle("blocked")
  /\ UNCHANGED <<now, picks, room, agentReady>>

\* Login, league or page contract refuse the command before the boundary.
Refused ==
  /\ agent.stage \in {"leased", "looked"}
  /\ Settle("blocked")
  /\ UNCHANGED <<now, picks, room, agentReady>>

\* The server looks at the expiry only: the board was the agent's to check.
WritePreflight ==
  /\ agent.stage = "looked"
  /\ IF now < command[Held].expires
       THEN /\ agent' = [agent EXCEPT !.stage = "executing"]
            /\ command' = [command EXCEPT ![Held].status = "executing"]
       ELSE Settle("blocked")
  /\ UNCHANGED <<now, picks, room, agentReady>>

Made(player, by, decided) ==
  picks' = Append(picks, [player |-> player, by |-> by, decided |-> decided, at |-> now])

\* draftPlayer presses the draft button of the row, which is there while the
\* owner is on the clock; without it the page automation throws.
ClickDraft ==
  /\ agent.stage = "executing"
  /\ OwnerOnClock(Current) /\ agent.player \notin Drafted(Current)
  /\ Made(agent.player, "agent", agent.board)
  /\ agent' = [agent EXCEPT !.stage = "verifying"]
  /\ UNCHANGED <<now, room, command, agentReady>>

ClickThrows ==
  /\ agent.stage = "executing"
  /\ Settle("unverified")
  /\ UNCHANGED <<now, picks, room, agentReady>>

Verify ==
  /\ agent.stage = "verifying"
  /\ Settle(IF MadeAsDecided THEN "verified" ELSE "unverified")
  /\ UNCHANGED <<now, picks, room, agentReady>>

-----------------------------------------------------------------------------
(* Sleeper, the managers, the clock and the agent's session.               *)

Deadline == StartedAt(Current) + Timer

\* A manager, or the owner by hand, picks; at the deadline Sleeper does.
SomeonePicks ==
  /\ Followed
  /\ \E p \in Player \ Drafted(Current) :
       Made(p, IF now >= Deadline THEN "autopick" ELSE IF OwnerOnClock(Current) THEN "owner" ELSE "manager", Current)
  /\ UNCHANGED <<now, room, command, agent, agentReady>>

Tick ==
  /\ Followed /\ now < Deadline
  /\ now' = now + 1
  /\ UNCHANGED <<picks, room, command, agent, agentReady>>

HeartbeatChanges ==
  /\ Followed
  /\ agentReady' = ~agentReady
  /\ UNCHANGED <<now, picks, room, command, agent>>

RoomStep(r) == ReadDraft(r) \/ ReadPicks(r) \/ Choose(r) \/ Abandon(r) \/ Refresh(r) \/ QueueAutopick(r)
AgentStep == Lease \/ PreflightDraftPick \/ Refused \/ WritePreflight \/ ClickDraft \/ ClickThrows \/ Verify

Next == (\E r \in Room : RoomStep(r)) \/ AgentStep \/ SomeonePicks \/ Tick \/ HeartbeatChanges
Spec == Init /\ [][Next]_vars

-----------------------------------------------------------------------------
Statuses == {"none", "ready", "leased", "executing", "verified", "unverified", "blocked"}

(* Types; and a row of the outbox opens before it expires (draft_room.py   *)
(* refuses a decision that comes too late, execution.py would raise).      *)
DraftTypeOK ==
  /\ now \in 0 .. MaxTime
  /\ picks \in Seq(Pick) /\ Len(picks) <= Total
  /\ room \in [Room -> RoomState]
  /\ DOMAIN command = Key
  /\ \A k \in Key :
       /\ command[k].status \in Statuses
       /\ command[k].status # "none" => command[k].notBefore < command[k].expires
  /\ agent.stage \in {"idle", "leased", "looked", "executing", "verifying"}
  /\ agentReady \in BOOLEAN

(* draft_room.py says of a decided board: "the monitor will not request or *)
(* queue a second decision".  Monitor and scheduler look for that decision *)
(* before a long model call and write theirs after it, so two rooms queue  *)
(* two players for one board.                                              *)
OneDecisionPerBoard ==
  \A k, l \in Key : command[k].status # "none" /\ command[l].status # "none" /\ k.board = l.board => k = l

(* What is left of it when two rooms decide one board: their decisions     *)
(* never become two drafts.  The agent's look at the board is all that     *)
(* keeps the second one from the turn of the snake, where the owner is on  *)
(* the clock again right after the first and the player is still there.    *)
OneDraftPerBoard ==
  \A n, m \in 1 .. Current :
    n # m /\ picks[n].by = "agent" /\ picks[m].by = "agent" => picks[n].decided # picks[m].decided

(* "A manual Sleeper pick made before that release changes the board hash  *)
(* and invalidates the pending command before it can click" (README.md):   *)
(* when the agent drafts at another pick than the decided one, which needs *)
(* two picks of the owner in a row, the decided pick was taken after the   *)
(* release, between the agent's look at the board and its click.           *)
StalePickOnlyAfterRelease ==
  \A n \in 1 .. Current :
    LET p == picks[n] IN
    p.by = "agent" /\ p.decided # n - 1 =>
      picks[p.decided + 1].at >= command[[board |-> p.decided, player |-> p.player]].notBefore

(* The agent drafts for its board in the last seconds of the clock of that *)
(* board and not before, although a room reads draft and picks in two      *)
(* calls and thinks for tens of seconds in between: the owner keeps the    *)
(* time to pick by hand.                                                   *)
DraftsInTheLastSeconds ==
  \A n \in 1 .. Current :
    picks[n].by = "agent" => picks[n].at >= StartedAt(picks[n].decided) + Timer - SubmitRemaining
=============================================================================
