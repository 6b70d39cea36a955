--------------------------- MODULE DraftRoomProofs ---------------------------
(***************************************************************************)
(* Theorems about DraftRoom for any draft: any numbers of teams, rounds    *)
(* and players, any clock, any of the owner's slots, and any number of     *)
(* rooms that decide beside each other.  They may decide one board twice   *)
(* (DraftRoomTwo.cfg); what follows from their decisions is proved here.   *)
(***************************************************************************)
EXTENDS DraftRoom, TLAPS

CommandRow == [status : Statuses, notBefore : Nat, expires : Nat, created : Nat]
AgentState == [stage : {"idle", "leased", "looked", "executing", "verifying"},
               board : Board, player : Player \cup {NoPlayer}]

Taken(k) == command[k].status # "none"
Engaged == agent.stage # "idle"

\* The types, with what a stage says of the fields used in it.
TypeInv ==
  /\ now \in Nat
  /\ picks \in Seq(Pick) /\ Len(picks) <= Total
  /\ room \in [Room -> RoomState]
  /\ \A r \in Room : room[r].stage \in {"refresh", "queue"} => room[r].choice \in Player
  /\ command \in [Key -> CommandRow]
  /\ \A k \in Key : Taken(k) => command[k].notBefore < command[k].expires
  /\ agent \in AgentState
  /\ Engaged => agent.player \in Player /\ Taken(Held)
  /\ agentReady \in BOOLEAN

\* Sleeper's clock: the n-th pick is made within n times the timer.
ClockInv ==
  /\ \A n \in 1 .. Len(picks) : picks[n].at <= now /\ picks[n].at <= n * Timer
  /\ now <= StartedAt(Current) + Timer
  /\ now <= MaxTime

\* What is decided opens in the last seconds of the clock of its board.
ReleaseInv ==
  /\ \A r \in Room :
       /\ room[r].stage \in {"expert", "refresh", "queue"} => room[r].board <= Len(picks)
       /\ room[r].stage = "queue" => room[r].started = StartedAt(room[r].board)
  /\ \A k \in Key : Taken(k) =>
       k.board <= Len(picks) /\ command[k].notBefore >= StartedAt(k.board) + Timer - SubmitRemaining

\* The agent holds what has been released, and a board that moved on under
\* its eyes did so after the release.
AgentInv ==
  /\ Engaged => now >= command[Held].notBefore
  /\ agent.stage \in {"looked", "executing"} /\ Len(picks) > agent.board =>
       picks[agent.board + 1].at >= command[Held].notBefore

\* An agent's pick remembers a decision that is on file.
PickInv ==
  \A n \in 1 .. Len(picks) :
    LET p == picks[n]  k == [board |-> p.decided, player |-> p.player] IN
    p.by = "agent" =>
      /\ p.decided <= n - 1
      /\ Taken(k)
      /\ p.at >= command[k].notBefore
      /\ p.decided < n - 1 => picks[p.decided + 1].at >= command[k].notBefore

DraftInv == TypeInv /\ ClockInv /\ ReleaseInv /\ AgentInv /\ PickInv

-----------------------------------------------------------------------------
(* Arithmetic of the clock.                                                *)

LEMMA Sizes ==
  /\ Teams \in Nat /\ Rounds \in Nat /\ Total \in Nat /\ MaxTime \in Nat
  /\ Timer \in Nat /\ SubmitRemaining \in Nat /\ Safety \in Nat
  /\ Timer > SubmitRemaining /\ SubmitRemaining > Safety /\ Safety > 0
  /\ NoPlayer \notin Player
<1>1. /\ Teams \in Nat /\ Rounds \in Nat /\ Timer \in Nat /\ SubmitRemaining \in Nat /\ Safety \in Nat
      /\ Timer > SubmitRemaining /\ SubmitRemaining > Safety /\ Safety > 0 /\ NoPlayer \notin Player
  BY DraftAssumption
<1>2. Total \in Nat
  BY <1>1, SMT DEF Total
<1>3. MaxTime \in Nat
  BY <1>1, <1>2, SMT DEF MaxTime
<1> QED
  BY <1>1, <1>2, <1>3

LEMMA NextPickInTime ==
  ASSUME NEW n \in Nat, n < Total
  PROVE  n * Timer + Timer = (n + 1) * Timer /\ (n + 1) * Timer <= MaxTime /\ n * Timer \in Nat
<1>1. PICK d \in Nat : Total = n + 1 + d
  <2>1. Total - (n + 1) \in Nat /\ Total = n + 1 + (Total - (n + 1))
    BY Sizes
  <2> QED
    BY <2>1
<1>2. d * Timer \in Nat /\ n * Timer \in Nat /\ (n + 1) * Timer = n * Timer + Timer
  BY Sizes, SMT
<1>3. Total * Timer = (n + 1) * Timer + d * Timer
  BY <1>1, Sizes, SMT
<1> QED
  BY <1>2, <1>3, Sizes DEF MaxTime

-----------------------------------------------------------------------------
(* What a step has to show.                                                *)

LEMMA InitHolds == Init => DraftInv
<1> SUFFICES ASSUME Init PROVE DraftInv
  OBVIOUS
<1>1. picks = <<>> /\ Len(picks) = 0 /\ Current = 0 /\ now = 0
  BY DEF Init, Current
<1>2. Idle \in RoomState /\ NoCommand \in CommandRow /\ Handsfree \in AgentState
  BY Sizes DEF Idle, RoomState, NoCommand, CommandRow, Handsfree, AgentState, Statuses, Board
<1>3. /\ \A r \in Room : room[r] = Idle
      /\ \A k \in Key : command[k] = NoCommand
      /\ agent = Handsfree
  BY DEF Init
<1>4. ~Engaged /\ \A k \in Key : ~Taken(k)
  BY <1>3 DEF Engaged, Handsfree, Taken, NoCommand
<1>5. TypeInv
  BY <1>1, <1>2, <1>3, <1>4, Sizes DEF TypeInv, Init, Idle
<1>6. ClockInv
  BY <1>1, Sizes DEF ClockInv, StartedAt
<1>7. ReleaseInv
  BY <1>3, <1>4 DEF ReleaseInv, Idle
<1>8. AgentInv
  BY <1>3, <1>4 DEF AgentInv, Handsfree
<1>9. PickInv
  BY <1>1 DEF PickInv
<1> QED
  BY <1>5, <1>6, <1>7, <1>8, <1>9 DEF DraftInv

\* A room moves on to a state that is in order.
InOrder(s) ==
  /\ s \in RoomState
  /\ s.stage \in {"refresh", "queue"} => s.choice \in Player
  /\ s.stage \in {"expert", "refresh", "queue"} => s.board <= Len(picks)
  /\ s.stage = "queue" => s.started = StartedAt(s.board)

LEMMA RoomMoves ==
  ASSUME DraftInv, NEW r \in Room, NEW s, InOrder(s), room' = [room EXCEPT ![r] = s],
         UNCHANGED <<now, picks, command, agent, agentReady>>
  PROVE  DraftInv'
<1>1. /\ TypeInv /\ room \in [Room -> RoomState]
      /\ room' \in [Room -> RoomState] /\ \A q \in Room : room'[q] = IF q = r THEN s ELSE room[q]
  BY DEF DraftInv, TypeInv, InOrder
<1>2. TypeInv'
  BY <1>1 DEF TypeInv, InOrder, Taken, Held, Engaged
<1>3. ClockInv'
  BY DEF DraftInv, ClockInv, StartedAt, Current
<1>4. ReleaseInv'
  BY <1>1 DEF DraftInv, ReleaseInv, InOrder, Taken, StartedAt
<1>5. AgentInv' /\ PickInv'
  BY DEF DraftInv, AgentInv, PickInv, Engaged, Held, Taken
<1> QED
  BY <1>2, <1>3, <1>4, <1>5 DEF DraftInv

\* The rows on file stay on file and keep their windows.
SameWindows ==
  \A k \in Key : Taken(k) =>
    /\ command'[k].status # "none"
    /\ command'[k].notBefore = command[k].notBefore
    /\ command'[k].expires = command[k].expires

LEMMA AgentMoves ==
  ASSUME DraftInv, UNCHANGED <<now, picks, room, agentReady>>,
         command' \in [Key -> CommandRow], SameWindows,
         \A k \in Key : command'[k].status # "none" => Taken(k),
         agent' \in AgentState,
         agent'.stage # "idle" =>
           /\ agent'.player \in Player /\ Taken([board |-> agent'.board, player |-> agent'.player])
           /\ now >= command[[board |-> agent'.board, player |-> agent'.player]].notBefore,
         agent'.stage \in {"looked", "executing"} /\ Len(picks) > agent'.board =>
           picks[agent'.board + 1].at >= command[[board |-> agent'.board, player |-> agent'.player]].notBefore
  PROVE  DraftInv'
<1> DEFINE h == [board |-> agent'.board, player |-> agent'.player]
<1>1. agent'.stage # "idle" => h \in Key /\ command'[h].status # "none" /\ command'[h].notBefore = command[h].notBefore
  <2> SUFFICES ASSUME agent'.stage # "idle" PROVE h \in Key /\ command'[h].status # "none" /\ command'[h].notBefore = command[h].notBefore
    OBVIOUS
  <2>1. h \in Key
    BY DEF AgentState, Key
  <2> QED
    BY <2>1 DEF SameWindows
<1>2. TypeInv'
  BY <1>1 DEF DraftInv, TypeInv, Taken, SameWindows, Held, Engaged
<1>3. ClockInv'
  BY DEF DraftInv, ClockInv, StartedAt, Current
<1>4. ReleaseInv'
  BY DEF DraftInv, ReleaseInv, Taken, StartedAt, SameWindows
<1>5. AgentInv'
  BY <1>1 DEF AgentInv, Engaged, Held
<1>6. PickInv'
  <2> SUFFICES ASSUME NEW n \in 1 .. Len(picks), picks[n].by = "agent"
               PROVE  LET p == picks[n]  k == [board |-> p.decided, player |-> p.player] IN
                      /\ p.decided <= n - 1 /\ command'[k].status # "none" /\ p.at >= command'[k].notBefore
                      /\ p.decided < n - 1 => picks[p.decided + 1].at >= command'[k].notBefore
    BY DEF PickInv, Taken
  <2> DEFINE k == [board |-> picks[n].decided, player |-> picks[n].player]
  <2>0. picks[n] \in Pick
    BY DEF DraftInv, TypeInv
  <2>1. k \in Key
    BY <2>0 DEF Pick, Key
  <2>2. /\ picks[n].decided <= n - 1 /\ Taken(k) /\ picks[n].at >= command[k].notBefore
        /\ picks[n].decided < n - 1 => picks[picks[n].decided + 1].at >= command[k].notBefore
    BY DEF DraftInv, PickInv
  <2> QED
    BY <2>1, <2>2 DEF SameWindows
<1> QED
  BY <1>2, <1>3, <1>4, <1>5, <1>6 DEF DraftInv

LEMMA PickMade ==
  ASSUME DraftInv, NEW p \in Pick, p.at = now, picks' = Append(picks, p), Len(picks) < Total,
         p.by = "agent" =>
           LET k == [board |-> p.decided, player |-> p.player] IN
           /\ p.decided <= Len(picks) /\ Taken(k) /\ now >= command[k].notBefore
           /\ p.decided < Len(picks) => picks[p.decided + 1].at >= command[k].notBefore,
         UNCHANGED <<now, room, command, agentReady>>,
         agent' \in AgentState, agent'.board = agent.board, agent'.player = agent.player,
         Engaged \/ agent' = agent,
         agent'.stage \in {"looked", "executing"} => agent.stage \in {"looked", "executing"}
  PROVE  DraftInv'
<1>0. PICK c \in Nat : c = Len(picks)
  BY DEF DraftInv, TypeInv
<1>1. /\ picks \in Seq(Pick) /\ c = Len(picks) /\ now \in Nat
      /\ picks' \in Seq(Pick) /\ Len(picks') = c + 1 /\ picks'[c + 1] = p
      /\ \A n \in 1 .. c : picks'[n] = picks[n] /\ picks[n] \in Pick
  BY <1>0 DEF DraftInv, TypeInv
<1>2. /\ \A b \in 0 .. c : StartedAt(b)' = StartedAt(b)
      /\ StartedAt(c + 1)' = now
  BY <1>1 DEF StartedAt
<1>3. TypeInv'
  <2>1. Engaged' => Engaged
    BY DEF Engaged
  <2>2. Held' = Held
    BY DEF Held
  <2>3. Len(picks') <= Total
    BY <1>1, Sizes
  <2> QED
    BY <1>1, <2>1, <2>2, <2>3 DEF DraftInv, TypeInv, Taken
<1>4. now <= (c + 1) * Timer
  <2>1. now <= StartedAt(c) + Timer
    BY <1>1 DEF DraftInv, ClockInv, Current
  <2>2. StartedAt(c) <= c * Timer
    BY <1>1, NextPickInTime DEF DraftInv, ClockInv, StartedAt
  <2>3. StartedAt(c) \in Nat
    BY <1>1, Sizes DEF StartedAt, Pick
  <2>4. c * Timer \in Nat /\ c * Timer + Timer = (c + 1) * Timer
    BY <1>1, NextPickInTime
  <2> QED
    BY <1>1, <2>1, <2>2, <2>3, <2>4, Sizes
<1>5. ClockInv'
  <2>1. \A n \in 1 .. c + 1 : picks'[n].at <= now /\ picks'[n].at <= n * Timer
    <3> SUFFICES ASSUME NEW n \in 1 .. c + 1 PROVE picks'[n].at <= now /\ picks'[n].at <= n * Timer
      OBVIOUS
    <3>1. CASE n = c + 1
      BY <3>1, <1>1, <1>4
    <3>2. CASE n \in 1 .. c
      BY <3>2, <1>1 DEF DraftInv, ClockInv
    <3> QED
      BY <3>1, <3>2, <1>1
  <2>2. now <= now + Timer
    BY <1>1, Sizes
  <2>3. MaxTime' = MaxTime /\ now <= MaxTime
    BY DEF MaxTime, Total, DraftInv, ClockInv
  <2> QED
    BY <1>1, <1>2, <2>1, <2>2, <2>3 DEF ClockInv, Current
<1>6. ReleaseInv'
  <2>1. \A r \in Room :
          /\ room[r].stage \in {"expert", "refresh", "queue"} => room[r].board <= c
          /\ room[r].stage = "queue" => room[r].started = StartedAt(room[r].board)
          /\ room[r].board \in Nat
    <3>1. \A r \in Room : room[r] \in RoomState
      BY DEF DraftInv, TypeInv
    <3>2. \A r \in Room : room[r].board \in Nat
      BY <3>1, Sizes DEF RoomState, Board
    <3> QED
      BY <3>2, <1>1 DEF DraftInv, ReleaseInv
  <2>2. \A r \in Room :
          /\ room[r].stage \in {"expert", "refresh", "queue"} => room[r].board <= c + 1
          /\ room[r].stage = "queue" => room[r].started = StartedAt(room[r].board)'
    BY <2>1, <1>1, <1>2
  <2>3. \A k \in Key : Taken(k) =>
          k.board <= c + 1 /\ command[k].notBefore >= StartedAt(k.board)' + Timer - SubmitRemaining
    BY <1>1, <1>2, Sizes DEF DraftInv, ReleaseInv, Key, Board
  <2> QED
    BY <1>1, <2>2, <2>3 DEF ReleaseInv, Taken
<1>7. AgentInv'
  <2>1. Engaged' => Engaged
    BY DEF Engaged
  <2>2. Held' = Held
    BY DEF Held
  <2>3. Engaged => now >= command[Held].notBefore
    BY DEF DraftInv, AgentInv
  <2>4. ASSUME agent'.stage \in {"looked", "executing"}, c + 1 > agent.board
        PROVE  picks'[agent.board + 1].at >= command[Held].notBefore
    <3>1. agent.board \in Nat
      BY Sizes DEF DraftInv, TypeInv, AgentState, Board
    <3>2. agent.stage \in {"looked", "executing"} /\ Engaged
      BY <2>4 DEF Engaged
    <3>3. CASE agent.board = c
      BY <3>2, <3>3, <1>1, <2>3
    <3>4. CASE agent.board < c
      <4>1. picks[agent.board + 1].at >= command[Held].notBefore
        BY <3>2, <3>4, <1>1 DEF DraftInv, AgentInv
      <4>2. agent.board + 1 \in 1 .. c
        BY <3>1, <3>4, <1>1
      <4> QED
        BY <4>1, <4>2, <1>1
    <3> QED
      BY <3>1, <3>3, <3>4, <2>4, <1>1
  <2> QED
    BY <1>1, <2>1, <2>2, <2>3, <2>4 DEF AgentInv
<1>8. PickInv'
  <2> SUFFICES ASSUME NEW n \in 1 .. c + 1, picks'[n].by = "agent"
               PROVE  LET q == picks'[n]  k == [board |-> q.decided, player |-> q.player] IN
                      /\ q.decided <= n - 1 /\ Taken(k) /\ q.at >= command[k].notBefore
                      /\ q.decided < n - 1 => picks'[q.decided + 1].at >= command[k].notBefore
    BY <1>1 DEF PickInv, Taken
  <2> DEFINE d == picks'[n].decided
  <2>1. d \in Nat
    BY <1>1, Sizes DEF Pick, Board
  <2>2. d < n - 1 => d + 1 \in 1 .. c
    BY <1>1, <2>1
  <2>3. CASE n = c + 1
    BY <2>1, <2>2, <2>3, <1>1
  <2>4. CASE n \in 1 .. c
    BY <2>1, <2>2, <2>4, <1>1 DEF DraftInv, PickInv
  <2>5. n = c + 1 \/ n \in 1 .. c
    OBVIOUS
  <2> QED
    BY <2>3, <2>4, <2>5
<1> QED
  BY <1>3, <1>5, <1>6, <1>7, <1>8 DEF DraftInv

LEMMA Clock ==
  ASSUME DraftInv
  PROVE  /\ Current \in Board /\ Current = Len(picks)
         /\ StartedAt(Current) \in 0 .. MaxTime
         /\ \A r \in Room : room[r] \in RoomState
<1>1. Current \in Nat /\ Current <= Total /\ \A n \in 1 .. Current : picks[n] \in Pick
  BY DEF DraftInv, TypeInv, Current
<1>2. StartedAt(Current) \in 0 .. MaxTime
  BY <1>1, Sizes DEF StartedAt, Pick
<1> QED
  BY <1>1, <1>2, Sizes DEF Board, Current, DraftInv, TypeInv

\* Before the last pick the deadline of the clock lies within the draft.
LEMMA ClockBound ==
  ASSUME DraftInv, ~Complete(Current)
  PROVE  now \in 0 .. MaxTime /\ Len(picks) < Total /\ StartedAt(Current) + Timer <= MaxTime
<1>1. PICK c \in Nat : c = Len(picks) /\ c < Total /\ Current = c
  BY Clock, Sizes DEF Complete, Board
<1>2. StartedAt(c) \in Nat /\ StartedAt(c) <= c * Timer
  <2>1. StartedAt(c) \in Nat
    BY <1>1, Clock, Sizes
  <2>2. StartedAt(c) <= c * Timer
    BY <1>1, NextPickInTime DEF DraftInv, ClockInv, StartedAt
  <2> QED
    BY <2>1, <2>2
<1>3. c * Timer + Timer <= MaxTime /\ c * Timer \in Nat
  BY <1>1, NextPickInTime
<1>4. StartedAt(c) + Timer <= MaxTime
  BY <1>2, <1>3, Sizes
<1>5. now \in 0 .. MaxTime
  BY Sizes DEF DraftInv, TypeInv, ClockInv
<1> QED
  BY <1>1, <1>4, <1>5

LEMMA TimePasses ==
  ASSUME DraftInv, Tick
  PROVE  DraftInv'
<1>1. /\ now \in Nat /\ now' = now + 1 /\ now' <= StartedAt(Current) + Timer /\ now' <= MaxTime
      /\ UNCHANGED <<picks, room, command, agent, agentReady>>
  <2>1. StartedAt(Current) \in Nat
    BY Clock, Sizes
  <2>2. StartedAt(Current) + Timer <= MaxTime
    BY ClockBound DEF Tick, Followed
  <2> QED
    BY <2>1, <2>2, Sizes DEF Tick, Deadline, DraftInv, TypeInv
<1>2. TypeInv'
  BY <1>1 DEF DraftInv, TypeInv, Taken, Engaged, Held
<1>3. ClockInv'
  <2>0. \A n \in 1 .. Len(picks) : picks[n] \in Pick
    BY DEF DraftInv, TypeInv
  <2>1. \A n \in 1 .. Len(picks) : picks[n].at \in Nat
    BY <2>0, Sizes DEF Pick
  <2>2. MaxTime' = MaxTime
    BY DEF MaxTime, Total
  <2> QED
    BY <1>1, <2>1, <2>2 DEF DraftInv, ClockInv, StartedAt, Current
<1>4. ReleaseInv'
  BY <1>1 DEF DraftInv, ReleaseInv, Taken, StartedAt
<1>5. AgentInv'
  <2>1. Engaged => command[Held].notBefore \in Nat
    BY DEF DraftInv, TypeInv, Held, CommandRow, AgentState, Key, Engaged
  <2> QED
    BY <1>1, <2>1 DEF DraftInv, AgentInv, Engaged, Held
<1>6. PickInv'
  BY <1>1 DEF DraftInv, PickInv, Taken
<1> QED
  BY <1>2, <1>3, <1>4, <1>5, <1>6 DEF DraftInv

-----------------------------------------------------------------------------
(* The actions of a room.                                                  *)

LEMMA IdleInOrder == DraftInv => InOrder(Idle)
BY Sizes DEF InOrder, Idle, RoomState, Board

LEMMA RoomSteps ==
  ASSUME DraftInv, NEW r \in Room,
         ReadDraft(r) \/ ReadPicks(r) \/ Choose(r) \/ Abandon(r) \/ Refresh(r)
  PROVE  DraftInv'
<1>0. /\ Current \in Board /\ Current = Len(picks) /\ Len(picks) <= Len(picks)
      /\ StartedAt(Current) \in 0 .. MaxTime
      /\ InOrder(Idle)
  BY Clock, IdleInOrder, Sizes DEF Board
<1>1. PICK old \in RoomState : old = room[r]
  BY Clock
<1>2. CASE ReadDraft(r)
  <2> DEFINE s == [Idle EXCEPT !.stage = "drafted", !.started = StartedAt(Current)]
  <2>1. Idle \in RoomState
    BY <1>0 DEF InOrder
  <2>2. InOrder(s)
    BY <1>0, <2>1 DEF InOrder, RoomState
  <2> QED
    BY <1>2, <2>2, RoomMoves DEF ReadDraft
<1>3. CASE ReadPicks(r)
  <2> DEFINE s == [old EXCEPT !.stage = "expert", !.board = Current]
  <2>1. InOrder(s)
    BY <1>0 DEF InOrder, RoomState
  <2>2. room' = [room EXCEPT ![r] = s] \/ room' = [room EXCEPT ![r] = Idle]
    BY <1>1, <1>3 DEF ReadPicks
  <2> QED
    BY <1>0, <1>3, <2>1, <2>2, RoomMoves DEF ReadPicks
<1>4. CASE Choose(r)
  <2>1. PICK p \in Player : room' = [room EXCEPT ![r] = [room[r] EXCEPT !.stage = "refresh", !.choice = p]]
    BY <1>4 DEF Choose
  <2> DEFINE s == [old EXCEPT !.stage = "refresh", !.choice = p]
  <2>2. old.board <= Len(picks)
    BY <1>1, <1>4 DEF Choose, DraftInv, ReleaseInv
  <2>3. InOrder(s)
    BY <2>2 DEF InOrder, RoomState
  <2> QED
    BY <1>1, <1>4, <2>1, <2>3, RoomMoves DEF Choose
<1>5. CASE Abandon(r)
  BY <1>0, <1>5, RoomMoves DEF Abandon
<1>6. CASE Refresh(r)
  <2> DEFINE s == [old EXCEPT !.stage = "queue", !.started = StartedAt(Current)]
  <2>1. old.board = Current => InOrder(s)
    <3>1. old.choice \in Player
      BY <1>1, <1>6 DEF Refresh, DraftInv, TypeInv
    <3> QED
      BY <3>1, <1>0 DEF InOrder, RoomState
  <2>2. \/ old.board = Current /\ room' = [room EXCEPT ![r] = s]
        \/ room' = [room EXCEPT ![r] = Idle]
    BY <1>1, <1>6 DEF Refresh
  <2> QED
    BY <1>0, <1>6, <2>1, <2>2, RoomMoves DEF Refresh
<1> QED
  BY <1>2, <1>3, <1>4, <1>5, <1>6

LEMMA QueueStep ==
  ASSUME DraftInv, NEW r \in Room, QueueAutopick(r)
  PROVE  DraftInv'
<1> DEFINE k == [board |-> room[r].board, player |-> room[r].choice]
<1>1. CASE command' = command
  BY <1>1, IdleInOrder, RoomMoves DEF QueueAutopick
<1>2. CASE command' # command
  <2>1. PICK row : row = [status |-> "ready", notBefore |-> Window(r).notBefore,
                          expires |-> Window(r).expires, created |-> now]
    OBVIOUS
  <2>2. TimeRemains(Window(r)) /\ ~Taken(k) /\ command' = [command EXCEPT ![k] = row]
    BY <1>2, <2>1 DEF QueueAutopick, Taken
  <2>3. /\ room[r] \in RoomState /\ room[r].choice \in Player /\ room[r].started = StartedAt(room[r].board)
        /\ room[r].board <= Len(picks) /\ k \in Key /\ now \in Nat
    <3>1. room[r] \in RoomState
      BY DEF DraftInv, TypeInv
    <3>2. room[r].choice \in Player /\ room[r].board \in Board
      BY <3>1 DEF QueueAutopick, DraftInv, TypeInv, RoomState
    <3>3. room[r].started = StartedAt(room[r].board) /\ room[r].board <= Len(picks)
      BY DEF QueueAutopick, DraftInv, ReleaseInv
    <3> QED
      BY <3>1, <3>2, <3>3 DEF Key, DraftInv, TypeInv
  <2>4. /\ row.status = "ready" /\ row.notBefore < row.expires /\ row \in CommandRow
        /\ row.notBefore >= StartedAt(k.board) + Timer - SubmitRemaining
    <3>1. PICK st \in Nat : st = room[r].started
      BY <2>3, Sizes DEF RoomState
    <3>2. PICK nb \in Nat : nb = Later(now, st + Timer - SubmitRemaining) /\ nb >= st + Timer - SubmitRemaining
      BY <2>3, Sizes DEF Later
    <3>3. PICK ex \in Nat : ex = st + Timer - Safety
      BY Sizes
    <3>4. row = [status |-> "ready", notBefore |-> nb, expires |-> ex, created |-> now] /\ nb < ex
      BY <2>1, <2>2, <3>1, <3>2, <3>3 DEF Window, TimeRemains
    <3> QED
      BY <3>1, <3>2, <3>4, <2>3 DEF CommandRow, Statuses
  <2>5. /\ room' \in [Room -> RoomState] /\ UNCHANGED <<now, picks, agent, agentReady>>
        /\ \A q \in Room : room'[q] = IF q = r THEN Idle ELSE room[q]
    BY IdleInOrder DEF QueueAutopick, DraftInv, TypeInv, InOrder
  <2>6. /\ command' \in [Key -> CommandRow]
        /\ \A l \in Key : command'[l] = IF l = k THEN row ELSE command[l]
    BY <2>2, <2>3, <2>4 DEF DraftInv, TypeInv
  <2>7. Engaged => Held \in Key /\ Held # k
    BY <2>2, <2>3 DEF DraftInv, TypeInv, Held, AgentState, Key
  <2> HIDE DEF k
  <2>8. TypeInv'
    <3>1. \A q \in Room : room'[q].stage \in {"refresh", "queue"} => room'[q].choice \in Player
      BY <2>5 DEF DraftInv, TypeInv, Idle
    <3>2. \A l \in Key : Taken(l)' => command'[l].notBefore < command'[l].expires
      BY <2>4, <2>6 DEF DraftInv, TypeInv, Taken
    <3>3. Engaged' => agent'.player \in Player /\ Taken(Held)'
      BY <2>5, <2>6, <2>7 DEF DraftInv, TypeInv, Taken, Engaged, Held
    <3> QED
      BY <2>5, <2>6, <3>1, <3>2, <3>3 DEF DraftInv, TypeInv
  <2>9. ClockInv'
    BY <2>5 DEF DraftInv, ClockInv, StartedAt, Current
  <2>10. ReleaseInv'
    <3>1. \A b : StartedAt(b)' = StartedAt(b)
      BY <2>5 DEF StartedAt
    <3>2. k.board <= Len(picks)
      BY <2>3 DEF k
    <3>3. \A l \in Key : Taken(l)' =>
            l.board <= Len(picks) /\ command'[l].notBefore >= StartedAt(l.board) + Timer - SubmitRemaining
      BY <2>4, <2>6, <3>2 DEF DraftInv, ReleaseInv, Taken
    <3>4. \A q \in Room :
            /\ room'[q].stage \in {"expert", "refresh", "queue"} => room'[q].board <= Len(picks)
            /\ room'[q].stage = "queue" => room'[q].started = StartedAt(room'[q].board)
      BY <2>5 DEF DraftInv, ReleaseInv, Idle
    <3> QED
      BY <2>5, <3>1, <3>3, <3>4 DEF ReleaseInv, StartedAt
  <2>11. AgentInv'
    <3>1. Engaged => command'[Held] = command[Held]
      BY <2>6, <2>7
    <3> QED
      BY <2>5, <3>1 DEF DraftInv, AgentInv, Engaged, Held
  <2>12. PickInv'
    <3> SUFFICES ASSUME NEW n \in 1 .. Len(picks), picks[n].by = "agent"
                 PROVE  LET p == picks[n]  l == [board |-> p.decided, player |-> p.player] IN
                        /\ p.decided <= n - 1 /\ command'[l].status # "none" /\ p.at >= command'[l].notBefore
                        /\ p.decided < n - 1 => picks[p.decided + 1].at >= command'[l].notBefore
      BY <2>5 DEF PickInv, Taken
    <3> DEFINE l == [board |-> picks[n].decided, player |-> picks[n].player]
    <3>1. picks[n] \in Pick
      BY DEF DraftInv, TypeInv
    <3>2. l \in Key
      BY <3>1 DEF Pick, Key
    <3>3. /\ picks[n].decided <= n - 1 /\ Taken(l) /\ picks[n].at >= command[l].notBefore
          /\ picks[n].decided < n - 1 => picks[picks[n].decided + 1].at >= command[l].notBefore
      BY DEF DraftInv, PickInv
    <3>4. command'[l] = command[l]
      BY <3>2, <3>3, <2>2, <2>6
    <3> QED
      BY <3>3, <3>4 DEF Taken
  <2> QED
    BY <2>8, <2>9, <2>10, <2>11, <2>12 DEF DraftInv
<1> QED
  BY <1>1, <1>2

-----------------------------------------------------------------------------
(* The actions of the agent.                                               *)

LEMMA StatusChange ==
  ASSUME DraftInv, NEW k \in Key, Taken(k), NEW st \in Statuses \ {"none"},
         command' = [command EXCEPT ![k].status = st]
  PROVE  /\ command' \in [Key -> CommandRow] /\ SameWindows
         /\ \A l \in Key : command'[l].status # "none" => Taken(l)
<1>1. PICK old \in CommandRow : old = command[k]
  BY DEF DraftInv, TypeInv
<1>2. command' = [command EXCEPT ![k] = [old EXCEPT !.status = st]] /\ command \in [Key -> CommandRow]
  BY <1>1 DEF DraftInv, TypeInv
<1>3. [old EXCEPT !.status = st] \in CommandRow
  BY DEF CommandRow
<1> QED
  BY <1>1, <1>2, <1>3 DEF SameWindows, Taken, CommandRow

LEMMA HandsfreeMoves ==
  ASSUME DraftInv, UNCHANGED <<now, picks, room, agentReady>>, agent' = Handsfree,
         command' \in [Key -> CommandRow], SameWindows,
         \A k \in Key : command'[k].status # "none" => Taken(k)
  PROVE  DraftInv'
<1>1. Handsfree \in AgentState /\ Handsfree.stage = "idle"
  BY Sizes DEF Handsfree, AgentState, Board
<1> QED
  BY <1>1, AgentMoves

\* What the agent holds.
LEMMA HeldFacts ==
  ASSUME DraftInv, Engaged
  PROVE  /\ agent \in AgentState /\ Held \in Key /\ Taken(Held) /\ agent.player \in Player
         /\ agent.board \in Board /\ agent.board <= Len(picks) /\ now >= command[Held].notBefore
<1>1. agent \in AgentState /\ agent.player \in Player /\ Taken(Held)
  BY DEF DraftInv, TypeInv
<1>2. agent.board \in Board /\ Held \in Key
  BY <1>1 DEF AgentState, Held, Key
<1>3. Held.board = agent.board
  BY DEF Held
<1> QED
  BY <1>1, <1>2, <1>3 DEF DraftInv, ReleaseInv, AgentInv

LEMMA SettleStep ==
  ASSUME DraftInv, Engaged, NEW st \in Statuses \ {"none"}, Settle(st),
         UNCHANGED <<now, picks, room, agentReady>>
  PROVE  DraftInv'
BY HeldFacts, StatusChange, HandsfreeMoves DEF Settle

LEMMA AgentSteps ==
  ASSUME DraftInv, AgentStep
  PROVE  DraftInv'
<1>1. CASE Lease
  <2>1. PICK k \in Key : /\ Leasable(k) /\ command' = [command EXCEPT ![k].status = "leased"]
                         /\ agent' = [stage |-> "leased", board |-> k.board, player |-> k.player]
    BY <1>1 DEF Lease
  <2>2. Taken(k) /\ now >= command[k].notBefore
    <3>1. command[k].notBefore \in Nat /\ now \in Nat
      BY DEF DraftInv, TypeInv, CommandRow
    <3> QED
      BY <2>1, <3>1 DEF Leasable, Taken
  <2>3. /\ agent' \in AgentState /\ agent'.player \in Player
        /\ [board |-> agent'.board, player |-> agent'.player] = k
    BY <2>1 DEF AgentState, Key
  <2>4. agent'.stage = "leased"
    BY <2>1
  <2>5. /\ command' \in [Key -> CommandRow] /\ SameWindows
        /\ \A l \in Key : command'[l].status # "none" => Taken(l)
    BY <2>1, <2>2, StatusChange DEF Statuses
  <2>6. UNCHANGED <<now, picks, room, agentReady>>
    BY <1>1 DEF Lease
  <2> QED
    BY <2>2, <2>3, <2>4, <2>5, <2>6, AgentMoves
<1>2. CASE PreflightDraftPick
  <2>1. Engaged /\ UNCHANGED <<now, picks, room, agentReady>>
    BY <1>2 DEF PreflightDraftPick, Engaged
  <2>2. CASE Settle("verified") \/ Settle("blocked")
    BY <2>1, <2>2, SettleStep DEF Statuses
  <2>3. CASE PreflightPasses /\ agent' = [agent EXCEPT !.stage = "looked"] /\ UNCHANGED command
    <3>1. /\ agent' \in AgentState /\ agent'.board = agent.board /\ agent'.player = agent.player
          /\ agent'.stage = "looked"
      BY <2>1, <2>3, HeldFacts DEF AgentState
    <3>2. Len(picks) = agent.board
      BY <2>3 DEF PreflightPasses, Current
    <3>3. command' \in [Key -> CommandRow] /\ SameWindows /\ \A k \in Key : command'[k].status # "none" => Taken(k)
      BY <2>3 DEF DraftInv, TypeInv, SameWindows, Taken
    <3>4. ~(Len(picks) > agent'.board)
      BY <3>1, <3>2 DEF DraftInv, TypeInv
    <3>5. [board |-> agent'.board, player |-> agent'.player] = Held
      BY <3>1 DEF Held
    <3> QED
      BY <2>1, <3>1, <3>3, <3>4, <3>5, HeldFacts, AgentMoves
  <2> QED
    BY <1>2, <2>2, <2>3 DEF PreflightDraftPick
<1>3. CASE Refused \/ ClickThrows \/ Verify
  <2>1. Engaged /\ UNCHANGED <<now, picks, room, agentReady>>
    BY <1>3 DEF Refused, ClickThrows, Verify, Engaged
  <2>2. Settle("blocked") \/ Settle("unverified") \/ Settle("verified")
    BY <1>3 DEF Refused, ClickThrows, Verify
  <2> QED
    BY <2>1, <2>2, SettleStep DEF Statuses
<1>4. CASE WritePreflight
  <2>1. Engaged /\ UNCHANGED <<now, picks, room, agentReady>> /\ agent.stage = "looked"
    BY <1>4 DEF WritePreflight, Engaged
  <2>2. CASE Settle("blocked")
    BY <2>1, <2>2, SettleStep DEF Statuses
  <2>3. CASE /\ agent' = [agent EXCEPT !.stage = "executing"]
             /\ command' = [command EXCEPT ![Held].status = "executing"]
    <3>1. /\ agent' \in AgentState /\ agent'.board = agent.board /\ agent'.player = agent.player
          /\ agent'.stage = "executing"
      BY <2>1, <2>3, HeldFacts DEF AgentState
    <3>2. /\ command' \in [Key -> CommandRow] /\ SameWindows
          /\ \A l \in Key : command'[l].status # "none" => Taken(l)
      BY <2>1, <2>3, HeldFacts, StatusChange DEF Statuses
    <3>3. Len(picks) > agent.board => picks[agent.board + 1].at >= command[Held].notBefore
      BY <2>1 DEF DraftInv, AgentInv
    <3>4. [board |-> agent'.board, player |-> agent'.player] = Held
      BY <3>1 DEF Held
    <3> QED
      BY <2>1, <3>1, <3>2, <3>3, <3>4, HeldFacts, AgentMoves
  <2> QED
    BY <1>4, <2>2, <2>3 DEF WritePreflight
<1>5. CASE ClickDraft
  <2>1. /\ Engaged /\ agent.stage = "executing" /\ UNCHANGED <<now, room, command, agentReady>>
        /\ agent' = [agent EXCEPT !.stage = "verifying"] /\ ~Complete(Current)
        /\ picks' = Append(picks, [player |-> agent.player, by |-> "agent", decided |-> agent.board, at |-> now])
    BY <1>5 DEF ClickDraft, Engaged, OwnerOnClock, Made
  <2>2. PICK p : p = [player |-> agent.player, by |-> "agent", decided |-> agent.board, at |-> now]
    OBVIOUS
  <2>3. now \in 0 .. MaxTime /\ Len(picks) < Total
    BY <2>1, ClockBound DEF Complete
  <2>4. p \in Pick
    BY <2>1, <2>2, <2>3, HeldFacts DEF Pick
  <2>5. /\ agent' \in AgentState /\ agent'.board = agent.board /\ agent'.player = agent.player
        /\ agent'.stage = "verifying"
    BY <2>1, HeldFacts DEF AgentState
  <2>6. [board |-> p.decided, player |-> p.player] = Held /\ p.at = now /\ p.decided = agent.board
    BY <2>2 DEF Held
  <2>7. Len(picks) > agent.board => picks[agent.board + 1].at >= command[Held].notBefore
    BY <2>1 DEF DraftInv, AgentInv
  <2>8. agent.board \in Nat /\ Len(picks) \in Nat
    BY <2>1, HeldFacts, Sizes DEF Board, DraftInv, TypeInv
  <2>9. p.decided < Len(picks) => picks[p.decided + 1].at >= command[Held].notBefore
    BY <2>6, <2>7, <2>8
  <2>10. p.decided <= Len(picks) /\ Taken(Held) /\ now >= command[Held].notBefore
    BY <2>1, <2>6, HeldFacts
  <2> QED
    BY <2>1, <2>2, <2>3, <2>4, <2>5, <2>6, <2>9, <2>10, PickMade
<1> QED
  BY <1>1, <1>2, <1>3, <1>4, <1>5 DEF AgentStep

-----------------------------------------------------------------------------
(* Everything else, and the invariant.                                     *)

LEMMA OtherSteps ==
  ASSUME DraftInv, SomeonePicks \/ HeartbeatChanges
  PROVE  DraftInv'
<1>1. CASE SomeonePicks
  <2>1. PICK q \in Player, b \in {"autopick", "owner", "manager"} :
          picks' = Append(picks, [player |-> q, by |-> b, decided |-> Current, at |-> now])
    BY <1>1 DEF SomeonePicks, Made
  <2>2. PICK p : p = [player |-> q, by |-> b, decided |-> Current, at |-> now]
    OBVIOUS
  <2>3. now \in 0 .. MaxTime /\ Len(picks) < Total
    BY <1>1, ClockBound DEF SomeonePicks, Followed
  <2>4. p \in Pick
    BY <2>2, <2>3, Clock DEF Pick
  <2>5. agent \in AgentState
    BY DEF DraftInv, TypeInv
  <2>6. UNCHANGED <<now, room, command, agent, agentReady>>
    BY <1>1 DEF SomeonePicks
  <2> QED
    BY <2>1, <2>2, <2>3, <2>4, <2>5, <2>6, PickMade
<1>2. CASE HeartbeatChanges
  <2>1. TypeInv'
    BY <1>2 DEF HeartbeatChanges, DraftInv, TypeInv, Taken, Engaged, Held
  <2>2. ClockInv' /\ ReleaseInv'
    BY <1>2 DEF HeartbeatChanges, DraftInv, ClockInv, ReleaseInv, StartedAt, Current, Taken
  <2>3. AgentInv' /\ PickInv'
    BY <1>2 DEF HeartbeatChanges, DraftInv, AgentInv, PickInv, Engaged, Held, Taken
  <2> QED
    BY <2>1, <2>2, <2>3 DEF DraftInv
<1> QED
  BY <1>1, <1>2

LEMMA Stuttering ==
  ASSUME DraftInv, UNCHANGED vars
  PROVE  DraftInv'
<1>1. TypeInv'
  BY DEF vars, DraftInv, TypeInv, Taken, Engaged, Held
<1>2. ClockInv' /\ ReleaseInv'
  BY DEF vars, DraftInv, ClockInv, ReleaseInv, StartedAt, Current, Taken
<1>3. AgentInv' /\ PickInv'
  BY DEF vars, DraftInv, AgentInv, PickInv, Engaged, Held, Taken
<1> QED
  BY <1>1, <1>2, <1>3 DEF DraftInv

LEMMA StepKeepsDraft == DraftInv /\ [Next]_vars => DraftInv'
<1> SUFFICES ASSUME DraftInv, [Next]_vars PROVE DraftInv'
  OBVIOUS
<1>1. CASE \E r \in Room : RoomStep(r)
  BY <1>1, RoomSteps, QueueStep DEF RoomStep
<1>2. CASE AgentStep
  BY <1>2, AgentSteps
<1>3. CASE SomeonePicks \/ HeartbeatChanges
  BY <1>3, OtherSteps
<1>4. CASE Tick
  BY <1>4, TimePasses
<1>5. CASE UNCHANGED vars
  BY <1>5, Stuttering
<1> QED
  BY <1>1, <1>2, <1>3, <1>4, <1>5 DEF Next

(* The inductive invariant: every commitment of a room, a row, the agent   *)
(* and a pick to the clock of the board it was decided on.                 *)
THEOREM DraftInvariant == Spec => []DraftInv
BY InitHolds, StepKeepsDraft, PTL DEF Spec

-----------------------------------------------------------------------------
(* The properties.                                                         *)

(* The types hold, time stays within the draft, and a row of the outbox    *)
(* opens before it expires: draft_room.py refuses the decision that comes  *)
(* too late, so propose_execution never raises on it.                      *)
THEOREM DraftTypesHold == Spec => []DraftTypeOK
<1>1. DraftInv => DraftTypeOK
  <2> SUFFICES ASSUME DraftInv PROVE DraftTypeOK
    OBVIOUS
  <2>1. now \in 0 .. MaxTime
    BY Sizes DEF DraftInv, TypeInv, ClockInv
  <2>2. /\ picks \in Seq(Pick) /\ Len(picks) <= Total /\ room \in [Room -> RoomState]
        /\ agentReady \in BOOLEAN
    BY DEF DraftInv, TypeInv
  <2>3. DOMAIN command = Key /\ \A k \in Key : command[k].status \in Statuses
    BY DEF DraftInv, TypeInv, CommandRow
  <2>4. \A k \in Key : command[k].status # "none" => command[k].notBefore < command[k].expires
    BY DEF DraftInv, TypeInv, Taken
  <2>5. agent.stage \in {"idle", "leased", "looked", "executing", "verifying"}
    BY DEF DraftInv, TypeInv, AgentState
  <2> QED
    BY <2>1, <2>2, <2>3, <2>4, <2>5 DEF DraftTypeOK
<1> QED
  BY <1>1, DraftInvariant, PTL

(* Whoever drafts, with however many rooms: when the agent's pick falls on *)
(* another board than the decided one, that board was taken after the      *)
(* release of the command.                                                 *)
THEOREM StalePicksFollowRelease == Spec => []StalePickOnlyAfterRelease
<1>1. DraftInv => StalePickOnlyAfterRelease
  <2> SUFFICES ASSUME DraftInv, NEW n \in 1 .. Len(picks), picks[n].by = "agent", picks[n].decided # n - 1
               PROVE  picks[picks[n].decided + 1].at
                        >= command[[board |-> picks[n].decided, player |-> picks[n].player]].notBefore
    BY DEF StalePickOnlyAfterRelease, Current
  <2>1. picks[n] \in Pick
    BY DEF DraftInv, TypeInv
  <2>2. picks[n].decided \in Nat
    BY <2>1, Sizes DEF Pick, Board
  <2>3. picks[n].decided <= n - 1
    BY DEF DraftInv, PickInv
  <2>4. picks[n].decided < n - 1
    BY <2>2, <2>3
  <2> QED
    BY <2>4 DEF DraftInv, PickInv
<1> QED
  BY <1>1, DraftInvariant, PTL

(* The agent never drafts before the last SubmitRemaining seconds of the   *)
(* clock of the board it drafts for, however long the rooms think and      *)
(* however their two reads fall.                                           *)
THEOREM AgentWaitsForTheLastSeconds == Spec => []DraftsInTheLastSeconds
<1>1. DraftInv => DraftsInTheLastSeconds
  <2> SUFFICES ASSUME DraftInv, NEW n \in 1 .. Len(picks), picks[n].by = "agent"
               PROVE  picks[n].at >= StartedAt(picks[n].decided) + Timer - SubmitRemaining
    BY DEF DraftsInTheLastSeconds, Current
  <2> DEFINE d == picks[n].decided  k == [board |-> d, player |-> picks[n].player]
  <2>1. \A m \in 1 .. Len(picks) : picks[m] \in Pick
    BY DEF DraftInv, TypeInv
  <2>2. k \in Key /\ d \in Nat /\ picks[n].at \in Nat
    BY <2>1, Sizes DEF Pick, Key, Board
  <2>3. d <= n - 1 /\ Taken(k) /\ picks[n].at >= command[k].notBefore
    BY DEF DraftInv, PickInv
  <2>4. command[k].notBefore >= StartedAt(d) + Timer - SubmitRemaining
    BY <2>2, <2>3 DEF DraftInv, ReleaseInv
  <2>5. command[k].notBefore \in Nat
    BY <2>2 DEF DraftInv, TypeInv, CommandRow
  <2>6. StartedAt(d) \in Nat
    BY <2>1, <2>2, <2>3, Sizes DEF StartedAt, Pick
  <2> QED
    BY <2>2, <2>3, <2>4, <2>5, <2>6, Sizes
<1> QED
  BY <1>1, DraftInvariant, PTL

\* Before its click the agent has drafted nothing for the board it looked at.
NotDraftedYet ==
  agent.stage \in {"looked", "executing"} =>
    \A n \in 1 .. Len(picks) : picks[n].by = "agent" => picks[n].decided # agent.board
OneInv == OneDraftPerBoard /\ NotDraftedYet

LEMMA AgentLooksFirst ==
  ASSUME DraftInv, OneInv, AgentStep, UNCHANGED picks
  PROVE  NotDraftedYet'
<1>1. CASE Lease \/ PreflightDraftPick \/ Refused \/ WritePreflight \/ ClickThrows \/ Verify
  <2>1. agent \in AgentState
    BY DEF DraftInv, TypeInv
  <2>2. \/ agent'.stage \notin {"looked", "executing"}
        \/ agent.stage = "looked" /\ agent'.board = agent.board
        \/ PreflightPasses /\ agent'.board = agent.board
    BY <1>1, <2>1 DEF Lease, PreflightDraftPick, Refused, WritePreflight, ClickThrows, Verify, Settle, Handsfree, AgentState
  <2>3. CASE PreflightPasses /\ agent'.board = agent.board
    <3>1. agent.board = Len(picks)
      BY <2>3 DEF PreflightPasses, Current
    <3>2. \A n \in 1 .. Len(picks) : picks[n].by = "agent" => picks[n].decided <= n - 1
      BY DEF DraftInv, PickInv
    <3>3. Len(picks) \in Nat /\ \A n \in 1 .. Len(picks) : picks[n].decided \in Nat
      <4>1. picks \in Seq(Pick) /\ \A n \in 1 .. Len(picks) : picks[n] \in Pick
        BY DEF DraftInv, TypeInv
      <4> QED
        BY <4>1, Sizes DEF Pick, Board
    <3>4. \A n \in 1 .. Len(picks) : picks[n].by = "agent" => picks[n].decided # agent.board
      BY <3>1, <3>2, <3>3
    <3> QED
      BY <2>3, <3>4 DEF NotDraftedYet
  <2> QED
    BY <2>2, <2>3 DEF OneInv, NotDraftedYet
<1>2. CASE ClickDraft
  BY <1>2 DEF DraftInv, TypeInv, AgentState, ClickDraft, NotDraftedYet
<1> QED
  BY <1>1, <1>2 DEF AgentStep

LEMMA AnotherPick ==
  ASSUME DraftInv, OneInv, NEW p \in Pick, picks' = Append(picks, p),
         p.by = "agent" => \A n \in 1 .. Len(picks) : picks[n].by = "agent" => picks[n].decided # p.decided
  PROVE  /\ OneDraftPerBoard'
         /\ p.by # "agent" /\ UNCHANGED agent => NotDraftedYet'
<1>1. PICK c \in Nat : c = Len(picks)
  BY DEF DraftInv, TypeInv
<1>2. /\ Len(picks') = c + 1 /\ picks'[c + 1] = p
      /\ \A n \in 1 .. c : picks'[n] = picks[n]
  BY <1>1 DEF DraftInv, TypeInv
<1>3. \A n \in 1 .. c + 1 : n = c + 1 \/ n \in 1 .. c
  BY <1>1
<1>4. OneDraftPerBoard'
  <2> SUFFICES ASSUME NEW n \in 1 .. c + 1, NEW m \in 1 .. c + 1, n # m,
                      picks'[n].by = "agent", picks'[m].by = "agent"
               PROVE  picks'[n].decided # picks'[m].decided
    BY <1>2 DEF OneDraftPerBoard, Current
  <2>1. CASE n \in 1 .. c /\ m \in 1 .. c
    BY <1>1, <1>2, <2>1 DEF OneInv, OneDraftPerBoard, Current
  <2>2. CASE n = c + 1 /\ m \in 1 .. c
    BY <1>1, <1>2, <2>2
  <2>3. CASE m = c + 1 /\ n \in 1 .. c
    BY <1>1, <1>2, <2>3
  <2> QED
    BY <1>3, <2>1, <2>2, <2>3
<1>5. ASSUME p.by # "agent", UNCHANGED agent PROVE NotDraftedYet'
  BY <1>1, <1>2, <1>3, <1>5 DEF OneInv, NotDraftedYet
<1> QED
  BY <1>4, <1>5

(* However many rooms decide one board, and whatever they queue, at most   *)
(* one of their decisions is drafted: the agent clicks for a board it saw  *)
(* undrafted, and a board it drafted for is never the current one again.   *)
THEOREM DecisionsBecomeOneDraft == Spec => []OneDraftPerBoard
<1>1. Init => OneInv
  BY DEF Init, Handsfree, OneInv, OneDraftPerBoard, NotDraftedYet, Current
<1>2. DraftInv /\ OneInv /\ [Next]_vars => OneInv'
  <2> SUFFICES ASSUME DraftInv, OneInv, [Next]_vars PROVE OneInv'
    OBVIOUS
  <2>1. CASE UNCHANGED <<picks, agent>>
    BY <2>1 DEF OneInv, OneDraftPerBoard, NotDraftedYet, Current
  <2>2. CASE AgentStep /\ UNCHANGED picks
    BY <2>2, AgentLooksFirst DEF OneInv, OneDraftPerBoard, Current
  <2>3. CASE ClickDraft
    <3>1. /\ agent.stage = "executing" /\ ~Complete(Current) /\ agent' = [agent EXCEPT !.stage = "verifying"]
          /\ picks' = Append(picks, [player |-> agent.player, by |-> "agent", decided |-> agent.board, at |-> now])
      BY <2>3 DEF ClickDraft, OwnerOnClock, Made
    <3>2. PICK p : p = [player |-> agent.player, by |-> "agent", decided |-> agent.board, at |-> now]
      OBVIOUS
    <3>3. p \in Pick
      BY <3>1, <3>2, HeldFacts, ClockBound DEF Pick, Engaged
    <3>4. \A n \in 1 .. Len(picks) : picks[n].by = "agent" => picks[n].decided # p.decided
      BY <3>1, <3>2 DEF OneInv, NotDraftedYet
    <3>5. OneDraftPerBoard'
      BY <3>1, <3>2, <3>3, <3>4, AnotherPick
    <3>6. NotDraftedYet'
      BY <3>1 DEF NotDraftedYet, DraftInv, TypeInv, AgentState
    <3> QED
      BY <3>5, <3>6 DEF OneInv
  <2>4. CASE SomeonePicks
    <3>1. PICK q \in Player, b \in {"autopick", "owner", "manager"} :
            picks' = Append(picks, [player |-> q, by |-> b, decided |-> Current, at |-> now])
      BY <2>4 DEF SomeonePicks, Made
    <3>2. PICK p : p = [player |-> q, by |-> b, decided |-> Current, at |-> now]
      OBVIOUS
    <3>3. p \in Pick /\ p.by # "agent" /\ UNCHANGED agent
      BY <2>4, <3>2, Clock, ClockBound DEF Pick, SomeonePicks, Followed
    <3> QED
      BY <3>1, <3>2, <3>3, AnotherPick DEF OneInv
  <2>5. \/ UNCHANGED <<picks, agent>>
        \/ AgentStep /\ UNCHANGED picks
        \/ ClickDraft
        \/ SomeonePicks
    BY DEF Next, RoomStep, ReadDraft, ReadPicks, Choose, Abandon, Refresh, QueueAutopick, AgentStep, Lease,
           PreflightDraftPick, Refused, WritePreflight, ClickThrows, Verify, Tick, HeartbeatChanges, vars
  <2> QED
    BY <2>1, <2>2, <2>3, <2>4, <2>5
<1>3. OneInv => OneDraftPerBoard
  BY DEF OneInv
<1> QED
  BY <1>1, <1>2, <1>3, DraftInvariant, PTL DEF Spec
=============================================================================
