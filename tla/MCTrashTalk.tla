---------------------------- MODULE MCTrashTalk ----------------------------
(***************************************************************************)
(* One matchup of two teams and a weekly recap about one of them.          *)
(***************************************************************************)
EXTENDS TrashTalk

CONSTANTS m1, a, b, w1, none, nobody

MCRecap == [type |-> "weekly_recap", matchup |-> m1, from |-> "left"]
MCFact == {MCRecap}
MCFactTarget == [f \in MCFact |-> b]
MCTeam == [m \in {m1} |-> [side \in {"left", "right"} |-> IF side = "left" THEN a ELSE b]]
MCTrash == Trigger
MCImage == Live
MCQuality ==
  [t \in Trigger |-> IF t.type = "weekly_recap" THEN 91 ELSE IF t.type = "live_blowout" THEN 90 ELSE 88]
MCPriority == [e \in Event |-> 2]
=============================================================================
