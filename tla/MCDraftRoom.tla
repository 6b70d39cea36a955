---------------------------- MODULE MCDraftRoom ----------------------------
(* Two teams and two rounds: the owner's two picks follow each other at    *)
(* the turn of the snake.  The players are interchangeable, and so are     *)
(* the rooms.                                                              *)
EXTENDS DraftRoom, TLC

Symmetry == Permutations(Player) \cup Permutations(Room)
=============================================================================
