--------------------------- MODULE MCCodexWorker ---------------------------
(* Monitor and scheduler draft on two boards; or they draft on one, and    *)
(* the scheduler also plans the week.                                      *)
EXTENDS CodexWorker, TLC

MCCaller == {"monitor", "scheduler"}

MCDrafting == [c \in Caller |-> {"draft"}]
MCDraftTimeout == [p \in Purpose |-> 2]
MCBoards == [p \in Purpose |-> IF p = "draft" THEN 2 ELSE 1]

MCAsks == "monitor" :> {"draft"} @@ "scheduler" :> {"draft", "season"}
MCTimeout == "draft" :> 1 @@ "season" :> 2 @@ "trash" :> 1
MCLastContext == [p \in Purpose |-> 1]
=============================================================================
