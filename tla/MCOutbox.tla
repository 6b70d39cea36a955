------------------------------ MODULE MCOutbox ------------------------------
(***************************************************************************)
(* Instances of CommandOutbox: a draft pick (outside the planner, needs    *)
(* the owner's approval), a waiver claim and a free-agent add (both        *)
(* planned); the launchd loop and a qualification script.                  *)
(***************************************************************************)
EXTENDS CommandOutbox

CONSTANTS pick, claim, add, loop, script, mac

\* loop and script read the same configuration and send the same agent_id.
MCSharedId == [a \in Agent |-> mac]
\* Windows open at time 0 and close at time 2 or 3.
MCStart == [c \in Command |-> 0]
MCEnd == [c \in Command |-> 3]
MCEarlyEnd == [c \in Command |-> 2]
=============================================================================
