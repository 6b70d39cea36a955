------------------------------ MODULE WriteOnce ------------------------------
(***************************************************************************)
(* What the outbox promises about a semantic command, whatever leases,     *)
(* reports, retries and restarts it goes through: its final Sleeper        *)
(* control is pressed at most once, and never for a command whose          *)
(* cancellation the owner was told of.                                     *)
(***************************************************************************)
EXTENDS Naturals

CONSTANT Command

VARIABLES
  clicks,    \* how often the final control of a command was pressed
  withdrawn  \* the commands the owner cancelled

vars == <<clicks, withdrawn>>

Init ==
  /\ clicks = [c \in Command |-> 0]
  /\ withdrawn = {}

Submit(c) ==
  /\ clicks[c] = 0
  /\ c \notin withdrawn
  /\ clicks' = [clicks EXCEPT ![c] = 1]
  /\ UNCHANGED withdrawn

Withdraw(c) ==
  /\ clicks[c] = 0
  /\ withdrawn' = withdrawn \cup {c}
  /\ UNCHANGED clicks

Next == \E c \in Command : Submit(c) \/ Withdraw(c)

Spec == Init /\ [][Next]_vars
=============================================================================
