-------------------------- MODULE MCOutboxHistory --------------------------
(***************************************************************************)
(* The instances of MCOutbox with one history variable: the commands whose *)
(* withdrawal by a newer plan has been committed.                          *)
(***************************************************************************)
EXTENDS MCOutbox

VARIABLE superseded

HistorySpec ==
  /\ Init
  /\ superseded = {}
  /\ [][/\ Next
        /\ superseded' = superseded \cup {c \in Command : action'[c] = "superseded"}]_<<vars, superseded>>

\* "A newer recommendation or a hold decision supersedes an untouched
\* command" (README.md): a command the planner took out of the queue is not
\* clicked afterwards.
SupersededIsNotClicked ==
  [][\A c \in Command : clicks'[c] > clicks[c] => c \notin superseded]_<<vars, superseded>>
=============================================================================
