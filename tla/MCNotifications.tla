-------------------------- MODULE MCNotifications --------------------------
(***************************************************************************)
(* Instances of NotificationOutbox: two alerts, a card of the trash-talk   *)
(* feed and a domain event; one worker (docker-compose) or two.            *)
(***************************************************************************)
EXTENDS NotificationOutbox

CONSTANTS alert, other, card, sync, w1, w2, none

MCPriority == [e \in Event |-> 2]
=============================================================================
