---------------------------- MODULE MCLifecycle ----------------------------
(* Instances of AcquisitionLifecycle: a free-agent add and a waiver claim. *)
EXTENDS AcquisitionLifecycle

CONSTANTS add, claim

\* Hold, one add, one claim.
Single == {<<>>, <<add>>, <<claim>>}

Window1 == [c \in Command |-> 1]
Window2 == [c \in Command |-> 2]
=============================================================================
