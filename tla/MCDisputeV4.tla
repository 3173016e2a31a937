----------------------------- MODULE MCDisputeV4 ----------------------------
(***************************************************************************)
(* Instances of DisputeV4 for TLC.  Responses are due at once, so that the *)
(* clock is spent on the windows of the dispute; a dispute takes half of   *)
(* what stake is left.                                                     *)
(***************************************************************************)
EXTENDS DisputeV4

CONSTANT caller1

AtOnce == {[maxResponseTime |-> 0, slashBps |-> 5000, availabilityTargetBps |-> 0]}
NoAuthorizations == {}
Ids == CallIds
=============================================================================
