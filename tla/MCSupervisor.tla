---------------------------- MODULE MCSupervisor ----------------------------
(* Three nodes; the plans are a chain, a fork and a join, so that two runs   *)
(* on one store can disagree about the wiring; one of the two values lacks   *)
(* the field consumers ask for.                                              *)
EXTENDS Supervisor, TLC

Chain == <<{}, {1}, {2}>>
Fork == <<{}, {1}, {1}>>
Join == <<{}, {}, {1, 2}>>
MCPlan == {Chain, Fork, Join}
=============================================================================
