------------------------------ MODULE MCDeploy ------------------------------
(* Four nodes, two of whose names fold into one runtime name and one that    *)
(* brings its own runtime; two contents.                                     *)
(* Three deploys and a death: an intent can be left open, settled by the     *)
(* second deploy, and meet the third.  The requests differ in the contents   *)
(* they ask for, in their mode, and in the policy of the gate.               *)
EXTENDS Deploy

MCRuntimeName == <<"a", "b", "b", "c">>
MCSeed == <<0, 1, 2, 0>>

Ask(plan, f, two_phase, halt, min, approval) ==
  [plan |-> plan, fp |-> [n \in Node |-> f], two_phase |-> two_phase, halt |-> halt,
   min_autonomy |-> min, require_approval |-> approval]

MCRequests ==
  {Ask(<<1, 2>>, "f", TRUE, FALSE, NoMinimum, FALSE),
   Ask(<<1, 2>>, "g", TRUE, TRUE, NoMinimum, FALSE),
   Ask(<<4, 3, 1>>, "f", TRUE, FALSE, 1, FALSE),
   Ask(<<1, 2>>, "f", FALSE, TRUE, 0, FALSE),
   Ask(<<2>>, "f", TRUE, TRUE, NoMinimum, TRUE)}
=============================================================================
