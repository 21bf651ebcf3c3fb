----------------------------- MODULE MCWaveRun -----------------------------
(* Four nodes on a pool of two.  In the first plan two sources feed node 3   *)
(* and one of them feeds node 4 too, so that the failure of one condemns the *)
(* other or not; the second plan is a diamond.  Node 2 runs on the legacy    *)
(* dispatch path, which cannot be cancelled.  Of the fates, one is an agent  *)
(* its monitor stops once and that succeeds on its retry.                    *)
EXTENDS WaveRun

MCWirings == {<<{}, {}, {1, 2}, {2}>>, <<{}, {1}, {1}, {2, 3}>>}
MCKinds == {[n \in Node |-> IF n = 2 THEN "plain" ELSE "harness"]}
MCFates == {[fails |-> 0, how |-> "raises"], [fails |-> 1, how |-> "preempted"],
            [fails |-> 2, how |-> "raises"], [fails |-> 1, how |-> "escapes"]}
MCDoneSets == {{}, {1}}
MCHeldSets == {{}, {2}}

(* For WaveRunReplanned.cfg: node 3 was completed under an earlier plan, in   *)
(* which it did not consume node 2; the plan of this run has it consume it.  *)
MCReplannedWirings == {<<{}, {}, {2}, {1, 3}>>}
MCReplannedDoneSets == {{3}}
=============================================================================
