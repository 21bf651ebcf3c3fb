----------------------------- MODULE RecordLog -----------------------------
(***************************************************************************)
(* The read model of the run log, shared by every state store: how the     *)
(* "latest" record of a node is chosen, which nodes count as completed,    *)
(* and which output a read returns (state/statestore.py, _is_newer and     *)
(* _index_records).                                                        *)
(*                                                                         *)
(* A log is a sequence of records with at least the fields                 *)
(*   node, attempt, status, output;                                        *)
(* the position of a record in its sequence stands for the strictly        *)
(* increasing `seq` a store stamps on it, so the comparison on timestamps, *)
(* the last resort of _is_newer, never decides and is left out.            *)
(***************************************************************************)
EXTENDS Naturals, Sequences

\* _is_newer: the record at i supersedes the one at j.
Supersedes(lg, i, j) ==
  \/ lg[i].attempt > lg[j].attempt
  \/ lg[i].attempt = lg[j].attempt /\ i > j

\* The record at i is the newest one of its node, whatever its status.
IsLatest(lg, i) ==
  \A j \in DOMAIN lg : lg[j].node = lg[i].node => j = i \/ Supersedes(lg, i, j)

\* The record at i is the newest validated one of its node.
IsLatestValidated(lg, i) ==
  /\ lg[i].status = "validated"
  /\ \A j \in DOMAIN lg :
       lg[j].node = lg[i].node /\ lg[j].status = "validated"
         => j = i \/ Supersedes(lg, i, j)

\* completed(): the nodes whose newest record is validated.
Completed(lg) ==
  {lg[i].node : i \in {k \in DOMAIN lg : IsLatest(lg, k) /\ lg[k].status = "validated"}}

\* Mutant of Rebuilt: only the newest record of the node is looked at.
RebuiltFromNewest(lg, n, none) ==
  LET newest == {i \in DOMAIN lg : /\ lg[i].node = n /\ IsLatest(lg, i)
                                   /\ lg[i].status = "validated"}
  IN  IF newest = {} THEN none ELSE lg[CHOOSE i \in newest : TRUE].output

\* A node's output as a rebuild of the projection finds it, or `none`.
Rebuilt(lg, n, none) ==
  LET newest == {i \in DOMAIN lg : lg[i].node = n /\ IsLatestValidated(lg, i)}
  IN  IF newest = {} THEN none ELSE lg[CHOOSE i \in newest : TRUE].output

\* Mutant of TopAttempt: only validated records count.
TopValidatedAttempt(lg, n) ==
  LET newest == {i \in DOMAIN lg : lg[i].node = n /\ IsLatestValidated(lg, i)}
  IN  IF newest = {} THEN 0 ELSE lg[CHOOSE i \in newest : TRUE].attempt

\* The highest attempt recorded for a node, 0 if there is none.
TopAttempt(lg, n) ==
  LET newest == {i \in DOMAIN lg : lg[i].node = n /\ IsLatest(lg, i)}
  IN  IF newest = {} THEN 0 ELSE lg[CHOOSE i \in newest : TRUE].attempt

\* No two records share a node and an attempt number.
DistinctAttempts(lg) ==
  \A i, j \in DOMAIN lg :
    i # j /\ lg[i].node = lg[j].node => lg[i].attempt # lg[j].attempt
=============================================================================
