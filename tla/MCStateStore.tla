---------------------------- MODULE MCStateStore ----------------------------
(* Two nodes, two outputs, four records: every mix of retries, repeated      *)
(* outputs, failures after success, failed puts, notices and reloads.        *)
EXTENDS StateStore, TLC

CONSTANT Node
MCKey == Node \cup {Coordination}
Symmetry == Permutations(Node) \cup Permutations(Output)
=============================================================================
