------------------------------ MODULE Dataflow ------------------------------
(***************************************************************************)
(* What a run over a compiled plan promises, whatever schedules it         *)
(* (execute/supervisor.py, Supervisor.run): a node's output is produced    *)
(* once and never changes, and it was computed from the outputs its        *)
(* producers had.  Retries, resumes, crashes and waves are invisible here. *)
(***************************************************************************)
CONSTANTS
  Node,
  Value,      \* outputs of nodes
  NoValue     \* "not produced yet"

VARIABLES
  result,     \* result[n]: the output of n
  used        \* used[n]: the inputs n's output was computed from

Unused == [p \in {} |-> NoValue]

Init ==
  /\ result = [n \in Node |-> NoValue]
  /\ used = [n \in Node |-> Unused]

Produced == {n \in Node : result[n] # NoValue}

Produce(n) ==
  /\ result[n] = NoValue
  /\ \E v \in Value, producers \in SUBSET Produced :
       /\ result' = [result EXCEPT ![n] = v]
       /\ used' = [used EXCEPT ![n] = [p \in producers |-> result[p]]]

Next == \E n \in Node : Produce(n)

Spec == Init /\ [][Next]_<<result, used>>
=============================================================================
