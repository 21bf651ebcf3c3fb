----------------------------- MODULE MCGovernor -----------------------------
(* The instance of Governor TLC checks. *)
EXTENDS Governor

CONSTANTS worker, clerk

\* One agent serves two of three nodes, which may contradict each other or
\* lack confidence; the other agent's node reports failures.
Loop(table, auto_create, seed, scheduler, checkpointer, gate, backend, on_error) ==
  [wiring |-> [n \in Node |-> IF n = 3 THEN {1} ELSE {}],
   serves |-> [n \in Node |-> IF n = 2 THEN clerk ELSE worker],
   answers |-> [n \in Node |-> CASE n = 1 -> {"yes", "bad"} [] n = 2 -> {"no", "bad"}
                                  [] OTHER -> {"low", "yes"}],
   standing |-> table, seed |-> seed, side_effecting |-> Agent,
   require_approval |-> FALSE,
   on_error |-> on_error, scheduler |-> scheduler, auto_create |-> auto_create,
   checkpointer |-> checkpointer, gate |-> gate, backend |-> backend]

Trusted == [a \in Agent |-> 1]
Untried == [a \in Agent |-> IF a = clerk THEN 0 ELSE 3]

MCSetups ==
  {Loop(Agent, FALSE, seed, TRUE, TRUE, gate, "python", "record") :
     seed \in {Trusted, Untried}, gate \in BOOLEAN}
  \cup {Loop({worker}, auto, Trusted, TRUE, TRUE, FALSE, backend, "record") :
     auto \in BOOLEAN, backend \in {"python", "langgraph"}}
  \cup {Loop(Agent, FALSE, Trusted, scheduler, checkpointer, FALSE, "langgraph", "raise") :
     scheduler \in BOOLEAN, checkpointer \in BOOLEAN}
  \cup {[Loop(Agent, FALSE, Trusted, TRUE, TRUE, FALSE, "python", "record")
         EXCEPT !.side_effecting = {clerk}, !.require_approval = TRUE]}
=============================================================================
