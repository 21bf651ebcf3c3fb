------------------------------- MODULE MCKtlo -------------------------------
EXTENDS Ktlo

CONSTANTS d1, d2, e1, e2, s1, s2

MCEntity == {e1, e2}
MCStates == {s1, s2}
MCDaemon == {d1, d2}
Ticket(e, s) == [entity |-> e, state |-> s, own |-> FALSE]
MCTickets == {Ticket(e1, s1), Ticket(e1, s2)}
MCDrifts == {Ticket(e2, s1)}
NoneStanding == {}

Fleet(ds, gate, life, most, deaths, until) ==
  [daemons |-> ds, mode |-> gate, lifetime |-> life, signals |-> most,
   crashes |-> deaths, time |-> until]

\* One daemon that may die, with each gate (a state can come back only with a
\* third signal); one that only launches; two that share the store.
MCScenarios ==
  {Fleet({d1}, "state_change", "ktlo", 3, 1, 2),
   Fleet({d1}, "diff", "ktlo", 2, 1, 2), Fleet({d1}, "new_items", "ktlo", 2, 1, 2),
   Fleet({d1}, "new_items", "launch", 2, 1, 2),
   Fleet({d1, d2}, "state_change", "ktlo", 2, 0, 1)}
=============================================================================
