CONSTANTS
  N = 3
  worker = worker
  clerk = clerk
  Agent = {worker, clerk}
  Setups <- MCSetups
  MinAutonomy = 1
  EscalationGrade = 3
  MaxRounds = 2
  NoProgressN = 2
  MaxRevisions = 2
  MaxRuns = 3
SPECIFICATION Spec
INVARIANT EachEarnsOnce
CHECK_DEADLOCK FALSE
