CONSTANTS
  N = 3
  Plan <- MCPlan
  Value = {v, w}
  Partial = {w}
  Unstorable = Unstorable
  Failure = Failure
  NoOutput = NoOutput
  PlanIdentity = PlanIdentity
  Coordination = Coordination
  MaxAttempts = 2
  MaxRuns = 2
  MaxRecords = 8
SPECIFICATION FairSpec
INVARIANTS
  ValidatedIsNewest
  OnePlan
  RunExplained
PROPERTIES
  ImplementsDataflow
  RunEnds
CHECK_DEADLOCK FALSE
