SPECIFICATION Spec
CONSTANTS
  DepthCap = 1
  Budgets = {1, 2}
  Ceiling = 2
  Reusable = {1}
  Fanouts <- MCFanouts
  Verdicts = {"ACCEPT"}
  LangGraph = TRUE
  MaxAttacks = 2
  MaxRecords = 7
  MaxCrashes = 1
INVARIANTS TrailIsSound PlanIsGrounded BudgetSuffices MarkersHaveTheirRaw
CHECK_DEADLOCK FALSE
