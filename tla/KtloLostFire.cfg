SPECIFICATION Spec
CONSTANTS
  d1 = d1
  d2 = d2
  e1 = e1
  e2 = e2
  s1 = s1
  s2 = s2
  Daemon <- MCDaemon
  Entity <- MCEntity
  States <- MCStates
  Tickets <- MCTickets
  Drifts <- MCDrifts
  Standing <- NoneStanding
  Scenarios <- MCScenarios
  MaxFires = 2
  Cooldown = 1
  LongFloor = 2
  ShortFloor = 1
  MaxTicks = 2
INVARIANT EveryFireCounts
CHECK_DEADLOCK FALSE
