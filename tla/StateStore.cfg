CONSTANTS
  Node = {n1, n2}
  Key <- MCKey
  Output = {o1, o2}
  Meta = {m1}
  Coordination = Coordination
  NoOutput = NoOutput
  MaxRecords = 4
SPECIFICATION Spec
SYMMETRY Symmetry
INVARIANTS
  ProjectionIsLog
  LogIsHonest
PROPERTY ImplementsRunLog
CHECK_DEADLOCK FALSE
