CONSTANTS
  Proc = {p1, p2}
  Nobody = Nobody
  Key = {k1, k2}
  Output = {o1}
  NoOutput = NoOutput
  FailureAddress = {"attempt"}
  MaxClock = 3
  MaxSpent = 1
  MaxCrashes = 1
SPECIFICATION Spec
SYMMETRY Symmetry
INVARIANTS
  AckedIsDurable
  CopiesAreCurrent
PROPERTY ImplementsRunLog
CHECK_DEADLOCK FALSE
