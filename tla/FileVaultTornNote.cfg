CONSTANTS
  Proc = {p1, p2}
  Nobody = Nobody
  Key = {k1}
  Output = {o1, o2}
  NoOutput = NoOutput
  FailureAddress = {"node", "attempt"}
  MaxClock = 3
  MaxSpent = 1
  MaxCrashes = 1
SPECIFICATION Spec
PROPERTY NotesAreImmutable
CHECK_DEADLOCK FALSE
