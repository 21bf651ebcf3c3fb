CONSTANTS
  Key = {k1, k2}
  Output = {o1}
  NoOutput = NoOutput
  MaxEvents = 5
  MaxSpent = 1
  MaxKinds = 2
  MaxCrashes = 1
SPECIFICATION Spec
SYMMETRY Symmetry
INVARIANTS
  ReplayPathsAgree
  NothingAckedIsLost
  AttemptsGrow
CHECK_DEADLOCK FALSE
