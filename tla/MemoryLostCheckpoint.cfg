CONSTANTS
  Key = {k1, k2}
  Output = {o1}
  NoOutput = NoOutput
  MaxEvents = 4
  MaxSpent = 0
  MaxKinds = 1
  MaxCrashes = 1
SPECIFICATION Spec
INVARIANT FailedCheckpointIsHarmless
CHECK_DEADLOCK FALSE
