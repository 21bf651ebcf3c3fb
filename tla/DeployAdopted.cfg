CONSTANTS
  Node = {1, 2, 3, 4}
  Fingerprint = {"f", "g"}
  RuntimeName <- MCRuntimeName
  Hosted = {4}
  SideEffecting = {1, 2}
  Seed <- MCSeed
  Requests <- MCRequests
  MaxDeploys = 3
  MaxCrashes = 1
SPECIFICATION Spec
INVARIANT AdoptedIsReused
CHECK_DEADLOCK FALSE
