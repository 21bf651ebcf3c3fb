CONSTANTS
  Node = {1, 2, 3, 4}
  Fingerprint = {"f", "g"}
  RuntimeName <- MCRuntimeName
  Hosted = {4}
  SideEffecting = {1, 2}
  Seed <- MCSeed
  Requests <- MCRequests
  MaxDeploys = 3
  MaxCrashes = 1
SPECIFICATION FairSpec
INVARIANTS
  RowsAreReady
  IntentCoversCreate
  IntentsAreSettled
PROPERTY DeployEnds
CHECK_DEADLOCK FALSE
