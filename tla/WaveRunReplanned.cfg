CONSTANTS
  N = 4
  Wirings <- MCReplannedWirings
  Kinds <- MCKinds
  Fates <- MCFates
  DoneSets <- MCReplannedDoneSets
  HeldSets <- MCHeldSets
  Pool = 2
  MaxAttempts = 2
SPECIFICATION Spec
INVARIANT PrunesOnlyFutile
CHECK_DEADLOCK FALSE
