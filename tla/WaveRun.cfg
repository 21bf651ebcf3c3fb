CONSTANTS
  N = 4
  Wirings <- MCWirings
  Kinds <- MCKinds
  Fates <- MCFates
  DoneSets <- MCDoneSets
  HeldSets <- MCHeldSets
  Pool = 2
  MaxAttempts = 2
SPECIFICATION FairSpec
INVARIANTS
  EndsAsSerial
  PrunesOnlyFutile
  NothingAfterTheEnd
PROPERTY RunEnds
CHECK_DEADLOCK FALSE
