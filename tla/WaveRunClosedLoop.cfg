CONSTANTS
  N = 4
  Wirings <- MCWirings
  Kinds <- MCKinds
  Fates <- MCFates
  DoneSets <- MCDoneSets
  HeldSets <- MCHeldSets
  Pool = 2
  MaxAttempts = 2
SPECIFICATION Spec
INVARIANT LateCondemnIsSilent
CHECK_DEADLOCK FALSE
