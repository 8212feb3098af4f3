SPECIFICATION Spec
CONSTANTS
  N = 2
  MaxStack = 2
  Equipment = {1}
  AutoEquip = {1}
  IsVial = FALSE
  CapKnown = TRUE
  MinAbsentPolls = 2
  VerifyPolls = 2
  HydrationPolls = 2
  StorageRetryLimit = 1
  Limits <- Playing
INVARIANTS
  TypeOK
  NothingLost
  AutoRetryIsUnapplied
