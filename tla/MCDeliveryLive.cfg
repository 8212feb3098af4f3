SPECIFICATION FairSpec
CONSTANTS
  N = 2
  MaxStack = 2
  Equipment = {}
  AutoEquip = {}
  IsVial = FALSE
  CapKnown = FALSE
  MinAbsentPolls = 2
  VerifyPolls = 2
  HydrationPolls = 2
  StorageRetryLimit = 1
  Limits <- Living
INVARIANTS
  AtMostOnce
  BaselineDurable
PROPERTIES
  EveryItemSettles
