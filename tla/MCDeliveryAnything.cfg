SPECIFICATION Spec
CONSTANTS
  N = 2
  MaxStack = 2
  Equipment = {}
  AutoEquip = {}
  IsVial = TRUE
  CapKnown = TRUE
  MinAbsentPolls = 2
  VerifyPolls = 2
  HydrationPolls = 2
  StorageRetryLimit = 1
  Limits <- Anything
INVARIANTS
  PlanIsNext
  LaneServesPlan
  OwnRetryReachesGame
  DeferredIsParked
