SPECIFICATION FairSpec
CONSTANTS
  N = 2
  MaxStack = 1
  Limits <- TwoRestores
INVARIANTS
  TypeOK
  NoDuplicate
  ResumeIsComplete
PROPERTY ErasedTailComesBack
CHECK_DEADLOCK FALSE
