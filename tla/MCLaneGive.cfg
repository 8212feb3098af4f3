SPECIFICATION FairSpec
CONSTANTS
  N = 1
  Ops <- TwoOps
  Keys <- NoKeys
  VialKeys <- NoKeys
  SustainPolls = 2
  MaxEvents = 0
  None = None
PROPERTY EveryRowSettles
CHECK_DEADLOCK FALSE
