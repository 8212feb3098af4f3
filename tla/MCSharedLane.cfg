SPECIFICATION FairSpec
CONSTANTS
  N = 1
  Ops <- OneOp
  Keys <- MCKeys
  VialKeys <- MCVials
  SustainPolls = 2
  MaxEvents = 2
  None = None
INVARIANTS TypeOK HandedOverOnce LaneIsPolled
PROPERTY RowsSettleUnlessCrossed
CHECK_DEADLOCK FALSE
