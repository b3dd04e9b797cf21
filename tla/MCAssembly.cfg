SPECIFICATION Spec
CONSTANTS
  MaxSeq = 3
  Speaker = {1, 2}
INVARIANTS
  SegmentsPreserveOrder
  CorrectionsApply
  ArrivalOrderIrrelevant
CHECK_DEADLOCK FALSE
