SPECIFICATION Spec
CONSTANTS
  MaxSeq = 3
  Speaker = {1, 2}
INVARIANT SupersededNeverAssembled
CHECK_DEADLOCK FALSE
