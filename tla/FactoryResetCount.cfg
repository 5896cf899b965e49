SPECIFICATION Spec
CONSTANTS
  CntSize = 5
  CleanIdx = 3
  NumAreas = 2
  MaxCycles = 6
INVARIANT CountIndexesTable
CHECK_DEADLOCK FALSE
