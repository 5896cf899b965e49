SPECIFICATION MCSpec
CONSTANTS
  Values = {v1, v2}
  Default = v1
  Blank = Blank
  Torn = Torn
  None = None
  SectorSize = 16
  ParSize = 3
  FlagSize = 1
  CntSize = 5
  CleanIdx = 3
  NumAreas = 2
  MaxCycles = 6
INVARIANTS AppendsToErased ResetOnlyByGesture CutResetIsResumed CounterHasRoom
PROPERTIES NoRollback ImplementsDurablePar ResetCompletes
