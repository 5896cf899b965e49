SPECIFICATION Spec
CONSTANTS
  Values = {v1, v2}
  Default = v1
  Blank = Blank
  Torn = Torn
  None = None
  SectorSize = 16
  ParSize = 3
  FlagSize = 1
INVARIANT SavedForNextPowerOn
