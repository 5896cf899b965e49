SPECIFICATION Spec
CONSTANTS
  Delta = 2
  Burst = 2
  StartSno = 4
  MaxSno = 8
  MaxIv = 2
  None = None
INVARIANTS LoopPassCovered ReuseBounded
PROPERTY PowerCycleKeepsIv
