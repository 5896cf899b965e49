SPECIFICATION Spec
CONSTANTS
  NetIdx = {0, 1}
  AppIdx = {0, 1}
  Keys = {k1}
  TestKey = TestKey
  NetKeyMax = 2
  AppKeyMax = 2
  None = None
INVARIANT NewAppKeyHasOld
