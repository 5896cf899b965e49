SPECIFICATION Spec
CONSTANTS
  Half = 4
  One = 4
  Interval = 2
  Width = 16
  Times = {0, 2}
  Delays = {0}
  Asked = {0, 1}
  Ranges = {}
  Scenes = {s1}
  None = None
INVARIANT RecallIsTransiting
