SPECIFICATION MCSpec
CONSTANTS
  Half = 4
  One = 4
  Interval = 2
  Width = 16
  Times = {0, 6}
  Delays = {0, 1}
  Asked <- MCAsked
  Ranges <- MCRanges
  Scenes = {s1}
  None = None
  SaveLevels = {off, low, full}
  Off = off
  Full = full
  SaveTime = 2
INVARIANTS SettledAtTarget RecallEnds SavedWhenIdle
PROPERTIES NeverPast SceneIsShown RestoresTarget ComesToRest
