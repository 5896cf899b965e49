SPECIFICATION MCSpec
CONSTANTS
  Entries = {e1, e2}
  Hours = 2
  Mins = 6
  Every15 = 2
  Every20 = 3
  Days = 2
  Zones <- MCZones
  Settings <- SomeSettings
  Times = {1, 64}
  LastDay = 49710
INVARIANTS NearestIsNext TaiInvertsUtc OncePerMonth
PROPERTIES ActsWhenDue RecoversAtMidnight
SYMMETRY EntrySymmetry
CHECK_DEADLOCK FALSE
