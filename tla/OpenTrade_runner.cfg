CONSTANTS
  Entry = 6
  FirstStop = 0
  Highs = {12, 14}
  MaxMods = 1
  MaxCrashes = 0
SPECIFICATION Spec
INVARIANT BarResolvesOpenRow
CHECK_DEADLOCK FALSE
