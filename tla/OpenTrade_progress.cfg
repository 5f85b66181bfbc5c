CONSTANTS
  Entry = 6
  FirstStop = 0
  Highs = {}
  MaxMods = 0
  MaxCrashes = 1
SPECIFICATION ProgressSpec
PROPERTIES ClosedIsBooked
CHECK_DEADLOCK FALSE
