\* A bar of each instrument and an unfit one, two days: whatever is queued gets its turn.
CONSTANTS
  Bars = {b1, c1, x1}
  Other = {c1}
  Unfit = {x1}
  Feed = {c1}
  None = none
  LastDay = 2
  Capacity = 1
  LossLimit = 2
  Lookback = 1
  MaxDeliveries = 3
  MaxFaults = 1
  MaxCrashes = 1
SPECIFICATION Spec
PROPERTIES AcceptedIsDecided
CHECK_DEADLOCK FALSE
