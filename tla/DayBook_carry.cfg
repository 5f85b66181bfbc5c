\* A limit of one losing trade; no crash, no failed write.
CONSTANTS
  Bars = {b1, b2, c1}
  Other = {c1}
  Unfit = {}
  Feed = {}
  None = none
  LastDay = 2
  Capacity = 2
  LossLimit = 1
  Lookback = 1
  MaxDeliveries = 3
  MaxFaults = 0
  MaxCrashes = 0
SPECIFICATION Spec
PROPERTIES LossLockout
CHECK_DEADLOCK FALSE
