\* Two bars of one instrument and one of the other, over three days with one
\* day of look-back, so that a position can be forgotten.
CONSTANTS
  Bars = {b1, b2, c1}
  Other = {c1}
  Unfit = {}
  Feed = {c1}
  None = none
  LastDay = 3
  Capacity = 1
  LossLimit = 2
  Lookback = 1
  MaxDeliveries = 3
  MaxFaults = 1
  MaxCrashes = 1
SYMMETRY Symmetry
SPECIFICATION Spec
INVARIANTS TypeOK DecidedAgainOnlyAfterBoth OnePosition DailyCapacity BookBalances
CHECK_DEADLOCK FALSE
