\* One sub-lane, two setups, four bars over three days, one line cut short.
CONSTANTS
  Lanes = {asia}
  Setups = {s1, s2}
  None = none
  Garbled = garbled
  LastBar = 4
  BarsPerDay = 2
  FirstTraded = 2
  MaxTears = 1
SPECIFICATION Spec
SYMMETRY Symmetry
INVARIANTS TypeOK OneStoryPerSetup LossIsBounded
