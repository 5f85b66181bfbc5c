\* Two checks that may overlap, one midnight.
CONSTANTS
  Checks = {c1, c2}
  None = none
  LastDay = 1
SPECIFICATION Spec
SYMMETRY Symmetry
INVARIANTS TypeOK LetThroughAfterPass
PROPERTIES OnlyStaleCheckReopens
