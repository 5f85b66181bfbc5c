\* Every configuration of the broker, on brackets six ticks wide.
CONSTANTS
  Top = 7
  Slip = 2
  Tol = 2
  Plans <- MCPlans
  Settings <- AllSettings
VIEW View
SPECIFICATION Spec
INVARIANTS TypeOK HeldInBracket ResultTellsTruth PessimisticWin RebuiltAgrees SeededHoldsNoLonger ExitWasOffered
CHECK_DEADLOCK FALSE
