\* The default configuration.
CONSTANTS
  Top = 7
  Slip = 2
  Tol = 2
  Plans <- MCPlans
  Settings <- Defaults
VIEW View
SPECIFICATION Spec
INVARIANTS ProofRunnerTrails
CHECK_DEADLOCK FALSE
