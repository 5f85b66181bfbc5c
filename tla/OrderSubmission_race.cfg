\* A recovery pass during a send.
CONSTANTS
  Ids = {s1}
  None = None
  Qty = 1
  MaxCrashes = 0
SPECIFICATION Spec
PROPERTY RecoveryNeverClearsLive
CHECK_DEADLOCK FALSE
