\* Two signals, the production cap of one contract, one crash.
CONSTANTS
  Ids = {s1, s2}
  None = None
  Qty = 1
  MaxCrashes = 1
SPECIFICATION Spec
SYMMETRY Symmetry
INVARIANTS TypeOK SendOnce OneUnresolved ExposureIsTracked
PROPERTIES NoStackedEntry AdoptionIsProtected RecoveryClearSound ImplementsLifecycle
CHECK_DEADLOCK FALSE
