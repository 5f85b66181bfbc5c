\* One signal of two contracts, so partial fills happen, and one crash.
CONSTANTS
  Ids = {s1}
  None = None
  Qty = 2
  MaxCrashes = 1
SPECIFICATION FairSpec
PROPERTY ConclusiveUnblocks
CHECK_DEADLOCK FALSE
