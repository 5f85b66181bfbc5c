\* The supervisor and one other instance; times shortened in their order.
CONSTANTS
  Others = {handler}
  None = none
  Life = 3
  Buffer = 1
  MaxFails = 2
  Cooldown = 2
  RetryAfter = 1
  Every = 2
  Freshness = 3
  MaxDrops = 1
SPECIFICATION Spec
INVARIANTS TypeOK NoNeedlessSession BreakerHolds GateIsBacked
PROPERTIES GateReopens
