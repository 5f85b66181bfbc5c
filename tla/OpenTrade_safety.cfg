\* A risk of three ticks: the trail lands between ticks.  Two highs to trail
\* to, two moves in flight, one crash.
CONSTANTS
  Entry = 6
  FirstStop = 0
  Highs = {12, 14}
  MaxMods = 2
  MaxCrashes = 1
SPECIFICATION Spec
INVARIANTS TypeOK BookedIsFlat ClearedOnlyBlind JournaledStopRests
PROPERTIES StopOnlyTightens ImplementsLedger
CHECK_DEADLOCK FALSE
