SPECIFICATION FairSpec
CONSTANTS
  Jobs = {1, 2}
  MaxEvents = 4
INVARIANTS DetectorIsTrue ActiveIsWatched
PROPERTIES WakeWordReturns
CHECK_DEADLOCK FALSE
