SPECIFICATION FairSpec
CONSTANTS
  Players = {1, 2}
  MaxSaid = 1
  MaxEvents = 3
  MaxClicks = 1
INVARIANTS OneConsumer MutedWhilePlaying
PROPERTIES TurnsEnd
CHECK_DEADLOCK FALSE
