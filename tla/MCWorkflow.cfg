SPECIFICATION FairSpec
CONSTANTS
  MaxTurns = 2
  max_retries = 3
  NoIntent = none
INVARIANTS WorksOnOwnRequest RemembersTheAnswered
PROPERTIES ImplementsTurns EveryTurnEnds
CHECK_DEADLOCK FALSE
