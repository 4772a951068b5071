SPECIFICATION FairSpec
CONSTANTS
  MaxUtterances = 3
  Typed = {2}
  MaxCancels = 1
INVARIANTS ThinkingIsExplained EachItsOwn
PROPERTIES EveryUtteranceIsSettled
CHECK_DEADLOCK FALSE
