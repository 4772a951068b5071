SPECIFICATION ScreenFairSpec
CONSTANTS
  Turn = {t1, t2}
  Direct = {d1}
  Own = {a1}
  MaxLosses = 1
  MaxPosts = 1
INVARIANTS GateIsRight NeverInterrupts
PROPERTIES EveryGateEnds
CHECK_DEADLOCK FALSE
