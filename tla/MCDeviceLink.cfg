SPECIFICATION LinkFairSpec
CONSTANTS
  Gesture = {g1, g2}
  Launch = {l1}
  Injected = {g1}
  Blind = {g2}
  retryCount = 1
  Socket = {s1, s2}
  NoSocket = none
CHECK_DEADLOCK FALSE
INVARIANTS AcksAreAwaited LinkIsServed
PROPERTIES ImplementsRemoteCall EveryCommandEnds
