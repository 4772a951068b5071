SPECIFICATION Spec
CONSTANTS
  Perception = {p1, p2}
  MaxTogether = 1
  ui_tree_max_retries = 1
  MaxScreen = 1
SYMMETRY Symmetric
CHECK_DEADLOCK FALSE
INVARIANTS PendingIsUnderWay
PROPERTIES ImplementsObservation
