SPECIFICATION ProgressSpec
CONSTANTS
  MaxItems = 3
INVARIANTS ItemsAreHonest
PROPERTIES ImplementsFlags
