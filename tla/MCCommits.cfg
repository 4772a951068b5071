SPECIFICATION Spec
CONSTANTS
  StepActs = {"tap", "key", "open_app"}
  Commits = {send}
  NoCommit = none
  MaxPhases = 2
  MaxPlan = 1
  MAX_TOTAL_ACTIONS = 2
  MAX_REPLAN_ATTEMPTS = 1
  MAX_SCROLL_SEARCH = 1
  MaxAttempts = 2
  MaxGestureFailures = 2
  MaxRecovery = 1
  MaxRetries = 1
  SameTap = 2
  SameScreen = 2
  TapRepeat = 1
  OtherRepeat = 2
INVARIANTS CommitsFireFirst
