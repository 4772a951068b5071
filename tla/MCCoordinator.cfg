SPECIFICATION FairSpec
CONSTANTS
  StepActs = {"tap", "tap_at", "key", "open_app", "type", "ask_user", "stuck", "web_search"}
  Commits = {}
  NoCommit = none
  MaxPhases = 2
  MaxPlan = 1
  MAX_TOTAL_ACTIONS = 2
  MAX_REPLAN_ATTEMPTS = 1
  MAX_SCROLL_SEARCH = 1
  MaxAttempts = 2
  MaxGestureFailures = 2
  MaxRecovery = 1
  MaxRetries = 1
  SameTap = 2
  SameScreen = 2
  TapRepeat = 1
  OtherRepeat = 2
INVARIANTS CompletedMeansPhasesDone UiMatchesResult CancelOnlyIfAsked CancelStopsGestures HitlNeverReachesActor Budgets
PROPERTIES Terminates
