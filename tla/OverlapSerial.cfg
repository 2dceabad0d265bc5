\* The same clients and agents; tasks do not run serially.
SPECIFICATION Spec
CONSTANTS
  balance  = balance
  transfer = transfer
  fallback = fallback
  NoTask   = NoTask
  Intents  <- TwoIntents
  Fallback = fallback
  Priority <- DemoPriority
  MaxRequests = 2
  Confidences = {1}
  PrimaryThreshold = 1
  SwitchThreshold  = 1
  AgentStatuses  = {"running", "waiting_user_input", "completed"}
  AgentsConclude = TRUE
  Concurrent     = TRUE
  Abortable      <- Nobody
  CatalogFailsFor <- Nobody
  MaxRefreshes   = 0
INVARIANTS
  OneTaskAtATime
CHECK_DEADLOCK FALSE
