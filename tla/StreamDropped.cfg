\* A client that waits for an answer but may drop its event stream.
SPECIFICATION Spec
CONSTANTS
  balance  = balance
  transfer = transfer
  fallback = fallback
  NoTask   = NoTask
  Intents  <- TwoIntents
  Fallback = fallback
  Priority <- DemoPriority
  MaxRequests = 2
  Confidences = {1}
  PrimaryThreshold = 1
  SwitchThreshold  = 1
  AgentStatuses  = {"running", "waiting_user_input", "completed"}
  AgentsConclude = TRUE
  Concurrent     = FALSE
  Abortable      <- Everyone
  CatalogFailsFor <- Nobody
  MaxRefreshes   = 0
INVARIANTS
  DroppedStreamClosesTask
CHECK_DEADLOCK FALSE
