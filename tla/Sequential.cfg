\* One client that waits for an answer before it sends the next request, and
\* agents that conclude their streams.
SPECIFICATION Spec
CONSTANTS
  balance  = balance
  transfer = transfer
  fallback = fallback
  NoTask   = NoTask
  Intents  <- TwoIntents
  Fallback = fallback
  Priority <- DemoPriority
  MaxRequests = 4
  Confidences = {1, 2}
  PrimaryThreshold = 1
  SwitchThreshold  = 2
  AgentStatuses  = {"running", "waiting_user_input", "completed", "failed"}
  AgentsConclude = TRUE
  Concurrent     = FALSE
  Abortable      <- Nobody
  CatalogFailsFor <- Nobody
  MaxRefreshes   = 1
INVARIANTS
  TypeOK
  OneTaskAtATime
  OpenIntentsUnique
  AtRest
PROPERTIES
  ClosedStaysClosed
  PlanLeavesSettled
CHECK_DEADLOCK FALSE
