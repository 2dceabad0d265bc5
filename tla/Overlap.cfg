\* Clients that send a request while another is in flight but read every stream
\* to its end, and agents that conclude their streams.
SPECIFICATION FairSpec
CONSTANTS
  balance  = balance
  transfer = transfer
  fallback = fallback
  NoTask   = NoTask
  Intents  <- TwoIntents
  Fallback = fallback
  Priority <- DemoPriority
  MaxRequests = 3
  Confidences = {1}
  PrimaryThreshold = 1
  SwitchThreshold  = 1
  AgentStatuses  = {"running", "waiting_confirmation", "completed"}
  AgentsConclude = TRUE
  Concurrent     = TRUE
  Abortable      <- Nobody
  CatalogFailsFor <- Nobody
  MaxRefreshes   = 0
INVARIANTS
  ExecutingIsDriven
PROPERTIES
  EveryRequestAnswered
CHECK_DEADLOCK FALSE
