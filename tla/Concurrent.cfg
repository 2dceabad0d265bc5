\* Clients that send requests while others are in flight, drop their streams,
\* and agents that end a stream without concluding it.
SPECIFICATION Spec
CONSTANTS
  balance  = balance
  transfer = transfer
  fallback = fallback
  NoTask   = NoTask
  Intents  <- TwoIntents
  Fallback = fallback
  Priority <- DemoPriority
  MaxRequests = 3
  Confidences = {1, 2}
  PrimaryThreshold = 2
  SwitchThreshold  = 1
  AgentStatuses  = {"running", "waiting_user_input", "completed"}
  AgentsConclude = FALSE
  Concurrent     = TRUE
  Abortable      <- Everyone
  CatalogFailsFor <- TheSecond
  MaxRefreshes   = 1
INVARIANTS
  PlanDecidedOnce
  PlanCardHonest
PROPERTIES
  MessageOpensNoDuplicate
  QueueDiscipline
CHECK_DEADLOCK FALSE
