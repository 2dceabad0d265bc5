\* A listener of a session in which nothing happens. Of the timers, the wait of
\* the endpoint is the shortest and the idle limit the longest, as deployed.
SPECIFICATION Spec
CONSTANTS
  Sessions = {s1}
  NoSession = none
  Relays = {r1}
  Listeners = {l1}
  Posts = {}
  Leavers = {}
  MaxEvents = 1
  MaxHearts = 2
  ShortWait = 1
  Heartbeat = 2
  MaxIdle = 4
INVARIANTS
  SubscriptionLasts
CHECK_DEADLOCK FALSE
