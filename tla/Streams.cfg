\* A relay, a listener and a plain request on two sessions, with clients that go
\* away. Both waits on the listener's subscription last one tick, so that either
\* may end first.
SPECIFICATION Spec
CONSTANTS
  Sessions = {s1, s2}
  NoSession = none
  Relays = {r1}
  Listeners = {l1}
  Posts = {p1}
  Leavers = {r1, l1}
  MaxEvents = 1
  MaxHearts = 1
  ShortWait = 1
  Heartbeat = 1
  MaxIdle = 2
INVARIANTS
  TypeOK
  HandlerEndsWithStream
  QueueGoesWithStream
PROPERTIES
  RelayEnds
  ImplementsChannel
CHECK_DEADLOCK FALSE
