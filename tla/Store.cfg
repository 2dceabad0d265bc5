\* Two customers and one session id, created at will and expiring, with requests
\* that overlap, may be dropped, and may name either customer or none.
SPECIFICATION Spec
CONSTANTS
  SessionIds = {s1}
  Customers = {demo, other}
  DefaultCustomer = demo
  Nobody = nobody
  MaxRequests = 3
  MaxInFlight = 2
  MaxObjects = 2
  MaxTime = 4
  MaxAwaits = 1
  AwaitLimit = 1
  Ttl = 2
  PromotedTail = 1
INVARIANTS
  TypeOK
  MemoryIsOwn
  PromotedOnce
  WorksOnOwnSession
  MessageHoldsSession
CHECK_DEADLOCK FALSE
