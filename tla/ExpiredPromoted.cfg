\* One request, and a session that is created over another after it expired.
SPECIFICATION Spec
CONSTANTS
  SessionIds = {s1}
  Customers = {demo, other}
  DefaultCustomer = demo
  Nobody = nobody
  MaxRequests = 2
  MaxInFlight = 1
  MaxObjects = 2
  MaxTime = 3
  MaxAwaits = 1
  AwaitLimit = 1
  Ttl = 2
  PromotedTail = 1
PROPERTIES
  ExpiredIsPromoted
CHECK_DEADLOCK FALSE
