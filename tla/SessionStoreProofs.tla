-------------------------- MODULE SessionStoreProofs --------------------------
(***************************************************************************)
(* Theorems about module SessionStore, for any customers, requests, clocks *)
(* and limits: what a handler holds stays a session of its own, that does  *)
(* not expire under a message, and memory stays with its owner.            *)
(*                                                                         *)
(* They rest on one relation between the objects before and after a step   *)
(* (Grows): none is lost, none changes its id or its customer, and none is *)
(* to expire earlier.                                                      *)
(***************************************************************************)
EXTENDS SessionStore, TLAPS

Grows(before, after) ==
  /\ Len(before) <= Len(after)
  /\ \A o \in 1..Len(before) :
       /\ after[o].sid = before[o].sid
       /\ after[o].cust = before[o].cust
       /\ after[o].expires >= before[o].expires

(* What holds of a handler h when the objects are objs and the time is t.   *)
(* The last conjunct is what keeps a session alive under a message: each    *)
(* await may cost AwaitLimit of what was Ttl when the handler started.      *)
Holding(h, objs, t) ==
  /\ h \in Handler
  /\ h.pc \in {"new", "resolved"} => h.awaits = 0
  /\ h.pc = "waiting" =>
       /\ h.holds \in 1..Len(objs)
       /\ objs[h.holds].sid = h.sid
       /\ objs[h.holds].cust = h.cust
       /\ h.awaits <= MaxAwaits
       /\ t <= h.since + AwaitLimit
       /\ h.kind = "message" =>
            h.since + Ttl + AwaitLimit <= objs[h.holds].expires + h.awaits * AwaitLimit

Objects == objects \in Seq(Object) /\ \A o \in 1..Len(objects) : objects[o].expires <= now + Ttl

(* The store's object under an id is a session of that id.                  *)
Stored ==
  /\ store \in [SessionIds -> 0..Len(objects)]
  /\ \A s \in SessionIds : store[s] # None => objects[store[s]].sid = s

Handlers ==
  /\ handler = [r \in Requests |-> handler[r]]
  /\ \A r \in Requests : Holding(handler[r], objects, now)

(* A memory m, of sessions in objs of which those in current are the        *)
(* store's: an entry is of a session of the customer and, when it was       *)
(* promoted, of one that has left the store, once.                          *)
Remembered(m, objs, current) ==
  /\ m = [c \in Customers |-> m[c]]
  /\ \A c \in Customers :
       /\ IsABag(m[c])
       /\ DOMAIN m[c] \subseteq Facts
       /\ \A f \in DOMAIN m[c] :
            /\ f[2] \in 1..Len(objs)
            /\ objs[f[2]].cust = c
            /\ f[1] # "task_completion" =>
                 m[c][f] = 1 /\ \A s \in SessionIds : current[s] # f[2]

Inv ==
  /\ now \in Nat
  /\ Objects
  /\ Stored
  /\ Handlers
  /\ Remembered(memory, objects, store)

-----------------------------------------------------------------------------
(* Lemmas on the operations.                                                *)

(* The bounds are natural numbers.                                          *)
LEMMA Bounds ==
  /\ MaxRequests \in Nat /\ MaxAwaits \in Nat /\ AwaitLimit \in Nat
  /\ Ttl \in Nat /\ PromotedTail \in Nat
  BY BoundsAssumption

(* touch keeps a session a session, and sets its expiry a Ttl from now.     *)
LEMMA SaysType ==
  ASSUME now \in Nat, NEW obj \in Object
  PROVE  /\ Says(obj) \in Object
         /\ Says(obj).sid = obj.sid
         /\ Says(obj).cust = obj.cust
         /\ Says(obj).expires = now + Ttl
<1> DEFINE said    == obj.said + 1
           expires == now + Ttl
<1>1. said \in Nat /\ expires \in Nat
  BY Bounds DEF Object
<1>2. Says(obj) = [obj EXCEPT !.said = said, !.expires = expires]
  BY DEF Says
<1> HIDE DEF said, expires
<1>3. Says(obj) \in Object /\ Says(obj).sid = obj.sid /\ Says(obj).cust = obj.cust
        /\ Says(obj).expires = expires
  BY <1>1, <1>2 DEF Object
<1> QED BY <1>3 DEF expires

(* The expiry of an object is a time.                                       *)
LEMMA ExpiryType ==
  ASSUME NEW objs \in Seq(Object)
  PROVE  \A o \in 1..Len(objs) : objs[o] \in Object /\ objs[o].expires \in Nat
<1>1. \A o \in 1..Len(objs) : objs[o] \in Object
  OBVIOUS
<1> QED BY <1>1 DEF Object

(* A new session is one, of its id and customer.                            *)
LEMMA NewSessionType ==
  ASSUME now \in Nat, NEW s \in SessionIds, NEW c \in Customers
  PROVE  /\ NewSession(s, c) \in Object
         /\ NewSession(s, c).sid = s
         /\ NewSession(s, c).cust = c
         /\ NewSession(s, c).expires = now + Ttl
  BY Bounds DEF NewSession, Object

(* The objects of sessions grow when one is added.                          *)
LEMMA AddedGrows ==
  ASSUME NEW before \in Seq(Object), NEW obj \in Object
  PROVE  /\ Append(before, obj) \in Seq(Object)
         /\ Len(Append(before, obj)) = Len(before) + 1
         /\ Append(before, obj)[Len(before) + 1] = obj
         /\ \A o \in 1..Len(before) : Append(before, obj)[o] = before[o]
         /\ Grows(before, Append(before, obj))
<1>1. \A o \in 1..Len(before) : before[o] \in Object
  OBVIOUS
<1> QED BY <1>1 DEF Grows, Object

(* They grow when one is touched.                                           *)
LEMMA SaidGrows ==
  ASSUME now \in Nat, NEW before \in Seq(Object), NEW o \in 1..Len(before),
         before[o].expires <= now + Ttl
  PROVE  LET after == [before EXCEPT ![o] = Says(@)]
         IN  /\ after \in Seq(Object)
             /\ Len(after) = Len(before)
             /\ after[o] = Says(before[o])
             /\ \A p \in 1..Len(before) : p # o => after[p] = before[p]
             /\ Grows(before, after)
<1> DEFINE new == Says(before[o])
           after == [before EXCEPT ![o] = new]
<1>1. \A p \in 1..Len(before) : before[p] \in Object
  OBVIOUS
<1>2. new \in Object /\ new.sid = before[o].sid /\ new.cust = before[o].cust
        /\ new.expires = now + Ttl
  BY <1>1, SaysType
<1> HIDE DEF new
<1>3. after \in Seq(Object) /\ Len(after) = Len(before) /\ after[o] = new
        /\ \A p \in 1..Len(before) : p # o => after[p] = before[p]
  BY <1>2
<1>4. Grows(before, after)
  BY <1>1, <1>2, <1>3, Bounds DEF Grows, Object
<1> QED BY <1>3, <1>4 DEF new

(* Growing is transitive, among objects of sessions.                        *)
LEMMA GrowsTransitive ==
  ASSUME NEW a \in Seq(Object), NEW b \in Seq(Object), NEW c \in Seq(Object),
         Grows(a, b), Grows(b, c)
  PROVE  Grows(a, c)
<1>1. Len(a) \in Nat /\ Len(b) \in Nat /\ Len(c) \in Nat
  OBVIOUS
<1>2. \A o \in 1..Len(a) : o \in 1..Len(b) /\ o \in 1..Len(c)
  BY <1>1 DEF Grows
<1>3. /\ \A o \in 1..Len(a) : a[o].expires \in Nat
      /\ \A o \in 1..Len(b) : b[o].expires \in Nat
      /\ \A o \in 1..Len(c) : c[o].expires \in Nat
  BY ExpiryType
<1> QED BY <1>1, <1>2, <1>3 DEF Grows

(* What holds of a handler goes on to hold as the objects grow.             *)
LEMMA HoldingGrows ==
  ASSUME NEW before \in Seq(Object), NEW after \in Seq(Object), Grows(before, after),
         NEW h, NEW t \in Nat, Holding(h, before, t)
  PROVE  Holding(h, after, t)
<1>1. CASE h.pc # "waiting"
  BY <1>1 DEF Holding
<1>2. CASE h.pc = "waiting"
  <2>1. /\ h.holds \in 1..Len(before) /\ h.holds \in 1..Len(after)
        /\ h.since \in Nat /\ h.awaits \in Nat
    BY <1>2 DEF Holding, Handler, Grows
  <2>2. before[h.holds].expires \in Nat /\ after[h.holds].expires \in Nat
    BY <2>1, ExpiryType
  <2> DEFINE spent  == h.awaits * AwaitLimit
             needed == h.since + Ttl + AwaitLimit
  <2>3. spent \in Nat /\ needed \in Nat
    BY <2>1, Bounds
  <2>4. h.kind = "message" => needed <= before[h.holds].expires + spent
    BY <1>2 DEF Holding
  <2> HIDE DEF spent, needed
  <2>5. h.kind = "message" => needed <= after[h.holds].expires + spent
    <3>1. before[h.holds].expires <= after[h.holds].expires
      BY <2>1 DEF Grows
    <3> QED BY <2>2, <2>3, <2>4, <3>1
  <2>6. after[h.holds].sid = h.sid /\ after[h.holds].cust = h.cust
    BY <1>2, <2>1 DEF Holding, Grows
  <2> QED BY <1>2, <2>1, <2>5, <2>6 DEF Holding, spent, needed
<1> QED BY <1>1, <1>2

-----------------------------------------------------------------------------
(* Memory.                                                                  *)

(* Remembering a set of entries changes the customer's facts only, to those *)
(* and the new ones, and what is new is there once.                         *)
LEMMA RememberingFacts ==
  ASSUME NEW m, NEW c \in Customers, IsABag(m[c]), NEW new
  PROVE  LET facts == m[c] (+) SetToBag(new)
         IN  /\ IsABag(facts)
             /\ DOMAIN facts = DOMAIN m[c] \cup new
             /\ \A f \in new \ DOMAIN m[c] : facts[f] = 1
             /\ \A f \in DOMAIN m[c] \ new : facts[f] = m[c][f]
<1> DEFINE facts == m[c] (+) SetToBag(new)
<1>1. \A f \in DOMAIN m[c] : m[c][f] \in Nat /\ m[c][f] > 0
  BY DEF IsABag
<1>2. facts = [f \in DOMAIN m[c] \cup new |->
                (IF f \in DOMAIN m[c] THEN m[c][f] ELSE 0) + (IF f \in new THEN 1 ELSE 0)]
  BY DEF SetToBag, (+)
<1>3. DOMAIN facts = DOMAIN m[c] \cup new
  BY <1>2
<1>4. \A f \in DOMAIN m[c] \cup new : facts[f] \in Nat /\ facts[f] > 0
  BY <1>1, <1>2
<1>5. IsABag(facts)
  BY <1>2, <1>3, <1>4 DEF IsABag
<1> QED BY <1>1, <1>2, <1>3, <1>5

(* A memory goes on to be right as objects are added and replaced in the    *)
(* store by new ones.                                                       *)
LEMMA RememberedGrows ==
  ASSUME NEW m, NEW before \in Seq(Object), NEW after \in Seq(Object), Grows(before, after),
         NEW current, NEW current1, Remembered(m, before, current),
         \A s \in SessionIds : current1[s] = current[s] \/ current1[s] > Len(before)
  PROVE  Remembered(m, after, current1)
<1>1. Len(before) \in Nat /\ Len(after) \in Nat
  OBVIOUS
<1>2. ASSUME NEW c \in Customers, NEW f \in DOMAIN m[c]
      PROVE  /\ f[2] \in 1..Len(after)
             /\ after[f[2]].cust = c
             /\ f[1] # "task_completion" =>
                  m[c][f] = 1 /\ \A s \in SessionIds : current1[s] # f[2]
  <2>1. f[2] \in 1..Len(before) /\ before[f[2]].cust = c
    BY DEF Remembered
  <2>2. f[2] \in 1..Len(after) /\ after[f[2]].cust = c
    BY <1>1, <2>1 DEF Grows
  <2>3. ASSUME f[1] # "task_completion"
        PROVE  m[c][f] = 1 /\ \A s \in SessionIds : current1[s] # f[2]
    BY <1>1, <2>1, <2>3 DEF Remembered
  <2> QED BY <2>2, <2>3
<1> QED BY <1>2 DEF Remembered

(* Memory goes on to be right as a customer's entries are added that are of *)
(* the customer's sessions, promoted ones new and of no current session.    *)
LEMMA RememberingRemembered ==
  ASSUME NEW objs, NEW current, Remembered(memory, objs, current),
         NEW c \in Customers, NEW new \in SUBSET Facts,
         \A f \in new : /\ f[2] \in 1..Len(objs)
                        /\ objs[f[2]].cust = c
                        /\ f[1] # "task_completion" =>
                             f \notin DOMAIN memory[c] /\ \A s \in SessionIds : current[s] # f[2]
  PROVE  Remembered(Remembering(c, new), objs, current)
<1> DEFINE facts == memory[c] (+) SetToBag(new)
           m     == Remembering(c, new)
<1>1. /\ IsABag(facts)
      /\ DOMAIN facts = DOMAIN memory[c] \cup new
      /\ \A f \in new \ DOMAIN memory[c] : facts[f] = 1
      /\ \A f \in DOMAIN memory[c] \ new : facts[f] = memory[c][f]
  <2>1. IsABag(memory[c])
    BY DEF Remembered
  <2> QED BY <2>1, RememberingFacts
<1>2. /\ m = [memory EXCEPT ![c] = facts]
      /\ memory = [d \in Customers |-> memory[d]]
  BY DEF Remembering, Remembered
<1>3. /\ m = [d \in Customers |-> m[d]]
      /\ m[c] = facts
      /\ \A d \in Customers \ {c} : m[d] = memory[d]
  BY <1>2
<1> HIDE DEF facts, m
<1>4. ASSUME NEW f \in DOMAIN facts
      PROVE  /\ f \in Facts
             /\ f[2] \in 1..Len(objs)
             /\ objs[f[2]].cust = c
             /\ f[1] # "task_completion" =>
                  facts[f] = 1 /\ \A s \in SessionIds : current[s] # f[2]
  <2>1. CASE f \in new
    BY <1>1, <2>1
  <2>2. CASE f \in DOMAIN memory[c] \ new
    BY <1>1, <2>2 DEF Remembered
  <2> QED BY <1>1, <2>1, <2>2
<1>5. ASSUME NEW d \in Customers
      PROVE  /\ IsABag(m[d])
             /\ DOMAIN m[d] \subseteq Facts
             /\ \A f \in DOMAIN m[d] :
                  /\ f[2] \in 1..Len(objs)
                  /\ objs[f[2]].cust = d
                  /\ f[1] # "task_completion" =>
                       m[d][f] = 1 /\ \A s \in SessionIds : current[s] # f[2]
  <2>1. CASE d = c
    BY <1>1, <1>3, <1>4, <2>1
  <2>2. CASE d # c
    BY <1>3, <2>2 DEF Remembered
  <2> QED BY <2>1, <2>2
<1>6. Remembered(m, objs, current)
  BY <1>3, <1>5 DEF Remembered
<1> QED BY <1>6 DEF m

-----------------------------------------------------------------------------
(* Handlers.                                                                *)

(* If one handler changes and the objects grow, all go on to hold their     *)
(* sessions when that one does.                                             *)
LEMMA OneHandlerSteps ==
  ASSUME now \in Nat, Objects, Handlers, objects' \in Seq(Object), Grows(objects, objects'),
         now' = now, NEW r \in Requests, NEW h, Holding(h, objects', now),
         handler' = [handler EXCEPT ![r] = h]
  PROVE  Handlers'
<1>1. \A q \in Requests : Holding(handler[q], objects', now)
  BY HoldingGrows DEF Objects, Handlers
<1>2. /\ handler' = [q \in Requests |-> handler'[q]]
      /\ handler'[r] = h
      /\ \A q \in Requests \ {r} : handler'[q] = handler[q]
  BY DEF Handlers
<1> QED BY <1>1, <1>2 DEF Handlers

(* A handler that ends, or has not begun, holds nothing.                    *)
LEMMA AtRestHolds ==
  ASSUME NEW pc \in {"new", "ended"}, NEW objs, NEW t
  PROVE  Holding(AtRest(pc), objs, t)
<1>1. (CHOOSE s \in SessionIds : TRUE) \in SessionIds
  BY SessionIdsAssumption
<1> QED BY <1>1, CustomersAssumption DEF Holding, AtRest, Handler, None

(* A handler that goes on with its own session, which is due to live long   *)
(* enough if the handler is a message's, goes on to hold it.                *)
LEMMA OnwardHolds ==
  ASSUME now \in Nat, Objects, Handlers, objects' \in Seq(Object), Grows(objects, objects'),
         now' = now, NEW r \in Requests, NEW o \in 1..Len(objects'), Onward(r, o),
         objects'[o].sid = handler[r].sid, objects'[o].cust = handler[r].cust,
         handler[r].kind = "message" =>
           now + Ttl <= objects'[o].expires + handler[r].awaits * AwaitLimit
  PROVE  Handlers'
<1>1. CASE handler' = [handler EXCEPT ![r] = AtRest("ended")]
  BY <1>1, AtRestHolds, OneHandlerSteps
<1>2. CASE /\ handler[r].awaits < MaxAwaits
           /\ handler' = [handler EXCEPT ![r].pc     = "waiting",
                                         ![r].holds  = o,
                                         ![r].since  = now,
                                         ![r].awaits = @ + 1]
  <2> DEFINE n == handler[r].awaits + 1
             h == [handler[r] EXCEPT !.pc = "waiting", !.holds = o, !.since = now, !.awaits = n]
  <2>1. handler[r] \in Handler /\ handler[r].awaits \in Nat
    BY DEF Handlers, Holding, Handler
  <2>2. handler' = [handler EXCEPT ![r] = h]
    BY <1>2 DEF Handlers
  <2>3. n \in Nat /\ n <= MaxAwaits /\ o \in Nat
    BY <1>2, <2>1, Bounds
  <2>4. n * AwaitLimit = handler[r].awaits * AwaitLimit + AwaitLimit
    BY <2>1, Bounds
  <2>5. handler[r].kind = "message" =>
          now + Ttl + AwaitLimit <= objects'[o].expires + n * AwaitLimit
    <3> DEFINE spent == handler[r].awaits * AwaitLimit
    <3>1. spent \in Nat /\ objects'[o].expires \in Nat
      BY <2>1, Bounds, ExpiryType
    <3> HIDE DEF spent
    <3>2. handler[r].kind = "message" =>
            now + Ttl + AwaitLimit <= objects'[o].expires + (spent + AwaitLimit)
      <4>1. handler[r].kind = "message" => now + Ttl <= objects'[o].expires + spent
        BY DEF spent
      <4> QED BY <3>1, <4>1, Bounds
    <3> QED BY <2>4, <3>2 DEF spent
  <2> HIDE DEF n
  <2>6. h \in Handler /\ h.pc = "waiting" /\ h.holds = o /\ h.since = now /\ h.awaits = n
          /\ h.kind = handler[r].kind /\ h.sid = handler[r].sid /\ h.cust = handler[r].cust
    BY <2>1, <2>3 DEF Handler
  <2> HIDE DEF h
  <2>7. now <= now + AwaitLimit
    BY Bounds
  <2>8. Holding(h, objects', now)
    BY <2>3, <2>5, <2>6, <2>7 DEF Holding
  <2> QED BY <2>2, <2>8, OneHandlerSteps
<1> QED BY <1>1, <1>2 DEF Onward

-----------------------------------------------------------------------------
(* Each action preserves the invariant.                                     *)

(* A session created over an id in use leaves the old one to its handlers.  *)
LEMMA CreateSessionKeepsInv ==
  ASSUME Inv, NEW s \in SessionIds, NEW c \in Customers, CreateSession(s, c)
  PROVE  Inv'
<1> DEFINE new == NewSession(s, c)
           n   == Len(objects) + 1
<1>1. now \in Nat /\ objects \in Seq(Object) /\ new \in Object /\ Len(objects) \in Nat
  BY NewSessionType DEF Inv, Objects
<1>2. new.sid = s /\ new.expires = now + Ttl
  BY <1>1, NewSessionType
<1>3. objects' = Append(objects, new) /\ store' = [store EXCEPT ![s] = n]
        /\ UNCHANGED <<now, memory, handler>>
  BY DEF CreateSession
<1> HIDE DEF new
<1>4. /\ objects' \in Seq(Object)
      /\ Len(objects') = n
      /\ objects'[n] = new
      /\ \A o \in 1..Len(objects) : objects'[o] = objects[o]
      /\ Grows(objects, objects')
  BY <1>1, <1>3, AddedGrows
<1>5. Objects'
  <2>1. \A o \in 1..n : o \in 1..Len(objects) \/ o = n
    BY <1>1
  <2>2. now + Ttl <= now + Ttl
    BY <1>1, Bounds
  <2> QED BY <1>2, <1>3, <1>4, <2>1, <2>2 DEF Inv, Objects
<1>6. Stored'
  <2>1. store \in [SessionIds -> 0..Len(objects)]
    BY DEF Inv, Stored
  <2>2. store' \in [SessionIds -> 0..n]
    BY <1>1, <1>3, <2>1
  <2>3. ASSUME NEW x \in SessionIds, store'[x] # None
        PROVE  objects'[store'[x]].sid = x
    <3>1. CASE x = s
      BY <1>2, <1>3, <1>4, <2>1, <3>1
    <3>2. CASE x # s
      <4>1. store'[x] = store[x] /\ store[x] \in 1..Len(objects)
        BY <1>1, <1>3, <2>1, <2>3, <3>2 DEF None
      <4> QED BY <1>4, <2>3, <4>1 DEF Inv, Stored
    <3> QED BY <3>1, <3>2
  <2> QED BY <1>4, <2>2, <2>3 DEF Stored
<1>7. Handlers'
  BY <1>1, <1>3, <1>4, HoldingGrows DEF Inv, Handlers
<1>8. Remembered(memory', objects', store')
  <2>1. \A x \in SessionIds : store'[x] = store[x] \/ store'[x] > Len(objects)
    BY <1>1, <1>3 DEF Inv, Stored
  <2> QED BY <1>1, <1>3, <1>4, <2>1, RememberedGrows DEF Inv
<1> QED BY <1>1, <1>3, <1>5, <1>6, <1>7, <1>8 DEF Inv

(* A request is resolved to a customer, and holds nothing yet.              *)
LEMMA PostKeepsInv ==
  ASSUME Inv, NEW r \in Requests, NEW kind \in {"message", "action"}, NEW s \in SessionIds,
         NEW given \in Customers \cup {Nobody}, Post(r, kind, s, given)
  PROVE  Inv'
<1> DEFINE c == CustomerOf(s, given)
           h == [handler[r] EXCEPT !.pc = "resolved", !.kind = kind, !.sid = s, !.cust = c]
<1>1. c \in Customers
  <2>1. CASE given # Nobody
    BY <2>1 DEF CustomerOf
  <2>2. CASE given = Nobody /\ store[s] # None
    <3>1. store[s] \in 1..Len(objects)
      BY <2>2 DEF Inv, Stored, Objects, None
    <3>2. objects[store[s]] \in Object
      BY <3>1, ExpiryType DEF Inv, Objects
    <3> QED BY <2>2, <3>2 DEF CustomerOf, Object
  <2>3. CASE given = Nobody /\ store[s] = None
    BY <2>3, CustomersAssumption DEF CustomerOf
  <2> QED BY <2>1, <2>2, <2>3
<1> HIDE DEF c
<1>2. handler' = [handler EXCEPT ![r] = h]
  BY DEF Post, Inv, Handlers, c
<1>3. handler[r] \in Handler /\ handler[r].awaits = 0
  BY DEF Inv, Handlers, Holding, Post
<1>4. h \in Handler /\ h.pc = "resolved" /\ h.awaits = 0
  BY <1>1, <1>3 DEF Handler
<1> HIDE DEF h
<1>5. Holding(h, objects, now)
  BY <1>4 DEF Holding
<1>6. UNCHANGED <<now, objects, store, memory>>
  BY DEF Post
<1>7. \A q \in Requests : Holding(handler'[q], objects, now)
  BY <1>2, <1>5 DEF Inv, Handlers
<1>8. handler' = [q \in Requests |-> handler'[q]]
  BY <1>2 DEF Inv, Handlers
<1> QED BY <1>6, <1>7, <1>8 DEF Inv, Objects, Stored, Handlers

(* get_or_create gives a session of the id and the customer, and puts that  *)
(* one or none but a new one in the store.                                  *)
LEMMA GetOrCreate ==
  ASSUME Inv, NEW s \in SessionIds, NEW c \in Customers
  PROVE  LET o    == Given(s, c)
             objs == ObjectsAfter(s, c)
             st   == [store EXCEPT ![s] = o]
         IN  /\ objs \in Seq(Object) /\ Grows(objects, objs)
             /\ o \in 1..Len(objs) /\ objs[o].sid = s /\ objs[o].cust = c
             /\ \A p \in 1..Len(objs) : objs[p].expires <= now + Ttl
             /\ st \in [SessionIds -> 0..Len(objs)]
             /\ \A x \in SessionIds : st[x] # None => objs[st[x]].sid = x
             /\ \A x \in SessionIds : st[x] = store[x] \/ st[x] > Len(objects)
<1>1. /\ now \in Nat /\ objects \in Seq(Object) /\ Len(objects) \in Nat
      /\ store \in [SessionIds -> 0..Len(objects)]
      /\ \A x \in SessionIds : store[x] # None => objects[store[x]].sid = x
      /\ \A p \in 1..Len(objects) : objects[p].expires <= now + Ttl
  BY DEF Inv, Objects, Stored
<1>2. CASE Current(s, c)
  <2>1. Given(s, c) = store[s] /\ ObjectsAfter(s, c) = objects
    BY <1>2 DEF Given, ObjectsAfter
  <2>2. store[s] \in 1..Len(objects) /\ objects[store[s]].cust = c
    BY <1>1, <1>2 DEF Current, Found, None
  <2>3. [store EXCEPT ![s] = store[s]] = store
    BY <1>1
  <2>4. Grows(objects, objects)
    BY <1>1, ExpiryType DEF Grows
  <2>5. objects[store[s]].sid = s
    BY <1>1, <1>2 DEF Current, Found
  <2> QED BY <1>1, <2>1, <2>2, <2>3, <2>4, <2>5
<1>3. CASE ~Current(s, c)
  <2> DEFINE new == NewSession(s, c)
             n   == Len(objects) + 1
             objs == Append(objects, new)
             st  == [store EXCEPT ![s] = n]
  <2>1. Given(s, c) = n /\ ObjectsAfter(s, c) = objs
    BY <1>3 DEF Given, ObjectsAfter
  <2>2. new \in Object /\ new.sid = s /\ new.cust = c /\ new.expires = now + Ttl
    BY <1>1, NewSessionType
  <2> HIDE DEF new
  <2>3. /\ objs \in Seq(Object) /\ Len(objs) = n /\ objs[n] = new
        /\ \A o \in 1..Len(objects) : objs[o] = objects[o]
        /\ Grows(objects, objs)
    BY <1>1, <2>2, AddedGrows
  <2> HIDE DEF objs
  <2>4. st \in [SessionIds -> 0..n]
    BY <1>1
  <2>5. \A x \in SessionIds : st[x] = store[x] \/ st[x] > Len(objects)
    BY <1>1
  <2>6. ASSUME NEW x \in SessionIds, st[x] # None
        PROVE  objs[st[x]].sid = x
    <3>1. CASE x = s
      BY <1>1, <2>2, <2>3, <3>1
    <3>2. CASE x # s
      <4>1. st[x] = store[x] /\ store[x] \in 1..Len(objects)
        BY <1>1, <2>6, <3>2 DEF None
      <4> QED BY <1>1, <2>3, <2>6, <4>1
    <3> QED BY <3>1, <3>2
  <2>7. ASSUME NEW p \in 1..Len(objs)
        PROVE  objs[p].expires <= now + Ttl
    <3>1. p \in 1..Len(objects) \/ p = n
      BY <1>1, <2>3
    <3>2. now + Ttl <= now + Ttl
      BY <1>1, Bounds
    <3> QED BY <1>1, <2>2, <2>3, <3>1, <3>2
  <2>8. n \in 1..Len(objs)
    BY <1>1, <2>3
  <2> QED BY <2>1, <2>2, <2>3, <2>4, <2>5, <2>6, <2>7, <2>8
<1> QED BY <1>2, <1>3

(* It promotes an ended session that it takes from the store.               *)
LEMMA MemoryAfterRemembered ==
  ASSUME Inv, NEW s \in SessionIds, NEW c \in Customers,
         NEW objs \in Seq(Object), Grows(objects, objs)
  PROVE  Remembered(MemoryAfter(s, c), objs, [store EXCEPT ![s] = Given(s, c)])
<1> DEFINE st == [store EXCEPT ![s] = Given(s, c)]
           o  == store[s]
<1>1. /\ objects \in Seq(Object) /\ Len(objects) \in Nat
      /\ store \in [SessionIds -> 0..Len(objects)]
      /\ \A x \in SessionIds : store[x] # None => objects[store[x]].sid = x
      /\ Remembered(memory, objects, store)
  BY DEF Inv, Objects, Stored
<1>2. Remembered(memory, objs, st)
  <2>1. \A x \in SessionIds : st[x] = store[x] \/ st[x] > Len(objects)
    BY GetOrCreate
  <2> HIDE DEF st
  <2> QED BY <1>1, <2>1, RememberedGrows
<1>3. CASE ~Ended(s, c)
  BY <1>2, <1>3 DEF MemoryAfter
<1>4. CASE Ended(s, c)
  <2>1. o \in 1..Len(objects) /\ objects[o].cust = c
    BY <1>1, <1>4 DEF Ended, Found, None
  <2>2. objs[o].cust = c /\ o \in 1..Len(objs)
    BY <1>1, <2>1 DEF Grows
  <2>3. objects[o] \in Object
    BY <1>1, <2>1, ExpiryType
  <2>4. \A x \in SessionIds : st[x] # o
    <3>1. Given(s, c) = Len(objects) + 1
      BY <1>4 DEF Given, Current, Ended
    <3>2. \A x \in SessionIds \ {s} : store[x] # o
      BY <1>1, <2>1 DEF None
    <3> QED BY <1>1, <2>1, <3>1, <3>2
  <2>5. ASSUME NEW f \in Promotable(o)
        PROVE  f \in Facts /\ f[2] = o /\ f[1] # "task_completion"
    <3>1. CASE f \in {<<"session_message", o, i>> :
                        i \in {n \in 1..objects[o].said : n + PromotedTail > objects[o].said}}
      BY <2>1, <3>1 DEF Facts
    <3>2. CASE f \in {<<"task_slot_memory", o, r>> : r \in objects[o].slots}
      BY <2>1, <2>3, <3>2 DEF Facts, Object, Requests
    <3> QED BY <3>1, <3>2 DEF Promotable
  <2>6. \A f \in Promotable(o) : f \notin DOMAIN memory[c]
    BY <1>1, <2>5 DEF Remembered
  <2>7. Promotable(o) \in SUBSET Facts
    BY <2>5
  <2> HIDE DEF st
  <2>8. Remembered(Remembering(c, Promotable(o)), objs, st)
    BY <1>2, <2>2, <2>4, <2>5, <2>6, <2>7, RememberingRemembered
  <2> QED BY <1>4, <2>1, <2>8 DEF MemoryAfter, st
<1> QED BY <1>3, <1>4

(* A handler starts with a session of its own, which a message has touched. *)
LEMMA StartKeepsInv ==
  ASSUME Inv, NEW r \in Requests, Start(r)
  PROVE  Inv'
<1> DEFINE s    == handler[r].sid
           c    == handler[r].cust
           o    == Given(s, c)
           objs == ObjectsAfter(s, c)
           st   == [store EXCEPT ![s] = o]
<1>1. now \in Nat /\ Objects /\ Handlers /\ handler[r] \in Handler /\ handler[r].awaits = 0
  BY DEF Inv, Handlers, Holding, Start
<1>2. s \in SessionIds /\ c \in Customers
  BY <1>1 DEF Handler
<1>3. /\ objects' = IF handler[r].kind = "message" THEN [objs EXCEPT ![o] = Says(@)] ELSE objs
      /\ store' = st /\ memory' = MemoryAfter(s, c) /\ Onward(r, o) /\ now' = now
  BY DEF Start
<1>4. /\ objs \in Seq(Object) /\ Grows(objects, objs)
      /\ o \in 1..Len(objs) /\ objs[o].sid = s /\ objs[o].cust = c
      /\ \A p \in 1..Len(objs) : objs[p].expires <= now + Ttl
      /\ st \in [SessionIds -> 0..Len(objs)]
      /\ \A x \in SessionIds : st[x] # None => objs[st[x]].sid = x
  BY <1>2, GetOrCreate
<1>5. Remembered(MemoryAfter(s, c), objects', st)
  <2>1. objects' \in Seq(Object) /\ Grows(objects, objects')
    <3>1. CASE handler[r].kind # "message"
      BY <1>3, <1>4, <3>1
    <3>2. CASE handler[r].kind = "message"
      <4>1. [objs EXCEPT ![o] = Says(@)] \in Seq(Object)
              /\ Grows(objs, [objs EXCEPT ![o] = Says(@)])
        BY <1>1, <1>4, SaidGrows
      <4> QED BY <1>1, <1>3, <1>4, <3>2, <4>1, GrowsTransitive DEF Objects
    <3> QED BY <3>1, <3>2
  <2> QED BY <1>2, <2>1, MemoryAfterRemembered
<1> HIDE DEF s, c, o, objs, st
<1>6. /\ objects' \in Seq(Object) /\ Len(objects') = Len(objs) /\ Grows(objs, objects')
      /\ \A p \in 1..Len(objs) : objects'[p].expires <= now + Ttl
      /\ handler[r].kind = "message" => objects'[o].expires = now + Ttl
  <2>1. CASE handler[r].kind # "message"
    <3>1. Grows(objs, objs)
      BY <1>4, ExpiryType DEF Grows
    <3> QED BY <1>3, <1>4, <2>1, <3>1
  <2>2. CASE handler[r].kind = "message"
    <3> DEFINE after == [objs EXCEPT ![o] = Says(@)]
    <3>1. /\ after \in Seq(Object) /\ Len(after) = Len(objs) /\ Grows(objs, after)
          /\ after[o] = Says(objs[o])
          /\ \A p \in 1..Len(objs) : p # o => after[p] = objs[p]
      BY <1>1, <1>4, SaidGrows
    <3>2. objs[o] \in Object
      BY <1>4
    <3>3. Says(objs[o]).expires = now + Ttl /\ now + Ttl <= now + Ttl
      BY <1>1, <3>2, SaysType, Bounds
    <3>4. objects' = after
      BY <1>3, <2>2
    <3> HIDE DEF after
    <3> QED BY <1>4, <3>1, <3>3, <3>4
  <2> QED BY <2>1, <2>2
<1>7. Grows(objects, objects')
  BY <1>1, <1>4, <1>6, GrowsTransitive DEF Objects
<1>8. Handlers'
  <2>1. o \in 1..Len(objects') /\ objects'[o].sid = s /\ objects'[o].cust = c
    BY <1>4, <1>6 DEF Grows
  <2>2. handler[r].awaits * AwaitLimit = 0
    BY <1>1, Bounds
  <2>3. handler[r].kind = "message" =>
          now + Ttl <= objects'[o].expires + handler[r].awaits * AwaitLimit
    BY <1>1, <1>6, <2>2, Bounds
  <2> QED BY <1>1, <1>3, <1>6, <1>7, <2>1, <2>3, OnwardHolds DEF s, c
<1>9. Stored'
  <2>1. st \in [SessionIds -> 0..Len(objects')]
    BY <1>4, <1>6
  <2>2. \A x \in SessionIds : st[x] # None => objects'[st[x]].sid = x
    BY <1>4, <1>6 DEF Grows, None
  <2> QED BY <1>3, <2>1, <2>2 DEF Stored
<1>10. Objects'
  BY <1>3, <1>6 DEF Objects
<1> QED BY <1>1, <1>3, <1>5, <1>8, <1>9, <1>10 DEF Inv

(* If the objects grow by no new one, the store and what is remembered of   *)
(* them stay right.                                                         *)
LEMMA SameObjectsKeepStore ==
  ASSUME Inv, objects' \in Seq(Object), Grows(objects, objects'), Len(objects') = Len(objects),
         UNCHANGED store
  PROVE  Stored' /\ Remembered(memory, objects', store')
<1>1. objects \in Seq(Object) /\ Remembered(memory, objects, store)
  BY DEF Inv, Objects
<1>2. Remembered(memory, objects', store')
  BY <1>1, RememberedGrows
<1>3. Stored'
  <2>1. store \in [SessionIds -> 0..Len(objects)]
    BY DEF Inv, Stored
  <2>2. ASSUME NEW s \in SessionIds, store[s] # None PROVE objects'[store[s]].sid = s
    <3>1. store[s] \in 1..Len(objects)
      BY <1>1, <2>1, <2>2 DEF None
    <3> QED BY <2>2, <3>1 DEF Inv, Stored, Grows
  <2> QED BY <2>1, <2>2 DEF Stored
<1> QED BY <1>2, <1>3

(* Slots filled do not change whose session it is nor its expiry.           *)
LEMMA AgentFillsSlotsKeepsInv ==
  ASSUME Inv, NEW r \in Requests, AgentFillsSlots(r)
  PROVE  Inv'
<1> DEFINE o     == handler[r].holds
           slots == objects[o].slots \cup {r}
           new   == [objects[o] EXCEPT !.slots = slots]
<1>1. now \in Nat /\ objects \in Seq(Object) /\ o \in 1..Len(objects) /\ Objects /\ Handlers
  BY DEF Inv, Objects, Handlers, Holding, AgentFillsSlots
<1>2. objects[o] \in Object /\ objects[o].expires \in Nat
  BY <1>1, ExpiryType
<1>3. slots \in SUBSET Requests
  BY <1>2 DEF Object
<1>4. objects' = [objects EXCEPT ![o] = new] /\ UNCHANGED <<now, store, memory, handler>>
  <2>1. objects' = [objects EXCEPT ![o].slots = @ \cup {r}]
          /\ UNCHANGED <<now, store, memory, handler>>
    BY DEF AgentFillsSlots
  <2> QED BY <1>1, <2>1
<1> HIDE DEF slots
<1>5. new \in Object /\ new.sid = objects[o].sid /\ new.cust = objects[o].cust
        /\ new.expires = objects[o].expires
  BY <1>2, <1>3 DEF Object
<1> HIDE DEF new, o
<1>6. /\ objects' \in Seq(Object) /\ Len(objects') = Len(objects) /\ objects'[o] = new
      /\ \A p \in 1..Len(objects) : p # o => objects'[p] = objects[p]
  BY <1>1, <1>4, <1>5
<1>7. Grows(objects, objects')
  BY <1>1, <1>2, <1>5, <1>6, ExpiryType DEF Grows
<1>8. Objects'
  BY <1>1, <1>4, <1>5, <1>6 DEF Objects
<1>9. Handlers'
  BY <1>1, <1>4, <1>6, <1>7, HoldingGrows DEF Handlers
<1>10. Stored' /\ Remembered(memory, objects', store')
  BY <1>4, <1>6, <1>7, SameObjectsKeepStore
<1> QED BY <1>1, <1>4, <1>8, <1>9, <1>10 DEF Inv

(* What a waiting handler holds, as far as the next await needs it.         *)
LEMMA WaitingHolds ==
  ASSUME Inv, NEW r \in Requests, handler[r].pc = "waiting"
  PROVE  LET o == handler[r].holds
         IN  /\ o \in 1..Len(objects) /\ objects[o] \in Object
             /\ objects[o].sid = handler[r].sid /\ objects[o].cust = handler[r].cust
             /\ handler[r].kind = "message" =>
                  now + Ttl <= objects[o].expires + handler[r].awaits * AwaitLimit
<1> DEFINE h     == handler[r]
           o     == h.holds
           spent == h.awaits * AwaitLimit
<1>1. /\ objects \in Seq(Object) /\ now \in Nat /\ h \in Handler
      /\ o \in 1..Len(objects) /\ objects[o].sid = h.sid /\ objects[o].cust = h.cust
      /\ now <= h.since + AwaitLimit
      /\ h.kind = "message" => h.since + Ttl + AwaitLimit <= objects[o].expires + spent
  BY DEF Inv, Objects, Handlers, Holding
<1>2. objects[o] \in Object /\ objects[o].expires \in Nat
  BY <1>1, ExpiryType
<1>3. h.since \in Nat /\ spent \in Nat
  BY <1>1, Bounds DEF Handler
<1>4. h.kind = "message" => now + Ttl <= objects[o].expires + spent
  <2> DEFINE expires == objects[o].expires
             since   == h.since
  <2>1. now \in Nat /\ expires \in Nat /\ since \in Nat /\ spent \in Nat
    BY <1>1, <1>2, <1>3
  <2>2. now <= since + AwaitLimit
    BY <1>1
  <2>3. h.kind = "message" => since + Ttl + AwaitLimit <= expires + spent
    BY <1>1
  <2> HIDE DEF spent, since, expires
  <2>4. h.kind = "message" => now + Ttl <= expires + spent
    BY <2>1, <2>2, <2>3, Bounds
  <2> QED BY <2>4 DEF expires
<1> HIDE DEF spent, h
<1> QED BY <1>1, <1>2, <1>4 DEF spent, h

(* A chunk that concludes a task leaves a message, or nothing, and may have *)
(* the task's slots remembered.                                             *)
LEMMA AgentConcludesKeepsInv ==
  ASSUME Inv, NEW r \in Requests, NEW status, NEW content \in BOOLEAN,
         AgentConcludes(r, status, content)
  PROVE  Inv'
<1> DEFINE o   == handler[r].holds
           c   == objects[o].cust
           new == {<<"task_completion", o, r>>}
<1>1. now \in Nat /\ Objects /\ objects \in Seq(Object) /\ Handlers
        /\ Remembered(memory, objects, store)
  BY DEF Inv, Objects
<1>2. /\ o \in 1..Len(objects) /\ objects[o] \in Object
      /\ objects[o].sid = handler[r].sid /\ objects[o].cust = handler[r].cust
      /\ handler[r].kind = "message" =>
           now + Ttl <= objects[o].expires + handler[r].awaits * AwaitLimit
  BY WaitingHolds DEF AgentConcludes
<1>3. /\ objects' = IF content THEN [objects EXCEPT ![o] = Says(@)] ELSE objects
      /\ memory' = memory \/ memory' = Remembering(c, new)
      /\ Onward(r, o)
      /\ UNCHANGED <<now, store>>
  BY DEF AgentConcludes
<1>4. /\ objects' \in Seq(Object) /\ Len(objects') = Len(objects) /\ Grows(objects, objects')
      /\ \A p \in 1..Len(objects) : objects'[p].expires <= now + Ttl
  <2>1. CASE content
    <3> DEFINE after == [objects EXCEPT ![o] = Says(@)]
    <3>1. /\ after \in Seq(Object) /\ Len(after) = Len(objects) /\ Grows(objects, after)
          /\ after[o] = Says(objects[o])
          /\ \A p \in 1..Len(objects) : p # o => after[p] = objects[p]
      BY <1>1, <1>2, SaidGrows DEF Objects
    <3>2. Says(objects[o]).expires = now + Ttl /\ now + Ttl <= now + Ttl
      BY <1>1, <1>2, SaysType, Bounds
    <3>3. objects' = after
      BY <1>3, <2>1
    <3> HIDE DEF after
    <3> QED BY <1>1, <3>1, <3>2, <3>3 DEF Objects
  <2>2. CASE ~content
    <3>1. Grows(objects, objects)
      BY <1>1, ExpiryType DEF Grows
    <3> QED BY <1>1, <1>3, <2>2, <3>1 DEF Objects
  <2> QED BY <2>1, <2>2
<1>5. Objects'
  BY <1>3, <1>4 DEF Objects
<1>6. Handlers'
  <2>1. o \in 1..Len(objects') /\ objects'[o].sid = handler[r].sid
          /\ objects'[o].cust = handler[r].cust
    BY <1>2, <1>4 DEF Grows
  <2>2. handler[r].kind = "message" =>
          now + Ttl <= objects'[o].expires + handler[r].awaits * AwaitLimit
    <3> DEFINE spent == handler[r].awaits * AwaitLimit
    <3>1. spent \in Nat
      BY <1>1, Bounds DEF Handlers, Holding, Handler
    <3>2. objects[o].expires \in Nat /\ objects'[o].expires \in Nat
            /\ objects'[o].expires >= objects[o].expires
      BY <1>1, <1>2, <1>4, ExpiryType DEF Grows
    <3>3. handler[r].kind = "message" => now + Ttl <= objects[o].expires + spent
      BY <1>2
    <3> HIDE DEF spent, o
    <3>4. handler[r].kind = "message" => now + Ttl <= objects'[o].expires + spent
      BY <1>1, <3>1, <3>2, <3>3, Bounds
    <3> QED BY <3>4 DEF spent
  <2> QED BY <1>1, <1>3, <1>4, <2>1, <2>2, OnwardHolds
<1>7. Stored' /\ Remembered(memory, objects', store')
  BY <1>3, <1>4, SameObjectsKeepStore
<1>8. Remembered(memory', objects', store')
  <2>1. c \in Customers /\ new \in SUBSET Facts
    BY <1>1, <1>2 DEF Object, Facts, Requests
  <2>2. \A f \in new : f[2] = o /\ f[1] = "task_completion"
    OBVIOUS
  <2>3. o \in 1..Len(objects') /\ objects'[o].cust = c
    BY <1>2, <1>4 DEF Grows
  <2> HIDE DEF new, c, o
  <2>4. Remembered(Remembering(c, new), objects', store')
    BY <1>7, <2>1, <2>2, <2>3, RememberingRemembered
  <2> QED BY <1>3, <1>7, <2>4
<1> QED BY <1>1, <1>3, <1>5, <1>6, <1>7, <1>8 DEF Inv

(* An answer changes no session.                                            *)
LEMMA AnsweredKeepsInv ==
  ASSUME Inv, NEW r \in Requests, Answered(r)
  PROVE  Inv'
<1>1. now \in Nat /\ Objects /\ objects \in Seq(Object) /\ Handlers
  BY DEF Inv, Objects
<1>2. UNCHANGED <<now, objects, store, memory>> /\ Onward(r, handler[r].holds)
  BY DEF Answered
<1>3. Grows(objects, objects)
  BY <1>1, ExpiryType DEF Grows
<1>4. Handlers'
  BY <1>1, <1>2, <1>3, WaitingHolds, OnwardHolds DEF Answered
<1> QED BY <1>2, <1>4 DEF Inv, Objects, Stored

(* A handler that is cancelled holds nothing more.                          *)
LEMMA DisconnectKeepsInv ==
  ASSUME Inv, NEW r \in Requests, Disconnect(r)
  PROVE  Inv'
<1>1. now \in Nat /\ Objects /\ objects \in Seq(Object) /\ Handlers
  BY DEF Inv, Objects
<1>2. UNCHANGED <<now, objects, store, memory>>
        /\ handler' = [handler EXCEPT ![r] = AtRest("ended")]
  BY DEF Disconnect
<1>3. Grows(objects, objects)
  BY <1>1, ExpiryType DEF Grows
<1>4. Handlers'
  BY <1>1, <1>2, <1>3, AtRestHolds, OneHandlerSteps
<1> QED BY <1>2, <1>4 DEF Inv, Objects, Stored

(* Time passes for no handler beyond the limit of its await.                *)
LEMMA TickKeepsInv ==
  ASSUME Inv, Tick
  PROVE  Inv'
<1>1. now \in Nat /\ objects \in Seq(Object) /\ Handlers
  BY DEF Inv, Objects
<1>2. UNCHANGED <<objects, store, memory, handler>> /\ now' = now + 1
  BY DEF Tick
<1>3. \A o \in 1..Len(objects) : objects[o].expires <= now' + Ttl
  BY <1>1, <1>2, ExpiryType, Bounds DEF Inv, Objects
<1>4. ASSUME NEW q \in Requests PROVE Holding(handler[q], objects, now')
  <2>1. handler[q] \in Handler /\ Holding(handler[q], objects, now)
    BY <1>1 DEF Handlers, Holding
  <2>2. handler[q].pc = "waiting" => now' <= handler[q].since + AwaitLimit
    BY <1>1, <1>2, <2>1, Bounds DEF Tick, Handler
  <2> QED BY <2>1, <2>2 DEF Holding
<1> QED BY <1>1, <1>2, <1>3, <1>4 DEF Inv, Objects, Handlers, Stored

(* At first there is nothing to hold or to remember.                        *)
LEMMA InitInv == Init => Inv
<1> SUFFICES ASSUME Init PROVE Inv
  OBVIOUS
<1>1. now \in Nat /\ Objects /\ Stored
  BY DEF Init, Objects, Stored, None
<1>2. Handlers
  BY AtRestHolds DEF Init, Handlers
<1>3. Remembered(memory, objects, store)
  BY DEF Init, Remembered, IsABag, EmptyBag, SetToBag
<1> QED BY <1>1, <1>2, <1>3 DEF Inv

(* Every step preserves the invariant, whichever action takes it.           *)
LEMMA NextInv == Inv /\ [Next]_vars => Inv'
<1> SUFFICES ASSUME Inv, [Next]_vars PROVE Inv'
  OBVIOUS
<1>1. ASSUME NEW s \in SessionIds, NEW c \in Customers, CreateSession(s, c)
      PROVE  Inv'
  BY <1>1, CreateSessionKeepsInv
<1>2. ASSUME NEW r \in Requests, NEW kind \in {"message", "action"}, NEW s \in SessionIds,
             NEW given \in Customers \cup {Nobody}, Post(r, kind, s, given)
      PROVE  Inv'
  BY <1>2, PostKeepsInv
<1>3. ASSUME NEW r \in Requests, Start(r)
      PROVE  Inv'
  BY <1>3, StartKeepsInv
<1>4. ASSUME NEW r \in Requests, AgentFillsSlots(r)
      PROVE  Inv'
  BY <1>4, AgentFillsSlotsKeepsInv
<1>5. ASSUME NEW r \in Requests, NEW status \in {"waiting_user_input", "completed"},
             NEW content \in BOOLEAN, AgentConcludes(r, status, content)
      PROVE  Inv'
  BY <1>5, AgentConcludesKeepsInv
<1>6. ASSUME NEW r \in Requests, TaskTimesOut(r)
      PROVE  Inv'
  BY <1>6, AgentConcludesKeepsInv DEF TaskTimesOut
<1>7. ASSUME NEW r \in Requests, Answered(r)
      PROVE  Inv'
  BY <1>7, AnsweredKeepsInv
<1>8. ASSUME NEW r \in Requests, Disconnect(r)
      PROVE  Inv'
  BY <1>8, DisconnectKeepsInv
<1>9. CASE Tick
  BY <1>9, TickKeepsInv
<1>10. CASE UNCHANGED vars
  BY <1>10 DEF Inv, Objects, Stored, Handlers, vars
<1> QED BY <1>1, <1>2, <1>3, <1>4, <1>5, <1>6, <1>7, <1>8, <1>9, <1>10 DEF Next

-----------------------------------------------------------------------------
(* The theorems.                                                            *)

(* The invariant holds in every state of every behaviour.                   *)
THEOREM Invariance == Spec => []Inv
  BY InitInv, NextInv, PTL DEF Spec

(* The clock, the objects, the store, the memory and the handlers keep to   *)
(* the values the code can give them.                                       *)
THEOREM TypeCorrect == Spec => []TypeOK
<1>1. Inv => TypeOK
  BY DEF Inv, TypeOK, Objects, Stored, Handlers, Holding, Remembered
<1> QED BY <1>1, Invariance, PTL

(* Whoever uses a session id before or after, a customer's memory holds     *)
(* entries of that customer's sessions only.                                *)
THEOREM MemoryKeepsToOwner == Spec => []MemoryIsOwn
<1>1. Inv => MemoryIsOwn
  BY DEF Inv, Remembered, MemoryIsOwn
<1> QED BY <1>1, Invariance, PTL

(* However handlers, creations and expiry interleave, nothing of a session  *)
(* is promoted twice.                                                       *)
THEOREM PromotionIsUnique == Spec => []PromotedOnce
<1>1. Inv => PromotedOnce
  BY DEF Inv, Remembered, PromotedOnce
<1> QED BY <1>1, Invariance, PTL

(* A handler keeps to a session of the id and the customer of its request.  *)
THEOREM HandlersKeepToTheirSession == Spec => []WorksOnOwnSession
<1>1. Inv => WorksOnOwnSession
  BY DEF Inv, Handlers, Holding, WorksOnOwnSession
<1> QED BY <1>1, Invariance, PTL

(* However long the awaits of a message's handler, each within its limit,   *)
(* its session does not expire while it waits.                              *)
THEOREM MessagesKeepSessionsAlive == Spec => []MessageHoldsSession
<1>1. ASSUME Inv, NEW r \in Requests, handler[r].pc = "waiting", handler[r].kind = "message"
      PROVE  ~Expired(handler[r].holds)
  <2> DEFINE o     == handler[r].holds
             spent == handler[r].awaits * AwaitLimit
             most  == MaxAwaits * AwaitLimit
  <2>1. now \in Nat /\ objects[o].expires \in Nat /\ now + Ttl <= objects[o].expires + spent
    BY <1>1, WaitingHolds, ExpiryType DEF Inv, Objects
  <2>2. spent \in Nat /\ most \in Nat /\ spent <= most
    <3>1. handler[r].awaits \in Nat /\ handler[r].awaits <= MaxAwaits
      BY <1>1 DEF Inv, Handlers, Holding, Handler
    <3> QED BY <3>1, Bounds
  <2>3. most < Ttl
    BY TtlAssumption
  <2> HIDE DEF spent, most, o
  <2>4. now < objects[o].expires
    BY <2>1, <2>2, <2>3, Bounds
  <2> QED BY <2>1, <2>4 DEF Expired, o
<1>2. Inv => MessageHoldsSession
  BY <1>1 DEF MessageHoldsSession
<1> QED BY <1>2, Invariance, PTL
=============================================================================
