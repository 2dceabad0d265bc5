----------------------------- MODULE SessionStore -----------------------------
(***************************************************************************)
(* The store of sessions and the customers' long-term memory (router_core/ *)
(* orchestrator.py), with the requests that hold a session across awaits.  *)
(*                                                                         *)
(* What module Orchestrator knows of a session is left out: here a session *)
(* is an object with an owner, an expiry, messages and tasks with slots.   *)
(* Several objects succeed each other under one session id.                *)
(***************************************************************************)
EXTENDS Naturals, Sequences, FiniteSets, Bags

CONSTANTS
  SessionIds,       \* the session ids clients use
  Customers,        \* cust_ids
  DefaultCustomer,  \* "cust_demo"
  Nobody,           \* no cust_id in a request
  MaxRequests,      \* number of messages and actions; bounds the model
  MaxInFlight,      \* number of them at the same time; bounds the model
  MaxObjects,       \* number of session objects ever made; bounds the model
  MaxTime,          \* last value of the clock; bounds the model
  MaxAwaits,        \* number of answers one handler waits for
  AwaitLimit,       \* the longest wait for one of them (agent_timeout_seconds)
  Ttl,              \* SESSION_TTL
  PromotedTail      \* number of messages promote_session keeps

Requests == 1..MaxRequests
None     == 0                     \* no object under a session id

ASSUME SessionIdsAssumption == SessionIds # {}
ASSUME CustomersAssumption == DefaultCustomer \in Customers /\ Nobody \notin Customers
ASSUME BoundsAssumption ==
  {MaxRequests, MaxInFlight, MaxObjects, MaxTime, MaxAwaits, AwaitLimit, Ttl, PromotedTail} \subseteq Nat
\* A handler is answered in minutes, a session lives for 30.
ASSUME TtlAssumption == MaxAwaits * AwaitLimit < Ttl

(* said is the number of session.messages: a message is its position.       *)
(* slots is the set of requests whose tasks have a slot_memory: the tasks   *)
(* that one handler runs are not told apart.                                *)
Object == [sid     : SessionIds,
           cust    : Customers,
           said    : Nat,
           expires : Nat,
           slots   : SUBSET Requests]

(* A long-term memory entry: its memory_type, the session object it is of,  *)
(* and the message or the task. A customer's facts are a bag of entries:    *)
(* only recall looks at their order.                                        *)
Facts == {"session_message", "task_slot_memory", "task_completion"} \X Nat \X Nat

VARIABLES
  now,      \* the clock
  objects,  \* every SessionState made so far
  store,    \* session_store._sessions: the current object of each session id
  memory,   \* long_term_memory: the facts of each customer
  handler   \* of each request, its place and its locals

vars == <<now, objects, store, memory, handler>>

Handler == [pc     : {"new", "resolved", "waiting", "ended"},
            kind   : {"message", "action"},
            sid    : SessionIds,
            cust   : Customers,
            holds  : Nat,         \* the object in the local `session`
            since  : Nat,         \* the start of the present await
            awaits : Nat]         \* answers waited for

TypeOK ==
  /\ now \in Nat
  /\ objects \in Seq(Object)
  /\ store \in [SessionIds -> 0..Len(objects)]
  /\ \A c \in Customers : IsABag(memory[c]) /\ DOMAIN memory[c] \subseteq Facts
  /\ handler \in [Requests -> Handler]
  /\ \A r \in Requests : handler[r].pc = "waiting" => handler[r].holds \in 1..Len(objects)

\* A request that has no handler: its locals do not matter.
AtRest(pc) == [pc     |-> pc,
               kind   |-> "message",
               sid    |-> CHOOSE s \in SessionIds : TRUE,
               cust   |-> DefaultCustomer,
               holds  |-> None,
               since  |-> 0,
               awaits |-> 0]

Init ==
  /\ now = 0
  /\ objects = <<>>
  /\ store = [s \in SessionIds |-> None]
  /\ memory = [c \in Customers |-> EmptyBag]
  /\ handler = [r \in Requests |-> AtRest("new")]

-----------------------------------------------------------------------------
(* Operations of the store.                                                 *)

NewSession(s, c) == [sid     |-> s,
                     cust    |-> c,
                     said    |-> 0,
                     expires |-> now + Ttl,
                     slots   |-> {}]

Expired(o) == now >= objects[o].expires

(* What get_or_create finds under an id: a session of the customer, which   *)
(* is current, or has ended.                                                *)
FoundForAny(s, c) == store[s] # None                  \* mutant of Found
Found(s, c) == store[s] # None /\ objects[store[s]].cust = c

CurrentForever(s, c) == Found(s, c)                   \* mutant of Current
Current(s, c) == Found(s, c) /\ ~Expired(store[s])

Ended(s, c) == Found(s, c) /\ Expired(store[s])

SaysUntouched(obj) == [obj EXCEPT !.said = @ + 1]  \* mutant of Says

\* session.messages.append and session.touch.
Says(obj) == [obj EXCEPT !.said = @ + 1, !.expires = now + Ttl]

\* promote_session: the last messages, and the slots of every task.
Promotable(o) ==
  LET said == objects[o].said
  IN  {<<"session_message", o, i>> : i \in {n \in 1..said : n + PromotedTail > said}}
        \cup {<<"task_slot_memory", o, r>> : r \in objects[o].slots}

\* CustomerMemory.remember, of each of a set of entries.
Remembering(c, new) == [memory EXCEPT ![c] = @ (+) SetToBag(new)]

(* get_or_create: the object a handler is given, the objects there are then *)
(* and what was promoted.                                                   *)
Given(s, c)        == IF Current(s, c) THEN store[s] ELSE Len(objects) + 1
ObjectsAfter(s, c) == IF Current(s, c) THEN objects ELSE Append(objects, NewSession(s, c))

\* mutant of MemoryAfter
PromotedToRequester(s, c) ==
  IF store[s] # None /\ Expired(store[s]) THEN Remembering(c, Promotable(store[s])) ELSE memory

MemoryAfter(s, c) ==
  IF Ended(s, c) THEN Remembering(objects[store[s]].cust, Promotable(store[s])) ELSE memory

-----------------------------------------------------------------------------
(* The endpoints (router_api/routes/sessions.py).                           *)

\* POST /sessions, with an id that may be in use or with a new one.
CreateSession(s, c) ==
  /\ Len(objects) < MaxObjects
  /\ objects' = Append(objects, NewSession(s, c))
  /\ store' = [store EXCEPT ![s] = Len(objects) + 1]
  /\ UNCHANGED <<now, memory, handler>>

UnresolvedCustomer(s, given) == given                 \* mutant of CustomerOf

\* _resolve_message_cust_id, _resolve_action_cust_id.
CustomerOf(s, given) ==
  IF given # Nobody THEN given
  ELSE IF store[s] # None THEN objects[store[s]].cust
  ELSE DefaultCustomer

(* A message or an action is posted. A streaming endpoint only resolves the *)
(* customer now: the handler starts with the stream, in a task of its own.  *)
Post(r, kind, s, given) ==
  /\ handler[r].pc = "new"
  /\ \A q \in Requests : q < r => handler[q].pc # "new"
  /\ Cardinality({q \in Requests : handler[q].pc \in {"resolved", "waiting"}}) < MaxInFlight
  /\ handler' = [handler EXCEPT ![r].pc   = "resolved",
                                ![r].kind = kind,
                                ![r].sid  = s,
                                ![r].cust = CustomerOf(s, given)]
  /\ UNCHANGED <<now, objects, store, memory>>

(***************************************************************************)
(* A handler that has been answered awaits something else, or returns the  *)
(* snapshot of the store's object, which the store always has. An await is *)
(* a call of the recognizer, the cancellation of a task, or a whole stream.*)
(***************************************************************************)
Onward(r, o) ==
  \/ /\ handler[r].awaits < MaxAwaits
     /\ handler' = [handler EXCEPT ![r].pc     = "waiting",
                                   ![r].holds  = o,
                                   ![r].since  = now,
                                   ![r].awaits = @ + 1]
  \/ handler' = [handler EXCEPT ![r] = AtRest("ended")]

\* handle_user_message and handle_action, up to their first await.
Start(r) ==
  LET s == handler[r].sid
      c == handler[r].cust
      o == Given(s, c)
  IN  /\ handler[r].pc = "resolved"
      /\ o <= MaxObjects
      /\ objects' = IF handler[r].kind = "message"
                      THEN [ObjectsAfter(s, c) EXCEPT ![o] = Says(@)]
                      ELSE ObjectsAfter(s, c)
      /\ store' = [store EXCEPT ![s] = o]
      /\ memory' = MemoryAfter(s, c)
      /\ Onward(r, o)
      /\ UNCHANGED now

-----------------------------------------------------------------------------
(* What happens while a handler waits.                                      *)

\* The agent sends slot values and goes on: task.slot_memory.update.
AgentFillsSlots(r) ==
  /\ handler[r].pc = "waiting"
  /\ objects' = [objects EXCEPT ![handler[r].holds].slots = @ \cup {r}]
  /\ UNCHANGED <<now, store, memory, handler>>

(* The chunk that concludes the task: _handle_agent_chunk, where a chunk    *)
(* with content is a message, and a completed task's slots are remembered.  *)
AgentConcludes(r, status, content) ==
  LET o == handler[r].holds
  IN  /\ handler[r].pc = "waiting"
      /\ objects' = IF content THEN [objects EXCEPT ![o] = Says(@)] ELSE objects
      /\ memory' = IF status = "completed" /\ r \in objects[o].slots
                     THEN Remembering(objects[o].cust, {<<"task_completion", o, r>>})
                     ELSE memory
      /\ Onward(r, o)
      /\ UNCHANGED <<now, store>>

\* agent_timeout_seconds: _fail_task, which always leaves a message.
TaskTimesOut(r) == AgentConcludes(r, "failed", TRUE)

\* The recognizer or a cancelled agent answers.
Answered(r) ==
  /\ handler[r].pc = "waiting"
  /\ Onward(r, handler[r].holds)
  /\ UNCHANGED <<now, objects, store, memory>>

\* The client drops a stream: its handler is cancelled, if it has started.
Disconnect(r) ==
  /\ handler[r].pc \in {"resolved", "waiting"}
  /\ handler' = [handler EXCEPT ![r] = AtRest("ended")]
  /\ UNCHANGED <<now, objects, store, memory>>

\* Time passes, but for no handler beyond the limit of its await.
Tick ==
  /\ now < MaxTime
  /\ \A r \in Requests : handler[r].pc = "waiting" => now < handler[r].since + AwaitLimit
  /\ now' = now + 1
  /\ UNCHANGED <<objects, store, memory, handler>>

Next ==
  \/ \E s \in SessionIds, c \in Customers : CreateSession(s, c)
  \/ \E r \in Requests, kind \in {"message", "action"}, s \in SessionIds,
        given \in Customers \cup {Nobody} : Post(r, kind, s, given)
  \/ \E r \in Requests : Start(r)
  \/ \E r \in Requests : AgentFillsSlots(r)
  \/ \E r \in Requests, status \in {"waiting_user_input", "completed"}, content \in BOOLEAN :
       AgentConcludes(r, status, content)
  \/ \E r \in Requests : TaskTimesOut(r)
  \/ \E r \in Requests : Answered(r)
  \/ \E r \in Requests : Disconnect(r)
  \/ Tick

Spec == Init /\ [][Next]_vars

-----------------------------------------------------------------------------
(* Properties.                                                              *)

(* A customer's long-term memory holds entries of that customer's sessions  *)
(* only, whoever's session has had the same id before or after.             *)
MemoryIsOwn ==
  \A c \in Customers : \A f \in DOMAIN memory[c] :
    f[2] \in 1..Len(objects) /\ objects[f[2]].cust = c

(* A message, or the slots of a task, is promoted to long-term memory once, *)
(* although handlers go on with a session after it was promoted.            *)
PromotedOnce ==
  \A c \in Customers : \A f \in DOMAIN memory[c] :
    f[1] # "task_completion" => memory[c][f] = 1

(* A handler works on a session of the id and the customer its request      *)
(* named or was resolved to, also when the store's object was replaced      *)
(* between the two.                                                         *)
WorksOnOwnSession ==
  \A r \in Requests :
    handler[r].pc = "waiting" =>
      /\ objects[handler[r].holds].cust = handler[r].cust
      /\ objects[handler[r].holds].sid = handler[r].sid

(* While the handler of a message waits, its session does not expire: no    *)
(* other request of the customer gets the session promoted under it. The    *)
(* handler of an action has no such guarantee, since it does not touch.     *)
MessageHoldsSession ==
  \A r \in Requests :
    handler[r].pc = "waiting" /\ handler[r].kind = "message" => ~Expired(handler[r].holds)

(* An expired session that is replaced in the store has been promoted to    *)
(* its customer's long-term memory (docs/intent-router-prd.md:479).         *)
ExpiredIsPromoted ==
  [][\A s \in SessionIds :
       store[s] # None /\ store'[s] # store[s] /\ Expired(store[s]) =>
         Promotable(store[s]) \subseteq DOMAIN memory'[objects[store[s]].cust]]_vars
=============================================================================
