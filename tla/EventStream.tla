----------------------------- MODULE EventStream ------------------------------
(***************************************************************************)
(* The event broker (router_api/sse/broker.py) and the three endpoints     *)
(* that stream events (router_api/routes/sessions.py). A relay is the      *)
(* stream of a message or an action: it runs the request's handler as a    *)
(* task and forwards the events of the session until that task is done. A  *)
(* listener is a stream of /events: it reads a subscription, which is a    *)
(* generator of its own, in waits of 100 ms.                               *)
(***************************************************************************)
EXTENDS Naturals, Sequences

CONSTANTS
  Sessions,   \* session ids
  NoSession,  \* the session of a stream that is not open
  Relays,     \* streams of /messages/stream and /actions/stream
  Listeners,  \* streams of /events
  Posts,      \* requests to /messages and /actions, which stream nothing
  Leavers,    \* streams whose clients may go away before the end
  MaxEvents,  \* events one handler publishes; bounds the model
  MaxHearts,  \* heartbeats one listener is sent; bounds the model
  ShortWait,  \* the wait of stream_events for the subscription, 0.1 s
  Heartbeat,  \* heartbeat_interval_seconds
  MaxIdle     \* max_idle_seconds

Streams  == Relays \cup Listeners
Handlers == Relays \cup Posts
Clients  == Streams \cup Posts
Events   == Handlers \X (1..MaxEvents)

ASSUME StreamsAssumption == 
  /\ Relays \cap Listeners = {}
  /\ Streams \cap Posts = {}
  /\ NoSession \notin Sessions
  /\ Leavers \subseteq Streams
ASSUME BoundsAssumption  == {MaxEvents, MaxHearts, MaxIdle} \subseteq Nat
ASSUME WaitsAssumption   == {ShortWait, Heartbeat} \subseteq Nat \ {0}

VARIABLES
  table,    \* broker._queues: for some sessions, the streams that have a queue
  queue,    \* the queue of each stream
  at,       \* the session of each client
  pc,       \* where each stream is
  handler,  \* the orchestrator's handler of each request
  events,   \* how many events each handler has published
  waited,   \* how long each listener has waited for its subscription
  idle,     \* time since the last event of a subscription (last_activity)
  hearts,   \* heartbeats each listener was sent
  connected \* whether each client is still there

\* History: what was published, where a stream joined, what it carried.
VARIABLES log, from, got

clocks == <<waited, idle, hearts>>
vars == <<table, queue, at, pc, handler, events, waited, idle, hearts, connected, log, from, got>>

(***************************************************************************)
(* A stream that is open is at the top of its loop ("check") or waits for  *)
(* an event ("get"). A listener that was sent the first heartbeat has no   *)
(* subscription yet ("greeted"); at "cut" its subscription was cancelled   *)
(* together with the wait for it. A stream ends "complete" or "dropped".   *)
(***************************************************************************)
Open   == {"check", "get"}
Ended  == {"complete", "dropped"}
Places == {"new", "greeted", "cut"} \cup Open \cup Ended

TypeOK ==
  /\ DOMAIN table \subseteq Sessions
  /\ \A s \in DOMAIN table : table[s] \subseteq Streams
  /\ queue \in [Streams -> Seq(Events)]
  /\ at \in [Clients -> Sessions \cup {NoSession}]
  /\ pc \in [Streams -> Places]
  /\ handler \in [Handlers -> {"none", "running", "done", "raised", "cancelled"}]
  /\ events \in [Handlers -> 0..MaxEvents]
  /\ waited \in [Listeners -> Nat]
  /\ idle \in [Listeners -> Nat]
  /\ hearts \in [Listeners -> 0..MaxHearts]
  /\ connected \in [Streams -> BOOLEAN]
  /\ log \in [Sessions -> Seq(Events)]
  /\ from \in [Streams -> Nat]
  /\ got \in [Streams -> Seq(Events)]

Init ==
  /\ table = [s \in {} |-> {}]
  /\ queue = [x \in Streams |-> <<>>]
  /\ at = [x \in Clients |-> NoSession]
  /\ pc = [x \in Streams |-> "new"]
  /\ handler = [h \in Handlers |-> "none"]
  /\ events = [h \in Handlers |-> 0]
  /\ waited = [l \in Listeners |-> 0]
  /\ idle = [l \in Listeners |-> 0]
  /\ hearts = [l \in Listeners |-> 0]
  /\ connected = [x \in Streams |-> TRUE]
  /\ log = [s \in Sessions |-> <<>>]
  /\ from = [x \in Streams |-> 0]
  /\ got = [x \in Streams |-> <<>>]

-----------------------------------------------------------------------------
(* The broker.                                                              *)

(* self._queues[session_id]: the table is a defaultdict. Its lists of       *)
(* queues are sets here: a stream registers once, and a queue only lends    *)
(* its identity.                                                            *)
Subscribers(s) == IF s \in DOMAIN table THEN table[s] ELSE {}

WithEntry(s, streams) ==
  [t \in DOMAIN table \cup {s} |-> IF t = s THEN streams ELSE table[t]]

WithEntryNone(s) == WithEntry(s, {NoSession})         \* mutant of WithoutEntry

WithoutEntry(s) == [t \in DOMAIN table \ {s} |-> table[t]]

Register(x, s) ==
  /\ table' = WithEntry(s, Subscribers(s) \cup {x})
  /\ queue' = [queue EXCEPT ![x] = <<>>]
  /\ from' = [from EXCEPT ![x] = Len(log[s])]
  /\ UNCHANGED <<log, got>>

UnregisterAll(x) ==                                   \* mutant of Unregister
  /\ table' = IF at[x] \in DOMAIN table THEN WithoutEntry(at[x]) ELSE table
  /\ queue' = [queue EXCEPT ![x] = <<>>]

Unregister(x) ==
  LET left == Subscribers(at[x]) \ {x}
  IN  /\ table' = IF at[x] \notin DOMAIN table THEN table
                  ELSE IF left = {} THEN WithoutEntry(at[x])
                  ELSE WithEntry(at[x], left)
      /\ queue' = [queue EXCEPT ![x] = <<>>]

\* publish: no put waits, the queues being unbounded.
Publish(s, e) ==
  /\ table' = WithEntry(s, Subscribers(s))
  /\ queue' = [x \in Streams |-> IF x \in Subscribers(s) THEN Append(queue[x], e) ELSE queue[x]]
  /\ log' = [log EXCEPT ![s] = Append(@, e)]
  /\ UNCHANGED <<from, got>>

\* queue.get, and the event is sent to the client.
Carry(x) ==
  /\ queue[x] # <<>>
  /\ queue' = [queue EXCEPT ![x] = Tail(@)]
  /\ got' = [got EXCEPT ![x] = Append(@, Head(queue[x]))]
  /\ UNCHANGED <<table, log, from>>

-----------------------------------------------------------------------------
(* The handlers.                                                            *)

\* post_message, post_action: the handler runs within the request.
PostArrives(p, s) ==
  /\ handler[p] = "none"
  /\ at' = [at EXCEPT ![p] = s]
  /\ handler' = [handler EXCEPT ![p] = "running"]
  /\ UNCHANGED <<table, queue, pc, events, clocks, connected, log, from, got>>

HandlerPublishes(h) ==
  /\ handler[h] = "running"
  /\ events[h] < MaxEvents
  /\ Publish(at[h], <<h, events[h] + 1>>)
  /\ events' = [events EXCEPT ![h] = @ + 1]
  /\ UNCHANGED <<at, pc, handler, clocks, connected>>

\* It returns, or raises (an action that is not supported, an LLM error).
HandlerEnds(h) ==
  /\ handler[h] = "running"
  /\ \E outcome \in {"done", "raised"} : handler' = [handler EXCEPT ![h] = outcome]
  /\ UNCHANGED <<table, queue, at, pc, events, clocks, connected, log, from, got>>

-----------------------------------------------------------------------------
(* post_message_stream and post_action_stream.                              *)

OpenRelay(r, s) ==
  /\ pc[r] = "new"
  /\ Register(r, s)
  /\ at' = [at EXCEPT ![r] = s]
  /\ pc' = [pc EXCEPT ![r] = "check"]
  /\ handler' = [handler EXCEPT ![r] = "running"]
  /\ UNCHANGED <<events, clocks, connected>>

\* Mutants of Finished: the queue is forgotten, a handler that raised is.
FinishedEarly(r)  == handler[r] \in {"done", "raised"}
FinishedIfDone(r) == handler[r] = "done" /\ queue[r] = <<>>

Finished(r) == handler[r] \in {"done", "raised"} /\ queue[r] = <<>>

\* The top of the loop. An exception of the handler is raised here as well.
RelayChecks(r) ==
  /\ pc[r] = "check"
  /\ connected[r]
  /\ IF Finished(r)
       THEN /\ Unregister(r)
            /\ pc' = [pc EXCEPT ![r] = "complete"]
       ELSE /\ pc' = [pc EXCEPT ![r] = "get"]
            /\ UNCHANGED <<table, queue>>
  /\ UNCHANGED <<at, handler, events, clocks, connected, log, from, got>>

RelayTakes(r) ==
  /\ pc[r] = "get"
  /\ Carry(r)
  /\ pc' = [pc EXCEPT ![r] = "check"]
  /\ UNCHANGED <<at, handler, events, clocks, connected>>

RelayTimesOut(r) ==
  /\ pc[r] = "get"
  /\ queue[r] = <<>>
  /\ pc' = [pc EXCEPT ![r] = "check"]
  /\ UNCHANGED <<table, queue, at, handler, events, clocks, connected, log, from, got>>

-----------------------------------------------------------------------------
(* stream_events and subscribe.                                             *)

OpenListener(l, s) ==
  /\ pc[l] = "new"
  /\ at' = [at EXCEPT ![l] = s]
  /\ pc' = [pc EXCEPT ![l] = "greeted"]
  /\ UNCHANGED <<table, queue, handler, events, clocks, connected, log, from, got>>

(* subscription.__anext__() is called. The first call starts the generator, *)
(* and only that registers a queue.                                         *)
ListenerReads(l) ==
  /\ pc[l] \in {"greeted", "check"}
  /\ connected[l]
  /\ IF pc[l] = "greeted" THEN Register(l, at[l])
                          ELSE UNCHANGED <<table, queue, log, from, got>>
  /\ pc' = [pc EXCEPT ![l] = "get"]
  /\ UNCHANGED <<at, handler, events, clocks, connected>>

ListenerTakes(l) ==
  /\ pc[l] = "get"
  /\ Carry(l)
  /\ pc' = [pc EXCEPT ![l] = "check"]
  /\ waited' = [waited EXCEPT ![l] = 0]
  /\ idle' = [idle EXCEPT ![l] = 0]
  /\ UNCHANGED <<at, handler, events, hearts, connected>>

\* The wait of subscribe ends: a heartbeat, or after too long the end.
ListenerBeats(l) ==
  /\ pc[l] = "get"
  /\ queue[l] = <<>>
  /\ waited[l] >= Heartbeat
  /\ \/ /\ idle[l] < MaxIdle
        /\ hearts[l] < MaxHearts
        /\ hearts' = [hearts EXCEPT ![l] = @ + 1]
        /\ pc' = [pc EXCEPT ![l] = "check"]
        /\ UNCHANGED <<table, queue>>
     \/ /\ idle[l] >= MaxIdle
        /\ Unregister(l)
        /\ pc' = [pc EXCEPT ![l] = "dropped"]
        /\ UNCHANGED hearts
  /\ waited' = [waited EXCEPT ![l] = 0]
  /\ UNCHANGED <<at, handler, events, idle, connected, log, from, got>>

(* The wait of stream_events ends: wait_for cancels the generator, whose    *)
(* finally clause unregisters; the timeout itself is passed over ...        *)
ListenerIsCut(l) ==
  /\ pc[l] = "get"
  /\ queue[l] = <<>>
  /\ waited[l] >= ShortWait
  /\ Unregister(l)
  /\ pc' = [pc EXCEPT ![l] = "cut"]
  /\ waited' = [waited EXCEPT ![l] = 0]
  /\ UNCHANGED <<at, handler, events, idle, hearts, connected, log, from, got>>

\* ... and the next read of the generator raises StopAsyncIteration.
ListenerStops(l) ==
  /\ pc[l] = "cut"
  /\ pc' = [pc EXCEPT ![l] = "dropped"]
  /\ UNCHANGED <<table, queue, at, handler, events, clocks, connected, log, from, got>>

\* Time passes for a listener that waits, up to the first of its timers.
Tick(l) ==
  /\ pc[l] = "get"
  /\ waited[l] < ShortWait
  /\ waited[l] < Heartbeat
  /\ waited' = [waited EXCEPT ![l] = @ + 1]
  /\ idle' = [idle EXCEPT ![l] = IF @ < MaxIdle THEN @ + 1 ELSE @]
  /\ UNCHANGED <<table, queue, at, pc, handler, events, hearts, connected, log, from, got>>

-----------------------------------------------------------------------------
(* Clients that go away.                                                    *)

Disconnect(x) ==
  /\ x \in Leavers
  /\ connected[x]
  /\ pc[x] \in {"greeted"} \cup Open
  /\ connected' = [connected EXCEPT ![x] = FALSE]
  /\ UNCHANGED <<table, queue, at, pc, handler, events, clocks, log, from, got>>

HandlerLeft(x) == handler                             \* mutant of HandlerCancelled

HandlerCancelled(x) ==
  IF x \in Relays /\ handler[x] = "running" THEN [handler EXCEPT ![x] = "cancelled"]
                                           ELSE handler

(* The generator sees it at the top of its loop, or is cancelled where it   *)
(* waits: the finally clause runs, and cancels a handler that is not done.  *)
StreamDropped(x) ==
  /\ ~connected[x]
  /\ pc[x] \in {"greeted"} \cup Open
  /\ IF pc[x] \in Open
       THEN Unregister(x) /\ UNCHANGED at
       ELSE at' = [at EXCEPT ![x] = NoSession] /\ UNCHANGED <<table, queue>>
  /\ pc' = [pc EXCEPT ![x] = "dropped"]
  /\ handler' = HandlerCancelled(x)
  /\ UNCHANGED <<events, clocks, connected, log, from, got>>

-----------------------------------------------------------------------------

RelayStep(r)    == RelayChecks(r) \/ RelayTakes(r) \/ RelayTimesOut(r)
ListenerStep(l) == ListenerReads(l) \/ ListenerTakes(l) \/ ListenerStops(l)

Next ==
  \/ \E r \in Relays, s \in Sessions : OpenRelay(r, s)
  \/ \E l \in Listeners, s \in Sessions : OpenListener(l, s)
  \/ \E p \in Posts, s \in Sessions : PostArrives(p, s)
  \/ \E h \in Handlers : HandlerPublishes(h) \/ HandlerEnds(h)
  \/ \E r \in Relays : RelayStep(r)
  \/ \E l \in Listeners : ListenerStep(l) \/ ListenerBeats(l) \/ ListenerIsCut(l) \/ Tick(l)
  \/ \E x \in Streams : Disconnect(x) \/ StreamDropped(x)

(* The event loop runs what is ready. Nobody has to open a stream or go     *)
(* away, and no handler has to publish or to end.                           *)
Fairness ==
  /\ \A r \in Relays : WF_vars(RelayStep(r))
  /\ \A l \in Listeners : WF_vars(ListenerStep(l))
  /\ \A x \in Streams : WF_vars(StreamDropped(x))

Spec == Init /\ [][Next]_vars /\ Fairness

-----------------------------------------------------------------------------
(* Properties.                                                              *)

(* No handler outlives the stream it was started for: it is done before the *)
(* stream completes, and cancelled with a stream that is dropped.           *)
HandlerEndsWithStream ==
  \A r \in Relays : pc[r] \in Ended => handler[r] # "running"

(* Through all openings, ends, timeouts and drops, the broker holds a queue *)
(* of a stream exactly as long as the stream reads it.                      *)
QueueGoesWithStream ==
  \A s \in Sessions : Subscribers(s) = {x \in Streams : at[x] = s /\ pc[x] \in Open}

(* The relay of a handler that is done, or that raised, ends: the loop that *)
(* polls the queue and the handler every 100 ms does not miss the end.      *)
RelayEnds ==
  \A r \in Relays : handler[r] \in {"done", "raised"} ~> pc[r] \in Ended

(* The streams carry what EventChannel promises: in order and without a gap *)
(* what was published since they registered, all of it when they complete,  *)
(* and a stream that goes on does not leave an event in its queue.          *)
ChannelState(x) ==
  CASE pc[x] \in {"new", "greeted"} -> "out"
    [] pc[x] \in Open -> "in"
    [] pc[x] = "complete" -> "complete"
    [] OTHER -> "dropped"

JoinedSession(x) == IF ChannelState(x) = "out" THEN NoSession ELSE at[x]

Channel == INSTANCE EventChannel WITH
             state  <- [x \in Streams |-> ChannelState(x)],
             joined <- [x \in Streams |-> JoinedSession(x)]

ImplementsChannel == Channel!Spec

(* A subscription ends by itself only after the idle limit: until then it   *)
(* is kept open with heartbeats (docs/task.md:62).                          *)
SubscriptionLasts ==
  \A l \in Listeners : pc[l] = "dropped" /\ connected[l] => idle[l] >= MaxIdle
=============================================================================
