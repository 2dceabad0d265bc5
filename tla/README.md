# Verification of the intent router

The intent router takes a customer's messages, recognises the intents in them, and runs one agent per intent,
task by task. It is one Python process (`src/backend/src`): an asyncio loop that keeps every session in memory.
This directory models it in TLA+, checks it with TLC and proves part of it with TLAPS.

## Inventory

| Component | Source (under `src/backend/src`) | State it keeps | Operations |
|---|---|---|---|
| Router session | `router_core/domain.py`, `task_queue.py` | tasks with status, confidence, times; the pending plan with its items; `active_task_id` | touch, queue, sort, next runnable |
| Orchestrator | `router_core/orchestrator.py` | none of its own: locals of handlers across awaits | `handle_user_message`, `handle_action`, and all they call |
| Session store, long-term memory | `router_core/orchestrator.py` 24-118 | sessions by id with expiry, facts by customer | create, get, get_or_create, promote, recall |
| Endpoints | `router_api/routes/sessions.py` | one handler task per streaming request | messages, actions, both with `/stream`, `/events`, snapshot |
| Event broker | `router_api/sse/broker.py` | unbounded queues by session | register, unregister, publish, subscribe |
| Agent client | `router_core/agent_client.py` | slot memory of the task it streams for | stream, cancel |
| Recognizer | `router_core/recognizer.py`, `llm_client.py` | none | recognize |
| Intent catalog | `router_core/intent_catalog.py` | a snapshot of intents, fallback, priorities | reads that may refresh, `refresh_now` in a thread |
| Intent registry | `admin_api`, `persistence`, `models` | intents | create, update, delete, activate, deactivate |
| Intent agents | `intent_agents` | none: a request carries the slots | run, cancel |
| Wiring, web clients, deployment | `config`, `*/app.py`, `src/frontend`, `src/k8s` | | |

How they interact. A request enters by an endpoint, which calls the orchestrator's handler: directly, or as an
asyncio task whose events it relays and which it cancels when the client goes away. The handler gets the session
object from the store and keeps the reference. It awaits three things outside the process: the recognizer's LLM,
the agent's stream, the agent's answer to a cancellation. Nothing else suspends it, since publishing puts events on
unbounded queues. It reads the catalog's snapshot whenever it needs intents or priorities. The administrators' API
writes to the repository from which the catalog is refreshed, by a thread and on the event loop.

What is hard. There is no lock on a session: two requests of one session (two tabs, a button and a message, a retry)
interleave at every await, with locals read before it. A session object may be replaced in the store while a handler
works on it. Clients drop streams and agents stop without concluding. Messages may switch intent in the middle of a
task, a plan waits for its confirmation while its intents leave the catalog, and old cards keep their buttons. Slots
are filled, corrected and lost over many turns. Two refreshes and several administrators overlap. `PROJECT.json` lists
each hazard at its line.

What makes each component correct:

- Session and orchestrator: tasks run one at a time, closed tasks stay closed, nothing is stranded in the queue, a plan
  is decided once, its card is right and it ends when its tasks do, every request is answered.
- Session store: memory belongs to one customer, what expires is promoted, and once; a handler works on a session of
  its customer, which does not expire under it.
- Broker and endpoints: a stream carries the events of its session, in order, until the end; a relay ends with its
  handler; no queue and no handler outlives its stream.
- Catalog and registry: what a reader sees, and what a message is dispatched to, is of one state of the registry; the
  catalog catches up; no request in flight mixes two records or brings back a deleted one.
- Agents and agent client: an agent acts only on complete slots; a corrected value does not come back by itself; no
  response loses a slot; every turn ends.

## Modules

| Module | Models |
|---|---|
| `RouterSession` | the session as a record, and the pure operations on it: touch, the queue, the plan's progress, creation of tasks |
| `Orchestrator` | extends it with the handlers, what agents, recognizer and clients do to them, and the properties |
| `SessionStore` | the objects that succeed each other under a session id, long-term memory, and handlers that hold an object |
| `EventChannel` | abstract: a log of events per session, and streams that carry it from where they joined |
| `EventStream` | the broker, the relays of the two `/stream` endpoints and the listeners of `/events`; implements `EventChannel` |
| `IntentRegistry` | the administrators' endpoints on either repository |
| `IntentCatalog` | extends it with the catalog, its two refreshes, and a message that reads it three times |
| `AgentDialogue` | the turns of one task with its agent: corrections, agents, the agent client's chunks |
| `MCOrchestrator`, `MCIntentCatalog`, `MCAgentDialogue` | values of the constants for TLC |
| `RouterSessionProofs`, `OrchestratorProofs`, `OverlapProofs`, `SerialProofs` | lemmas, inductive invariants and theorems of `Orchestrator`, each module on top of the one before: types and decisions, requests that overlap, requests that do not |
| `SessionStoreProofs`, `EventStreamProofs`, `IntentCatalogProofs`, `AgentDialogueProofs` | the same for the other four |

Each of the five models cuts the system where little crosses: `Orchestrator` has tasks and plans but one session and
agents that send any status; `SessionStore` has many sessions but tasks only as slots; `EventStream` has handlers only
as publishers; `IntentCatalog` has a message only as reads; `AgentDialogue` has one task and no other request.

### `Orchestrator`

`session` is the `SessionState` all requests share. A task is named by the request that created it and its intent; `status`
gives its status, "none" before it exists. `born` is its position in `session.tasks` (tasks created together share it,
because their order is the recognizer's) and `at` is its `updated_at`, kept only while the task waits, which is when the
code compares it. `plan` is `pending_plan`, with the items as functions of the intent; its `id` stands for `plan_id` and
`confirm_token`, which are both fresh with every plan. `catalog` is the set of intent codes of the catalog's snapshot.

`req[r]` holds a request's place in its handler and the locals it keeps across an await:

| `pc` | The handler awaits |
|---|---|
| `recognizing` | the recognizer, in `_route_new_message` |
| `switching` | the recognizer, in `_maybe_switch_waiting_task`, with the waiting task in `task` |
| `cancelling` | the agent's answer, in `_cancel_task`; the rest of the two loops is in `todo` and `drop` |
| `streaming` | the agent's next chunk, in `_run_task` |
| `done`, `rejected`, `aborted` | nothing: returned, HTTP 400, cancelled with its stream |

An action is all the code of one request between two awaits. `HandleUserMessage` and `HandleAction` are the arrival of a
request; `Recognized`, `CancelAnswered`, `AgentChunk`, `StreamEnds` and `Timeout` are the answers; `Disconnect` is the
cancellation of the handler by its endpoint; `CatalogRefresh` is another snapshot. An operator with a request and a
session for parameters (`DrainQueue(r, q, s)`, `AfterRun`, `DispatchRecognition`) is the rest of the handler from
that point on: it ends with `Return` or `Await`. `_drain_queue` is thus one turn per action, because running a task awaits
its agent.

Abstractions:

- A message is what the handler asks of its text (`Messages`): a confirming word, a cancelling term alone or with
  more, something that looks like a slot value without an explicit switch. Contents, payloads and events are left out.
- A recognition is any assignment of confidences to the intents the recognizer was shown; `PrimaryThreshold` stands for
  the intents' own thresholds, `SwitchThreshold` for `intent_switch_threshold`.
- An agent may send any status in `AgentStatuses`, any number of times. A connection error, an HTTP error and a payload
  that cannot be parsed all reach the handler as a failed chunk; a failed chunk and a timeout have the same effect.
- A failed notification of a cancellation is logged and ignored by the code, so it is not told from a successful one.
- Clocks are logical. Two tasks are never touched at the same instant.
- One step reads one snapshot of the catalog; `IntentCatalog` has the several reads. But each read may fail
  (`CatalogRaises`): `DrainQueue`, `DispatchRecognition`, `ConfirmPendingPlan` and `HandleUserMessage` end there, and
  what they did before stays.
- One session, one customer, no expiry; `SessionStore` has those.

### `SessionStore`

`objects` lists every `SessionState` ever made, so that a handler's reference is a position in it; `store` gives the
current one of each id. An object has its owner, its expiry, the number of its messages and the requests whose task has
slots. `memory` gives each customer a bag of facts, each of them a kind, an object, and a message or a task, so that one
remembered twice shows. `handler[r]` has a request's place: "resolved" between the endpoint that worked out the
customer and the task that runs the handler, "waiting" at an await with the object in `holds`.

`Start` is a handler up to its first await, with all of `get_or_create`. `AgentFillsSlots`, `AgentConcludes`,
`TaskTimesOut` and `Answered` are the answers; after each the handler awaits something else or returns (`Onward`).
`CreateSession` is `POST /sessions`. `Tick` lets time pass, but not beyond `AwaitLimit` for a handler that waits: the
code limits each await, and the event loop is taken to run a handler that is due before the clock's next tick.

Abstractions. A handler makes any sequence of at most `MaxAwaits` awaits, whatever it asks of the tasks; the tasks it
runs are not told apart. The order of a customer's facts is left out, since only `recall` depends on it.

### `EventStream` and `EventChannel`

`table` is the broker's `_queues`, with the streams that have a queue in place of the queues: a stream registers once,
and the order in a list only decides which stream gets an event first within one `publish`. It keeps the entries that
`publish` makes by reading a `defaultdict`. `queue[x]` is what is on the queue of a stream. `pc[x]` is the place of a
stream in its loop. A listener's subscription is a generator of its own, which registers only when it is read first
(`greeted`) and is cancelled with the endpoint's wait for it (`cut`). `waited` and `idle` count time against the three
timers, `ShortWait`, `Heartbeat` and `MaxIdle`. `log`, `from` and `got` are history.

The refinement maps `pc` to the channel's states: a stream is out until it has a queue, in while it is open, and
complete or dropped at its end; a listener's end is a drop, for nothing ever completes it. The other variables are
mapped to themselves. `Publish`, the registration, the taking of an event and the ends are the channel's steps; all
else is a stutter.

Abstractions. An event is the handler that published it and a number. A relay with a client that is gone is ended at
the top of its loop or where it waits; both run the same `finally` clause. `wait_for` on a queue loses no event: an
event that is there is taken before the timeout.

### `IntentRegistry` and `IntentCatalog`

`history` lists the states the registry has been in; `Present` is the last. `backend` says which repository is in use. In
memory an operation is one step, for it holds the lock; an activation is two, since it reads before it writes. In a
database an update is a read of the row and a commit of the columns that changed (`Merged`), which fails when the row is
gone or its new key is taken. `admin[a]` has the place of such a request and its locals.

`snapshot` is `_snapshot`. `thread` and `loop` hold what a refresh has read and not yet installed: the thread's in
`run_intent_catalog_refresh` and the event loop's in `_refresh_if_needed`. The latter blocks the loop, so the
message does nothing meanwhile, but the thread and the administrators may. `dispatch` is a message between its reads of
the catalog: the intents shown to the recognizer, the fallback, the active intents of the dispatch. A refresh may come
before any read, which stands for the elapsed interval.

Abstractions. Descriptive fields are `Fields` with `Values`. Which fallback comes first among equals is left open.
The times of a record and the text patterns are left out. The intents that are open already are none.

### `AgentDialogue`

`task` has its kind of intent, the kind of agent that serves it, status, `slot_memory`, and its first message
(`initial_source_input`). `call` is the run of `_run_task`: the request was sent, its events arrive, or all is read; the
chunks not yet handled; the slots the request carried. `offered` is history: the values that answers have offered for
each slot since the user last corrected it.

`Drain` and `Resume` begin a turn; `Resume` clears what the message corrects (`ConflictingKeys`). `ServiceReplies` is
a service of `intent_agents` and the client that reads it, `SimulatorReplies` the one behind `mock://`; `JsonArrives`,
`EventArrives` and `StreamEnds` are any other agent. `ResponseRefused` is a status of 400 or above; `ResponseFails` and
`TimesOut` are the other faults. The agent client merges the slots of all the payloads of a text when it parses it, not
when the chunks are handled (`PayloadsToChunks`), and so do the actions. It merges nulls like values (`None`).

Abstractions. A message has the values it gives, the slots the orchestrator's patterns find in it (`cues`), which may be
more or fewer than those it gives, and whether the simulator's patterns find them too (`Forms`); or it is a number of
some length. The four slots stand for their prefixed names. The model behind a service reads the message with the
session's last messages and the customer's long-term memory, and the code does not restrict what it makes of them: it
fills any slots with any values, from before a correction or of another task among them, or with a text that normalizes
to none (`Resolutions`).

## Runs

| Run | Instance | Shows |
|---|---|---|
| `Sequential` | 4 requests one after the other, agents that run, wait, complete or fail, one catalog change, two confidences | tasks run serially (`OneTaskAtATime`), are closed for good (`ClosedStaysClosed`), one per intent (`OpenIntentsUnique`); between requests nothing is stranded (`AtRest`); a plan leaves only once decided or settled (`PlanLeavesSettled`) |
| `Concurrent` | 3 requests that overlap and may be dropped, agents that may just end, one catalog change, a repository that may fail in the second request | what survives all that: `PlanDecidedOnce`, `PlanCardHonest`, `MessageOpensNoDuplicate`, `QueueDiscipline` |
| `Overlap` | 3 requests that overlap, none dropped, agents that conclude, under fairness | `ExecutingIsDriven` and `EveryRequestAnswered` |
| `OverlapSerial` | 2 such requests | `OneTaskAtATime` is violated |
| `OverlapClosed` | 3 such requests | `ClosedStaysClosed` is violated |
| `StreamDropped` | 2 requests one after the other, streams may drop | `DroppedStreamClosesTask` is violated |
| `Store` | one session id, two customers, 2 of 3 requests in flight, sessions created over others and expiring | memory keeps to its owner (`MemoryIsOwn`) and holds nothing twice (`PromotedOnce`); handlers work on a session of theirs (`WorksOnOwnSession`), which a message keeps alive (`MessageHoldsSession`) |
| `ExpiredPromoted` | one request, a session created over an expired one | `ExpiredIsPromoted` is violated |
| `Streams` | a relay, a listener and a plain request on two sessions; clients go away, handlers raise | `ImplementsChannel`; relays end (`RelayEnds`); nothing outlives a stream (`HandlerEndsWithStream`, `QueueGoesWithStream`) |
| `QuietEvents` | a listener in a quiet session, timers in their deployed order | `SubscriptionLasts` is violated |
| `Catalog` | two intents, either repository, two changes, one administrator in several steps, both refreshes | `SnapshotIsWhole`, `DispatchIsWhole`, `RecordsAreWhole`, `NothingRevived`; the catalog catches up (`CatalogCatchesUp`) |
| `Dialogue` | three turns of each kind of intent with each kind of agent, seven messages, four payloads | services and the simulator act on complete slots within the balance (`ActsOnAllSlots`); a corrected value stays away unless an answer offers it again (`CorrectionHolds`); no answer or failure loses a slot (`SlotsKept`); turns end (`TurnEnds`) |

The first run of each module also checks its `TypeOK`.

Bounds of the runs of `Orchestrator`. All have two intents, the balance query before the transfer by priority, and the
fallback. Two intents are the least that make a plan, a switch and an order in the queue; the fallback adds a third task
of another kind. Four sequential requests reach a plan, its confirmation, the answer to the first task and a message to
the second; they also reach a plan cancelled by a switch and the dispatch after it. Three overlapping requests are the
least in which two work on a task or plan that the third left behind. `MaxRefreshes` lets an intent leave the catalog
between the recognition, the proposal and the confirmation. In `Concurrent` it is the second request that meets a
failing repository: it may confirm what the first proposed or be in the middle of its queue, and the third meets what it
left; with all three failing the run takes too long for a check. In `Sequential` a switch takes more confidence
(`SwitchThreshold`) than a recognition (`PrimaryThreshold`), as with the defaults, 0.80 over the intents' 0.62 to 0.75:
the two confidences lie one on each threshold, so an intent may be recognised without being a switch. `Concurrent` has
the thresholds the other way round, as in a deployment that lowers `intent_switch_threshold`: only there does
`_promote_switch_match` have something to promote. The theorems are for any thresholds. `Overlap` uses
`waiting_confirmation` and the other runs `waiting_user_input`; the handlers treat both alike.

Bounds of the others:

- `Store`: two objects under one id let a session expire, be replaced for the same or another customer, and a handler go
  on with the old one. `MaxTime` is twice `Ttl`, so that both objects may expire. One await per handler is enough to hold
  an object across a replacement. `AwaitLimit` is below `Ttl`, as a minute is below thirty.
- `Streams`: one event per handler and two handlers make two events in one queue; the third kind of client publishes
  when nobody listens. One stream of each kind share a session or not.
- `Catalog`: two changes let both refreshes and the message be of three different states. Both intents may become the
  fallback, and the catalog may be left with demo intents only.
- `Dialogue`: three turns give the slots, correct one, lose the answer or part of it, and go on. Two values per slot, one
  of them over the balance, tell the corrected value from the new one. One message has a false hit of the name's pattern,
  one a correction that no pattern finds; one payload has a null, and a text may hold two payloads.

Every run has `CHECK_DEADLOCK FALSE`: the number of requests, turns or changes is bounded, and the system stops when all
are done.

Fairness, which three modules put in `Spec` and `Orchestrator` in the specification of `Overlap`:

- `Orchestrator`: a request in flight is answered again and again, by the recognizer, by a cancelled agent, or by the
  timeout of its stream. The code has a time limit on each: the LLM client's, the HTTP client's, and
  `agent_timeout_seconds`. It is weak fairness of `Answered(r)` for each request, with `ENABLED Answered(r)` written as
  `InFlight(r)`; TLC evaluates the latter much faster.
- `EventStream`: the steps of a relay or a listener that the event loop runs by itself, and the end of a stream whose client
  is gone. Handlers need not end.
- `IntentCatalog`: the refreshing thread's two steps, since it is a loop that goes on after a failure. The refresh on
  the event loop, which needs a message, has none.
- `AgentDialogue`: the simulator, the handling of chunks that are there, and the timeout. Agents need not answer.

No client has to send a request or go away, no agent to send a chunk, no administrator to write.

## What the runs found

- Requests that overlap are not serialised (`orchestrator.py:447`): two messages run two tasks at once, although
  `docs/intent-router-prd.md:284` has V1 run them serially.
- A request that read the waiting task before it awaited the recognizer resumes it whatever became of it
  (`orchestrator.py:189`): a task another message cancelled runs again, and may complete.
- A dropped stream cancels only the handler (`sessions.py:243`). Its task stays running for good: it is neither queued nor
  waiting, so nothing picks it up, and being open it keeps its intent from being dispatched again. `docs/task.md:61`
  asks for the cancellation; `cancel_waiting_tasks` has no caller.
- `POST /sessions` over an expired session drops it (`orchestrator.py:98`), and none of it is promoted as
  `docs/intent-router-prd.md:479` asks. So does a request of another customer (`orchestrator.py:110`).
- `/events` closes after the first 100 ms without an event (`sessions.py:283`): the endpoint's short wait cancels the
  subscription it waits for. The heartbeats and idle limit of `docs/task.md:62` are never reached.

Observed while modelling, without a sentence in the repository that says otherwise:

- Two updates that overlap in the database may leave a record of which each wrote some columns, and an activation writes
  back the whole of what it read, over an update in between. `RecordsAreWhole` holds in memory only.
- The simulator reads the task's first message again for a name or amount a later message does not give: a corrected one
  is overwritten by the first. `CorrectionHolds` leaves the simulator out.
- Agents are sent the session's last messages and the customer's long-term memory (`orchestrator.py:281`,
  `context_builder.py:9`). A model may fill a slot from there, with a value from before a correction or of another task.
  `backend/tests/test_router_api.py:1126` counts on that; `docs/意图设计.md:97` proposes that agents should not use the
  transcript so. No property here rules it out: `CorrectionHolds` says what the router itself does.
- A value that the user corrects in words the patterns do not find is not cleared, and stays if the model misses the new
  one; and a pattern that hits other text clears a slot nobody corrected. `CorrectionHolds` is about what is found.
- A repository that fails when the catalog is due for a refresh ends the handler: created and queued tasks stay as they
  are until a later message is dispatched (`AtRest` does not hold with `CatalogFailsFor`). If that message proposes a
  plan, it takes the place of one under way whose tasks were left (nor does `PlanLeavesSettled`, with three intents). A
  confirmed plan all of whose intents left the catalog, whose confirmation fails after that, stays running with nothing
  to run, which `PlanCardHonest` excepts.
- A JSON response with an empty list of events leaves its task running, as a stream that just ends does.
- A session nobody listens to leaves an empty entry in the broker's table with its first event, for good.

## Proofs

All theorems hold for all values of the constants that satisfy the assumptions in the modules: names that do not
collide, natural numbers for the bounds, and for `SessionStore` that the awaits of a handler take less time than a session
lives (`TtlAssumption`). Nothing else is assumed to be finite. What a theorem supposes beyond that stands in its
`ASSUME` and in the table.

| Module | Theorems: `Spec =>` | Supposing |
|---|---|---|
| `OrchestratorProofs` | `TypeOK`, `PlanDecidedOnce` | |
| `OverlapProofs` | `PlanCardHonest`, `MessageOpensNoDuplicate` | |
| | `QueueDiscipline` | agents report no task as created or queued (`AgentsMoveOn`) |
| | `ExecutingIsDriven` | agents conclude, no stream is dropped |
| `SerialProofs` | `OneTaskAtATime`, `ClosedStaysClosed`, `OpenIntentsUnique` | `Serial`: clients send one request after the other and drop no stream, agents conclude and report statuses of a run |
| | `AtRest`, `PlanLeavesSettled` | besides, that no read of the catalog fails (`RepositoryAnswers`) |
| `SessionStoreProofs` | `TypeOK`, `MemoryIsOwn`, `PromotedOnce`, `WorksOnOwnSession`, `MessageHoldsSession` | |
| `EventStreamProofs` | `TypeOK`, `QueueGoesWithStream`, `HandlerEndsWithStream`, and `StreamsAreChannels`: the initial states and every step are the channel's | |
| `IntentCatalogProofs` | `TypeOK`, `RecordsAreWhole`, `NothingRevived`, `SnapshotIsWhole`, `DispatchIsWhole` | |
| `AgentDialogueProofs` | `TypeOK`, `ActsOnAllSlots`, `CorrectionHolds`, `SlotsKept` | |

No more is supposed than what the runs that check these properties have for constants: `Overlap` and `Sequential` are
instances. The first three theorems of `SerialProofs` reach further than `Sequential`, in which no read of the catalog
fails. The suppositions are needed. Without those of `ExecutingIsDriven` and of `Serial`, tasks are left running, run
twice or run again, as the runs that expect a violation show; without `RepositoryAnswers`, tasks and plans are stranded
as said above; with an agent that reports its task as queued and then as running, while another request has queued a
task of higher priority, TLC finds `QueueDiscipline` violated (the agent client takes any status,
`agent_client.py:504`).

Orchestrator, decisions. `PlanDecidedOnce` is not inductive. That the request that decides a plan is the first to do so
needs that a pending plan has not been decided; that a proposed plan is new needs that plans are numbered by `plans` and
that no request decided one not yet proposed; both are in `OneDecision`. Typing a switch needs that a request working on
a task has one (`HasTask`); matching a button to its plan needs that a request carries no token before it is sent. `Inv`
is the conjunction. Every operator that stands for the rest of a handler `Leads` from the session it is given to one whose
plan is kept (`KeepsPlan`): the same, or, if it was under way, further on or gone. The one exception is a proposal, which
takes the next number (`Moves`). `LeadsKeepInv` shows once that such steps preserve `Inv`, `DecisionKeepsInv` that the two
decisions do, and one lemma per action puts them together.

Orchestrator, requests that overlap. A step of a handler is three parts after each other: tasks that end (`Ended`),
tasks that are created (`Grown`), one turn of the queue (`Turned`). Each says what it does to every task's status, and
each operator of the model is shown to be one of them (`DrainQueueTurns`, `DispatchActs`, `CancelTasksActs`); the
theorems then follow from the three together, for all handlers at once (`Works`, `Waits`, `Reads`). The invariant is
`StepInv`: `Inv`; that the card is of the shape its plan's status asks (`Shape`) and shows the tasks (`Honest`); and that
a handler works on tasks that exist, and has created none before it dispatches (`Hands`). The last is what a message
needs after its awaits: whatever others did, the tasks it creates are new. `Shape` holds at every point of a handler but
`Honest` does not: a task is touched before the card follows. `EmitMends` shows that publishing progress puts the card
right from any session of that shape.

Orchestrator, requests that do not overlap. `SerialInv` has what the one handler in flight has in hand at each await
(`InHand`): nothing that executes or waits while it waits for the recognizer, the one waiting task while it switches or
cancels, the one executing task, which is active, while it streams. Between requests the session `Rests`: nothing
executes, at most one task waits, and none while a plan waits for its decision. A read of the catalog that fails may end
a handler with tasks created or queued, at any of three points (`RaiseEnds`). So `Orderly` cannot say that nothing is
open when a plan is confirmed: it says that no open task is of an intent among the items of a plan that waits for its
decision, which a proposal sets up and nothing undoes while it waits, and `GrownOrderly` needs no more for its tasks to
be the only ones of their intents. `AtRest` and `PlanLeavesSettled` rest on more, which the invariant states under the
condition that the repository answers: that nothing is left unqueued, that a pending plan leaves nothing open, and that
the open tasks of a plan under way are all of it, so that a dispatch, which then finds nothing open, finds no plan under way
either (`NothingOpen`) and overwrites none. Each operator `Ends` in such a state and `Carries` tasks and plan there; a
step composes these (`CarriesTransitive`).

Session store. That memory holds nothing twice needs that what was promoted is of an object no id leads to any more
(`Remembered`): promotion and replacement are one step. That a message's session does not expire under it needs an
account of time (`Holding`): when the handler started, its session had all of `Ttl` left, and each await has cost it at
most `AwaitLimit`; `TtlAssumption` closes the gap. Objects only ever grow in number and in expiry (`Grows`), which keeps
what the other handlers hold.

Event streams. `QueueIsRest` is the invariant: what is on the queue of an open stream is what its session's log has
beyond where it joined and what it was sent. With it, taking the head of the queue is the channel's `Carry`, and an
empty queue at the end of a relay is its `Behind(x) = 0`. `Placed` says that a stream that is open has a session.

Catalog. What a refresh has read is a state of `history`, which only grows (`WasRead`, `GrowsKeeps`), so what it installs
is of one state, be it old. The fallback a message has read is of one state as long as it may be dispatched to it
(`FallbackWhole`), and matches are taken from the one snapshot of the last read. `RecordsAreWhole` needs that an
activation in memory writes back a whole record (`Whole`) to the code it read it from; `NothingRevived` needs the
check under the lock, or the one in the commit.

Agent dialogue. A service's verdict is a chunk before it is the task's status, and the slots must not change between:
`VerdictFits` says so for both. `CorrectionHolds` is inductive with the types and with that a service under way was sent
the very slots the task has (in `VerdictFits`): what it repeats of them was offered since the last correction, and
`OfferedGrows` shows that an answer only adds to that. What a correction takes from `offered` it takes from the slots as
well, since a number that may be meant for either of two slots corrects neither. The slots of several payloads are merged
by position (`LastGiven`), and that a last position exists rests on the well-foundedness of the naturals.

Only model-checked: liveness (`EveryRequestAnswered`, `RelayEnds`, `CatalogCatchesUp`, `TurnEnds`, and the channel's
fairness in `ImplementsChannel`), which is out of the prover's reach. Every invariant and every action property of a
passing run has a theorem.

## Plan

Next, in this order:

1. An abstract serial executor of tasks, and that `Orchestrator` implements it when requests do not overlap: a run for
   the refinement, and its proof from `SerialInv`.
2. The choice of thresholds and the removal of duplicates in the recognizer, over bounded inputs, shown to give only
   results of `Recognitions`.

## Not modelled

The events' texts and layout; prompts and the LLM; how the recognizer works its thresholds out; how the request's
payload is laid out; the simulator's addresses and bills; the context builder (a selection of recent texts, whose effect
on a model `Resolutions` leaves open); start-up, shutdown and configuration; the web clients; deployment files.
`PROJECT.json` gives the reason for each component.
