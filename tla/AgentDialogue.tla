---------------------------- MODULE AgentDialogue -----------------------------
(***************************************************************************)
(* The dialogue of one task with its agent: the user's messages fill the   *)
(* task's slots, a message that corrects a slot clears it, the agent       *)
(* client turns the agent's response into chunks (router_core/             *)
(* agent_client.py), and the agents act or ask for what is missing         *)
(* (intent_agents/*_service.py, and the simulator behind mock://).         *)
(***************************************************************************)
EXTENDS Naturals, Sequences, Functions, SequencesExt

CONSTANTS
  Values,       \* values of a slot, in the form the agents keep
  TooMuch,      \* the amounts over the balance of 8000
  Messages,     \* what users say
  Intents,      \* kinds of intent: "transfer", "balance", "fallback"
  Agents,       \* how the task is served: "service", "simulator", "other", "unsupported"
  Payloads,     \* the payloads of the responses of other agents
  None,         \* no value
  Garbled,      \* a text that normalizes to no value
  MaxTurns,     \* number of messages and
  MaxEvents     \* of events in one stream of another agent; they bound the model

Slots == {"name", "card", "phone", "amount"}

(* How slots were put into words: so that the patterns of the simulator     *)
(* find them, or not.                                                       *)
Forms == {"pattern", "words"}

(* Or the message is a number alone, of 12 to 19, 11, 4 or any other number *)
(* of digits.                                                               *)
Lengths == {"card", "eleven", "four", "other"}

Partial(V) == UNION {[S -> V] : S \in SUBSET Slots}

(* What a message gives, and the slots the patterns of the orchestrator     *)
(* find in it: they know amounts the simulator does not, know nothing of    *)
(* other words, and find a name where there is none.                        *)
Message == [given : Partial(Values), cues : SUBSET Slots, form : Forms,
            digits : Values \cup {None}, length : Lengths]

TaskStatuses == {"created", "queued", "dispatching", "running", "waiting_user_input",
                 "waiting_confirmation", "resuming", "completed", "failed", "cancelled"}

\* Slots as another agent may leave them: a null is kept, and is None here.
Slotted == Partial(Values \cup {None})

(* A payload: its status, as text, "ishandover" and slot_memory.            *)
Payload == [status     : TaskStatuses \cup {"unknown"},
            ishandover : {"true", "false", "absent"},
            slots      : Slotted]

ASSUME MessagesAssumption ==
  \A m \in Messages :
    /\ m \in Message
    /\ m.digits # None => DOMAIN m.given = {} /\ m.cues = {}
    /\ m.form = "pattern" => DOMAIN m.given \subseteq m.cues
ASSUME PayloadsAssumption == Payloads \subseteq Payload
ASSUME ValuesAssumption ==
  TooMuch \subseteq Values /\ TooMuch # {} /\ None \notin Values /\ Garbled \notin Values
ASSUME AgentsAssumption ==
  /\ Intents \subseteq {"transfer", "balance", "fallback"}
  /\ Agents \subseteq {"service", "simulator", "other", "unsupported"}
ASSUME BoundsAssumption == MaxTurns \in Nat /\ MaxEvents \in Nat

Concluding == {"waiting_user_input", "waiting_confirmation", "completed", "failed"}

VARIABLES
  task,   \* the task: its kind of intent, agent, status, slot_memory and initial_source_input
  call,   \* the run of _run_task, and the agent client's stream in it
  turns,  \* number of messages the task has been run with
  offered \* history: per slot, what answers offered for it since it was last corrected

vars == <<task, call, turns, offered>>

(* "sent": the request awaits its response. "open": events arrive. "read":  *)
(* the response is all in chunks.                                           *)
Phases == {"idle", "sent", "open", "read"}

TypeOK ==
  /\ task.intent \in Intents /\ task.agent \in Agents
  /\ task.status \in TaskStatuses
  /\ task.slots \in Slotted
  /\ task.agent # "other" => task.slots \in Partial(Values)
  /\ task.first \in Messages
  /\ call.phase \in Phases
  /\ call.input \in Messages \cup {None}
  /\ call.seeds \in Slotted
  /\ call.chunks \in Seq(TaskStatuses)
  /\ call.events \in 0..MaxEvents
  /\ turns \in 0..MaxTurns
  /\ offered \in [Slots -> SUBSET (Values \cup {None})]

Nothing == [s \in {} |-> None]

NoCall == [phase |-> "idle", input |-> None, seeds |-> Nothing, chunks |-> <<>>, events |-> 0]

-----------------------------------------------------------------------------
(* What a message says.                                                     *)

\* The slots a number alone could be meant for.
CouldBe(m) ==
  IF m.digits = None THEN {}
  ELSE CASE m.length = "card"   -> {"card"}
         [] m.length = "eleven" -> {"phone"}
         [] m.length = "four"   -> {"phone", "amount"}
         [] m.length = "other"  -> {"amount"}

(* The slots a message corrects, as far as the patterns find it: not a      *)
(* number of four digits, which may be meant for either of two slots.       *)
Corrected(m) == m.cues \cup (IF m.length = "four" THEN {} ELSE CouldBe(m))

Init ==
  /\ \E i \in Intents, a \in Agents, m \in Messages :
       task = [intent |-> i, agent |-> a, status |-> "queued", slots |-> Nothing, first |-> m]
  /\ call = NoCall
  /\ turns = 0
  /\ offered = [s \in Slots |-> {}]

-----------------------------------------------------------------------------
(* A turn begins (_run_task).                                               *)

\* _standalone_digits_role_for_conflict: four digits go to what is missing.
RoleOfDigits(slots, m) ==
  IF m.digits = None THEN {}
  ELSE CASE m.length = "card"   -> {"card"}
         [] m.length = "eleven" -> {"phone"}
         [] m.length = "four"   ->
              IF "phone" \in DOMAIN slots /\ "amount" \notin DOMAIN slots THEN {"amount"}
              ELSE IF "amount" \in DOMAIN slots /\ "phone" \notin DOMAIN slots THEN {"phone"}
              ELSE {}
         [] m.length = "other"  -> {"amount"}

NoConflict(slots, m) == {}                            \* mutant of ConflictingKeys

\* _conflicting_slot_keys: what the message corrects, of what is known.
ConflictingKeys(slots, m) == DOMAIN slots \cap (m.cues \cup RoleOfDigits(slots, m))

\* _prepare_resuming_task
Prepared(slots, m) == Restrict(slots, DOMAIN slots \ ConflictingKeys(slots, m))

(* The call of the agent with the slots as its payload has them. The        *)
(* payload of an agent that is not reached, for its scheme or because a     *)
(* required field is missing, is a failed chunk.                            *)
RunTask(slots, m) ==
  /\ turns < MaxTurns
  /\ turns' = turns + 1
  /\ task' = [task EXCEPT !.status = "running", !.slots = slots]
  /\ call' = [NoCall EXCEPT !.phase  = IF task.agent = "unsupported" THEN "read" ELSE "sent",
                            !.chunks = IF task.agent = "unsupported" THEN <<"failed">> ELSE <<>>,
                            !.input  = m,
                            !.seeds  = slots]

(* The drain of a queue that was started by a message m, which may be about *)
(* another task: a queued task gets the words it was created for.           *)
DispatchInput(m) == IF task.status = "queued" THEN task.first ELSE m

Drain(m) ==
  /\ call.phase = "idle"
  /\ task.status = "queued"
  /\ RunTask(task.slots, DispatchInput(m))
  /\ UNCHANGED offered

\* _resume_waiting_task
Resume(m) ==
  /\ call.phase = "idle"
  /\ task.status \in {"waiting_user_input", "waiting_confirmation"}
  /\ RunTask(Prepared(task.slots, m), m)
  /\ offered' = [s \in Slots |-> IF s \in Corrected(m) THEN {} ELSE offered[s]]

-----------------------------------------------------------------------------
(* The services of the intents.                                             *)

Required(intent) ==
  CASE intent = "transfer" -> Slots
    [] intent = "balance"  -> {"card", "phone"}
    [] intent = "fallback" -> {}

(* What the model fills in: it reads the message together with the last     *)
(* messages of the session and the customer's long-term memory, and may     *)
(* answer with any value, one from before a correction or another task's    *)
(* among them, or with a text that is none. A call that fails, or no model, *)
(* fills in nothing.                                                        *)
Resolutions == Partial(Values \cup {Garbled})

NotNormalized(resolved) == resolved                   \* mutant of Normalized

\* _normalize_name, _normalize_card_number, _normalize_phone_last4, _normalize_amount
Normalized(resolved) == Restrict(resolved, {s \in DOMAIN resolved : resolved[s] # Garbled})

\* Later values over earlier ones, as dict.update.
Updated(old, new) ==
  [s \in DOMAIN old \cup DOMAIN new |-> IF s \in DOMAIN new THEN new[s] ELSE old[s]]

\* _finalize_resolution, of the slots the intent has.
Finalized(intent, seeds, resolved) ==
  Restrict(Updated(seeds, Normalized(resolved)),
           Required(intent) \cap (DOMAIN seeds \cup DOMAIN Normalized(resolved)))

MissingButAmount(intent, slots) == (Required(intent) \ {"amount"}) \ DOMAIN slots \* mutant of MissingFields

MissingFields(intent, slots) == Required(intent) \ DOMAIN slots

Overdrawn(intent, slots) == intent = "transfer" /\ "amount" \in DOMAIN slots /\ slots["amount"] \in TooMuch

\* The service of the fallback always asks for the user's business.
Verdict(intent, slots) ==
  IF intent = "fallback" \/ MissingFields(intent, slots) # {} THEN "waiting_user_input"
  ELSE IF Overdrawn(intent, slots) THEN "failed"
  ELSE "completed"

-----------------------------------------------------------------------------
(* The simulator: it reads the message itself, and for the name and the     *)
(* amount the first message once more.                                      *)

Read(m, s) == m.form = "pattern" /\ s \in DOMAIN m.given

\* Set the slot, when the message gives it; or to the number that is the message.
Take(slots, s, m) == IF Read(m, s) THEN Updated(slots, [t \in {s} |-> m.given[s]]) ELSE slots

TakeDigits(slots, s, m, condition) ==
  IF m.digits # None /\ condition
    THEN Updated(slots, [t \in {s} |-> IF s = "amount" /\ m.length \in {"card", "eleven"}
                                         THEN CHOOSE v \in TooMuch : TRUE ELSE m.digits])
    ELSE slots

\* _handle_account_balance: a number of 4 digits is a phone number's end.
SimulatedBalance(slots, m) ==
  LET card == TakeDigits(Take(slots, "card", m), "card", m, m.length = "card")
  IN  TakeDigits(Take(card, "phone", m), "phone", m, m.length = "four")

\* _extract_transfer_amount: a number is the amount when all the rest is known.
TakeAmount(slots, m) ==
  TakeDigits(Take(slots, "amount", m), "amount", m, DOMAIN slots = Slots \ {"amount"})

\* _handle_transfer
SimulatedTransfer(slots, m) ==
  LET name   == Take(slots, "name", IF Read(m, "name") THEN m ELSE task.first)
      card   == TakeDigits(Take(name, "card", m), "card", m, m.length = "card")
      phone  == TakeDigits(Take(card, "phone", m), "phone", m,
                  m.length = "four" /\ "amount" \in DOMAIN card /\ "phone" \notin DOMAIN card)
      silent == ~Read(m, "amount") /\ TakeAmount(phone, m) = phone
  IN  TakeAmount(phone, IF silent THEN task.first ELSE m)

Simulated(slots, m) ==
  CASE task.intent = "transfer" -> SimulatedTransfer(slots, m)
    [] task.intent = "balance"  -> SimulatedBalance(slots, m)
    [] task.intent = "fallback" -> slots

\* It knows no fallback.
SimulatedVerdict(slots) ==
  IF task.intent = "fallback" THEN "failed" ELSE Verdict(task.intent, slots)

-----------------------------------------------------------------------------
(* The agent client.                                                        *)

\* _resolve_status: any status of a task is taken as it is.
ResolveStatus(p) ==
  IF p.status \in TaskStatuses THEN p.status
  ELSE IF p.ishandover = "false" THEN "waiting_user_input"
  ELSE "completed"

Replacing(slots, p) == p.slots                        \* mutant of Merged

\* _payload_to_chunk: the slots of a payload are the task's when it is parsed.
Merged(slots, p) == Updated(slots, p.slots)

\* The values that assignments give a slot.
Given(s, assignments) == {a[s] : a \in {b \in assignments : s \in DOMAIN b}}

(* A response in one JSON body, of a service. It offers what its model      *)
(* filled in, and repeats the slots of the request.                         *)
ServiceReplies ==
  /\ task.agent = "service" /\ call.phase = "sent"
  /\ \E resolved \in Resolutions :
       LET final == Finalized(task.intent, call.seeds, resolved)
       IN  /\ task' = [task EXCEPT !.slots = Merged(task.slots, [slots |-> final])]
           /\ call' = [call EXCEPT !.phase = "read", !.chunks = <<Verdict(task.intent, final)>>]
           /\ offered' = [s \in Slots |-> offered[s] \cup Given(s, {Normalized(resolved)})]
  /\ UNCHANGED turns

SimulatorReplies ==
  /\ task.agent = "simulator" /\ call.phase = "sent"
  /\ LET final == Simulated(task.slots, call.input)
     IN  /\ task' = [task EXCEPT !.slots = final]
         /\ call' = [call EXCEPT !.phase = "read", !.chunks = <<SimulatedVerdict(final)>>]
  /\ UNCHANGED <<turns, offered>>

\* The slots of several payloads, merged one after the other: the last one to give a slot counts.
LastGiven(ps) ==
  LET giving(s) == {i \in DOMAIN ps : s \in DOMAIN ps[i].slots}
  IN  [s \in {t \in Slots : giving(t) # {}} |->
         ps[CHOOSE i \in giving(s) : \A j \in giving(s) : j <= i].slots[s]]

(* _payloads_to_chunks: the payloads of a text are all parsed, and their    *)
(* slots merged, before the first of them is handled.                       *)
PayloadsToChunks(ps, phase, events) ==
  /\ task' = [task EXCEPT !.slots = Merged(task.slots, [slots |-> LastGiven(ps)])]
  /\ call' = [call EXCEPT !.phase  = phase,
                          !.chunks = [i \in DOMAIN ps |-> ResolveStatus(ps[i])],
                          !.events = events]
  /\ offered' = [s \in Slots |-> offered[s] \cup Given(s, {ps[i].slots : i \in DOMAIN ps})]
  /\ UNCHANGED turns

\* The JSON body of another agent; it may hold no payload.
JsonArrives(ps) ==
  /\ task.agent = "other" /\ call.phase = "sent"
  /\ PayloadsToChunks(ps, "read", call.events)

\* The events of a stream are parsed as they arrive; one may hold a list of payloads.
EventArrives(ps) ==
  /\ task.agent = "other" /\ call.phase \in {"sent", "open"}
  /\ call.chunks = <<>>
  /\ ps # <<>> /\ call.events + Len(ps) <= MaxEvents
  /\ PayloadsToChunks(ps, "open", call.events + Len(ps))

\* The response has an error status: a failed chunk.
ResponseRefused ==
  /\ task.agent \in {"service", "other"} /\ call.phase = "sent"
  /\ call' = [call EXCEPT !.phase = "read", !.chunks = <<"failed">>]
  /\ UNCHANGED <<task, turns, offered>>

(* The connection or the text is at fault, perhaps after some events, or    *)
(* the stream ended with none: a failed chunk too.                          *)
ResponseFails ==
  /\ task.agent \in {"service", "other"} /\ call.phase \in {"sent", "open"}
  /\ call.chunks = <<>>
  /\ call' = [call EXCEPT !.phase = "read", !.chunks = <<"failed">>]
  /\ UNCHANGED <<task, turns, offered>>

StreamEnds ==
  /\ task.agent = "other"
  /\ call.phase = "open" /\ call.chunks = <<>>
  /\ call' = NoCall
  /\ UNCHANGED <<task, turns, offered>>

-----------------------------------------------------------------------------
(* The chunks in _run_task.                                                 *)

\* A concluding chunk ends the turn; what follows in the stream is dropped.
HandleChunk ==
  /\ call.chunks # <<>>
  /\ task' = [task EXCEPT !.status = Head(call.chunks)]
  /\ call' = IF Head(call.chunks) \in Concluding THEN NoCall
             ELSE [call EXCEPT !.chunks = Tail(call.chunks)]
  /\ UNCHANGED <<turns, offered>>

\* All is read, and nothing concluded.
RunsOut ==
  /\ call.phase = "read" /\ call.chunks = <<>>
  /\ call' = NoCall
  /\ UNCHANGED <<task, turns, offered>>

TimesOutOn(phases) ==
  /\ task.agent \in {"service", "other"} /\ call.phase \in phases
  /\ call.chunks = <<>>
  /\ task' = [task EXCEPT !.status = "failed"]
  /\ call' = NoCall
  /\ UNCHANGED <<turns, offered>>

TimesOutOnResponse == TimesOutOn({"sent"})            \* mutant of TimesOut

\* asyncio.timeout, around the whole stream.
TimesOut == TimesOutOn({"sent", "open"})

Next ==
  \/ \E m \in Messages : Drain(m) \/ Resume(m)
  \/ ServiceReplies
  \/ SimulatorReplies
  \/ \E ps \in SeqOf(Payloads, MaxEvents) : JsonArrives(ps) \/ EventArrives(ps)
  \/ ResponseRefused
  \/ ResponseFails
  \/ StreamEnds
  \/ HandleChunk
  \/ RunsOut
  \/ TimesOut

(* The simulator and the handling of chunks do not wait for anybody, and    *)
(* the timer goes off. Agents need not answer, nor end a stream.            *)
Fairness ==
  /\ WF_vars(SimulatorReplies)
  /\ WF_vars(HandleChunk)
  /\ WF_vars(RunsOut)
  /\ WF_vars(TimesOut)

Spec == Init /\ [][Next]_vars /\ Fairness

-----------------------------------------------------------------------------
(* Properties.                                                              *)

(* The service and the simulator act only with every slot filled, and never *)
(* on more than the balance; and they ask only when the task lacks a slot,  *)
(* whatever was cleared, misread or lost in the turns before.               *)
ActsOnAllSlots ==
  task.agent \in {"service", "simulator"} =>
    /\ task.status = "completed" =>
         Required(task.intent) \subseteq DOMAIN task.slots /\ ~Overdrawn(task.intent, task.slots)
    /\ task.status = "waiting_user_input" =>
         task.intent = "fallback" \/ ~(Required(task.intent) \subseteq DOMAIN task.slots)

(* Once the user corrected a slot, as far as the patterns find it, the task *)
(* has only what an answer offered for it since then. Neither the slots a   *)
(* service was sent and repeats, nor what is left of an older response, nor *)
(* a turn that failed brings the old value back. A model may offer it again,*)
(* and the simulator reads the first message once more.                     *)
CorrectionHolds ==
  task.agent # "simulator" => \A s \in DOMAIN task.slots : task.slots[s] \in offered[s]

\* The slots with a value.
Filled(slots) == {s \in DOMAIN slots : slots[s] # None}

(* A value is lost only to the user's words, a pattern found in them or a   *)
(* number that could be meant for the slot, or to a null an agent that is   *)
(* not one of the services gives in its place. No failure, no payload that  *)
(* leaves the slot out, and no service takes one.                           *)
SlotsKept ==
  [][\A s \in Filled(task.slots) \ Filled(task'.slots) :
       \/ /\ call.phase = "idle" /\ call'.phase # "idle"
          /\ s \in call'.input.cues \cup CouldBe(call'.input)
       \/ task.agent = "other" /\ call.phase # "idle" /\ s \in DOMAIN task'.slots]_vars

(* Every turn ends, although an agent may answer never, or in part, or keep *)
(* its stream open.                                                         *)
TurnEnds == call.phase # "idle" ~> call.phase = "idle"
=============================================================================
