------------------------- MODULE AgentDialogueProofs --------------------------
(***************************************************************************)
(* Theorems about module AgentDialogue, for any values, messages and       *)
(* responses and any number of turns: its type invariant, on what a        *)
(* service and the simulator act, that no correction is undone, and what   *)
(* may take a slot.                                                        *)
(***************************************************************************)
EXTENDS AgentDialogue, SequenceTheorems, WellFoundedInduction, TLAPS

-----------------------------------------------------------------------------
(* Slots.                                                                   *)

(* A partial assignment is a function on some of the slots.                 *)
LEMMA PartialIs ==
  ASSUME NEW V, NEW f
  PROVE  f \in Partial(V) <=> DOMAIN f \subseteq Slots /\ f \in [DOMAIN f -> V]
  BY DEF Partial

(* No slot is filled at first.                                              *)
LEMMA NothingType == ASSUME NEW V PROVE Nothing \in Partial(V) /\ DOMAIN Nothing = {}
  BY PartialIs DEF Nothing

(* What is left of an assignment when some slots are cleared.               *)
LEMMA RestrictType ==
  ASSUME NEW V, NEW f \in Partial(V), NEW S, S \subseteq DOMAIN f
  PROVE  /\ Restrict(f, S) \in Partial(V)
         /\ DOMAIN Restrict(f, S) = S
         /\ \A s \in S : Restrict(f, S)[s] = f[s]
  BY PartialIs DEF Restrict

(* An update keeps the slots of both, and the values of the newer.          *)
LEMMA UpdatedType ==
  ASSUME NEW V, NEW f \in Partial(V), NEW g \in Partial(V)
  PROVE  /\ Updated(f, g) \in Partial(V)
         /\ DOMAIN Updated(f, g) = DOMAIN f \cup DOMAIN g
         /\ \A s \in DOMAIN Updated(f, g) :
              Updated(f, g)[s] = IF s \in DOMAIN g THEN g[s] ELSE f[s]
  BY PartialIs DEF Updated

(* A nonempty set of positions has a last one.                              *)
LEMMA LastOf ==
  ASSUME NEW n \in Nat, NEW G \in SUBSET (1..n), G # {}
  PROVE  \E i \in G : \A j \in G : j <= i
<1> DEFINE Above == {k \in Nat : \A j \in G : j <= k}
<1>1. Above \subseteq Nat /\ n \in Above
  OBVIOUS
<1>2. PICK k \in Above : \A y \in Above : ~(<<y, k>> \in OpToRel(<, Nat))
  <2> HIDE DEF Above
  <2> QED BY <1>1, NatLessThanWellFounded, WFMin
<1>3. \A y \in Above : ~(y < k)
  BY <1>1, <1>2 DEF OpToRel
<1>4. k \in Nat /\ \A j \in G : j \in Nat /\ j >= 1 /\ j <= k
  OBVIOUS
<1>5. ASSUME k \notin G PROVE FALSE
  <2>1. \A j \in G : j <= k - 1
    BY <1>4, <1>5
  <2>2. PICK j \in G : TRUE
    OBVIOUS
  <2>3. k - 1 \in Nat
    BY <1>4, <2>2
  <2>4. k - 1 \in Above
    BY <2>1, <2>3
  <2> HIDE DEF Above
  <2> QED BY <2>4, <1>3, <1>4
<1> QED BY <1>4, <1>5

(* Without a null, or with.                                                 *)
LEMMA SlottedType ==
  /\ Partial(Values) \subseteq Slotted
  /\ \A f \in Partial(Values) : Filled(f) = DOMAIN f
<1>1. ASSUME NEW f \in Partial(Values)
      PROVE  f \in Slotted /\ Filled(f) = DOMAIN f
  <2>1. DOMAIN f \subseteq Slots /\ f \in [DOMAIN f -> Values]
    BY PartialIs
  <2>2. f \in [DOMAIN f -> Values \cup {None}]
    BY <2>1
  <2>3. \A s \in DOMAIN f : f[s] # None
    BY <2>1, ValuesAssumption
  <2> QED BY <2>1, <2>2, <2>3, PartialIs DEF Slotted, Filled
<1> QED BY <1>1

(* The slots of several payloads are slots, each as one of them has it.     *)
LEMMA LastGivenType ==
  ASSUME NEW ps \in Seq(Payloads)
  PROVE  /\ LastGiven(ps) \in Slotted
         /\ \A s \in DOMAIN LastGiven(ps) :
              \E i \in DOMAIN ps : s \in DOMAIN ps[i].slots /\ LastGiven(ps)[s] = ps[i].slots[s]
<1> DEFINE giving(s) == {i \in DOMAIN ps : s \in DOMAIN ps[i].slots}
           last(s)   == CHOOSE i \in giving(s) : \A j \in giving(s) : j <= i
           given     == {t \in Slots : giving(t) # {}}
<1>1. ASSUME NEW s \in given
      PROVE  /\ ps[last(s)].slots[s] \in Values \cup {None}
             /\ last(s) \in DOMAIN ps /\ s \in DOMAIN ps[last(s)].slots
  <2>1. giving(s) \in SUBSET (1..Len(ps)) /\ giving(s) # {} /\ Len(ps) \in Nat
    OBVIOUS
  <2>2. last(s) \in giving(s)
    <3> HIDE DEF giving
    <3> QED BY <2>1, LastOf
  <2>3. last(s) \in DOMAIN ps /\ ps[last(s)] \in Payload /\ s \in DOMAIN ps[last(s)].slots
    <3> HIDE DEF last
    <3> QED BY <2>2, PayloadsAssumption
  <2>4. ps[last(s)].slots \in Partial(Values \cup {None})
    <3> HIDE DEF last
    <3> QED BY <2>3 DEF Payload, Slotted
  <2> HIDE DEF last
  <2> QED BY <2>3, <2>4, PartialIs
<1>2. LastGiven(ps) = [s \in given |-> ps[last(s)].slots[s]]
  BY DEF LastGiven
<1> HIDE DEF last
<1>3. given \subseteq Slots
  OBVIOUS
<1> HIDE DEF given
<1>4. /\ DOMAIN LastGiven(ps) = given
      /\ LastGiven(ps) \in [given -> Values \cup {None}]
      /\ \A s \in given : LastGiven(ps)[s] = ps[last(s)].slots[s]
  BY <1>1, <1>2
<1>5. LastGiven(ps) \in Slotted
  BY <1>3, <1>4, PartialIs DEF Slotted
<1> QED BY <1>1, <1>4, <1>5

(* A number is taken for no slot but one it could be meant for, and for     *)
(* that one if it can be no other.                                          *)
LEMMA RoleCouldBe ==
  ASSUME NEW m \in Messages, NEW slots
  PROVE  /\ RoleOfDigits(slots, m) \subseteq CouldBe(m)
         /\ m.length # "four" => RoleOfDigits(slots, m) = CouldBe(m)
<1>1. m.length \in Lengths
  BY MessagesAssumption DEF Message
<1> QED BY <1>1 DEF RoleOfDigits, CouldBe, Lengths

(* A message clears what it corrects, and only what it could be meant for.  *)
LEMMA PreparedType ==
  ASSUME NEW V, NEW slots \in Partial(V), NEW m \in Messages
  PROVE  /\ Prepared(slots, m) \in Partial(V)
         /\ DOMAIN Prepared(slots, m) \subseteq DOMAIN slots
         /\ \A s \in DOMAIN slots \ DOMAIN Prepared(slots, m) : s \in m.cues \cup CouldBe(m)
         /\ \A s \in DOMAIN Prepared(slots, m) :
              Prepared(slots, m)[s] = slots[s] /\ s \notin Corrected(m)
<1> DEFINE left == DOMAIN slots \ ConflictingKeys(slots, m)
<1>1. left \subseteq DOMAIN slots
  OBVIOUS
<1>2. Prepared(slots, m) = Restrict(slots, left)
  BY DEF Prepared
<1>3. \A s \in DOMAIN slots \ left : s \in m.cues \cup CouldBe(m)
  BY RoleCouldBe DEF ConflictingKeys
<1>4. \A s \in left : s \notin Corrected(m)
  BY RoleCouldBe DEF ConflictingKeys, Corrected
<1> HIDE DEF left
<1> QED BY <1>1, <1>2, <1>3, <1>4, RestrictType

-----------------------------------------------------------------------------
(* The services and the simulator.                                          *)

(* An intent requires slots.                                                *)
LEMMA RequiredType ==
  ASSUME NEW intent \in Intents
  PROVE  Required(intent) \subseteq Slots
  BY AgentsAssumption DEF Required, Slots

(* What the model filled in that is a value.                                *)
LEMMA NormalizedType ==
  ASSUME NEW resolved \in Partial(Values \cup {Garbled})
  PROVE  Normalized(resolved) \in Partial(Values)
<1> DEFINE clear == {s \in DOMAIN resolved : resolved[s] # Garbled}
           N     == Normalized(resolved)
<1>1. clear \subseteq DOMAIN resolved /\ N = Restrict(resolved, clear)
  BY DEF Normalized
<1>2. \A s \in clear : resolved[s] \in Values
  BY PartialIs
<1>3. /\ N \in Partial(Values \cup {Garbled}) /\ DOMAIN N = clear
      /\ \A s \in clear : N[s] = resolved[s]
  <2> HIDE DEF N, clear
  <2> QED BY <1>1, RestrictType
<1> HIDE DEF N, clear
<1> QED BY <1>2, <1>3, PartialIs DEF N

(* What a service works with: of the slots its intent has, those it was     *)
(* given and those the model filled in, with a value of either.             *)
LEMMA FinalizedType ==
  ASSUME NEW intent \in Intents, NEW seeds \in Partial(Values),
         NEW resolved \in Partial(Values \cup {Garbled})
  PROVE  /\ Finalized(intent, seeds, resolved) \in Partial(Values)
         /\ DOMAIN Finalized(intent, seeds, resolved) \subseteq Required(intent)
         /\ Required(intent) \cap DOMAIN seeds \subseteq DOMAIN Finalized(intent, seeds, resolved)
         /\ \A s \in DOMAIN Finalized(intent, seeds, resolved) :
              \/ /\ s \in DOMAIN seeds
                 /\ Finalized(intent, seeds, resolved)[s] = seeds[s]
              \/ /\ s \in DOMAIN Normalized(resolved)
                 /\ Finalized(intent, seeds, resolved)[s] = Normalized(resolved)[s]
<1> DEFINE N     == Normalized(resolved)
           U     == Updated(seeds, N)
           dom   == Required(intent) \cap (DOMAIN seeds \cup DOMAIN N)
<1>1. N \in Partial(Values)
  BY NormalizedType
<1>2. Finalized(intent, seeds, resolved) = Restrict(U, dom)
  BY DEF Finalized
<1> HIDE DEF N
<1>3. /\ U \in Partial(Values) /\ DOMAIN U = DOMAIN seeds \cup DOMAIN N
      /\ \A s \in DOMAIN U : U[s] = IF s \in DOMAIN N THEN N[s] ELSE seeds[s]
  BY <1>1, UpdatedType
<1> HIDE DEF U
<1>9. dom \subseteq DOMAIN U
  BY <1>3
<1>4. /\ Restrict(U, dom) \in Partial(Values) /\ DOMAIN Restrict(U, dom) = dom
      /\ \A s \in dom : Restrict(U, dom)[s] = U[s]
  <2> HIDE DEF dom
  <2> QED BY <1>3, <1>9, RestrictType
<1>5. dom \subseteq Required(intent) /\ Required(intent) \cap DOMAIN seeds \subseteq dom
      /\ dom \subseteq DOMAIN seeds \cup DOMAIN N
  OBVIOUS
<1> HIDE DEF dom
<1> DEFINE F == Finalized(intent, seeds, resolved)
<1>6. F \in Partial(Values) /\ DOMAIN F = dom /\ \A s \in dom : F[s] = U[s]
  BY <1>2, <1>4
<1> HIDE DEF F
<1>7. ASSUME NEW s \in DOMAIN F
      PROVE  \/ s \in DOMAIN seeds /\ F[s] = seeds[s]
             \/ s \in DOMAIN N /\ F[s] = N[s]
  <2>1. s \in DOMAIN seeds \cup DOMAIN N /\ F[s] = IF s \in DOMAIN N THEN N[s] ELSE seeds[s]
    BY <1>3, <1>5, <1>6
  <2> QED BY <1>1, <2>1
<1>8. DOMAIN F \subseteq Required(intent) /\ Required(intent) \cap DOMAIN seeds \subseteq DOMAIN F
  BY <1>5, <1>6
<1> QED BY <1>6, <1>7, <1>8 DEF F, N

(* A message read by the simulator adds to the slots.                       *)
Grows(slots, new) == new \in Partial(Values) /\ DOMAIN slots \subseteq DOMAIN new

(* One slot more, or another value in it.                                   *)
LEMMA UpdatedGrows ==
  ASSUME NEW slots \in Partial(Values), NEW s \in Slots, NEW v \in Values
  PROVE  Grows(slots, Updated(slots, [t \in {s} |-> v]))
<1> DEFINE g == [t \in {s} |-> v]
<1>1. DOMAIN g = {s} /\ g \in [{s} -> Values]
  OBVIOUS
<1> HIDE DEF g
<1>2. g \in Partial(Values)
  BY <1>1, PartialIs
<1>3. /\ Updated(slots, g) \in Partial(Values)
      /\ DOMAIN Updated(slots, g) = DOMAIN slots \cup DOMAIN g
  BY <1>2, UpdatedType
<1>4. Grows(slots, Updated(slots, g))
  BY <1>3 DEF Grows
<1> QED BY <1>4 DEF g

(* A slot the message gives.                                                *)
LEMMA TakeGrows ==
  ASSUME NEW slots \in Partial(Values), NEW s \in Slots, NEW m \in Messages
  PROVE  Grows(slots, Take(slots, s, m))
<1>1. m.given \in Partial(Values)
  BY MessagesAssumption DEF Message
<1>2. Read(m, s) => m.given[s] \in Values
  BY <1>1, PartialIs DEF Read
<1> QED BY <1>2, UpdatedGrows DEF Take, Grows

(* A number.                                                                *)
LEMMA TakeDigitsGrows ==
  ASSUME NEW slots \in Partial(Values), NEW s \in Slots, NEW m \in Messages, NEW condition
  PROVE  Grows(slots, TakeDigits(slots, s, m, condition))
<1> DEFINE v == IF s = "amount" /\ m.length \in {"card", "eleven"}
                  THEN CHOOSE x \in TooMuch : TRUE ELSE m.digits
<1>1. m.digits # None => v \in Values
  <2>1. m.digits \in Values \cup {None}
    BY MessagesAssumption DEF Message
  <2>2. (CHOOSE x \in TooMuch : TRUE) \in Values
    BY ValuesAssumption
  <2> QED BY <2>1, <2>2
<1>2. TakeDigits(slots, s, m, condition) \in {slots, Updated(slots, [t \in {s} |-> v])}
      /\ (m.digits = None => TakeDigits(slots, s, m, condition) = slots)
  BY DEF TakeDigits
<1> HIDE DEF v
<1> QED BY <1>1, <1>2, UpdatedGrows DEF Grows

(* The simulated balance query and transfer.                                *)
LEMMA SimulatedGrows ==
  ASSUME NEW slots \in Partial(Values), NEW m \in Messages,
         task.intent \in Intents, task.first \in Messages
  PROVE  Grows(slots, Simulated(slots, m))
<1>1. {"name", "card", "phone", "amount"} \subseteq Slots
  BY DEF Slots
<1>2. ASSUME NEW a, NEW b, NEW c, Grows(a, b), Grows(b, c)
      PROVE  Grows(a, c)
  BY <1>2 DEF Grows
<1>3. Grows(slots, SimulatedBalance(slots, m))
  <2> DEFINE c0 == Take(slots, "card", m)
             c1 == TakeDigits(c0, "card", m, m.length = "card")
             p0 == Take(c1, "phone", m)
             p1 == TakeDigits(p0, "phone", m, m.length = "four")
  <2>1. Grows(slots, c0)
    BY <1>1, TakeGrows
  <2>2. Grows(c0, c1)
    BY <1>1, <2>1, TakeDigitsGrows DEF Grows
  <2>3. Grows(c1, p0)
    BY <1>1, <2>2, TakeGrows DEF Grows
  <2>4. Grows(p0, p1)
    BY <1>1, <2>3, TakeDigitsGrows DEF Grows
  <2>5. SimulatedBalance(slots, m) = p1
    BY DEF SimulatedBalance
  <2> HIDE DEF c0, c1, p0, p1
  <2> QED BY <1>2, <2>1, <2>2, <2>3, <2>4, <2>5
<1>4. ASSUME NEW f \in Partial(Values), NEW n \in Messages
      PROVE  Grows(f, TakeAmount(f, n))
  <2> DEFINE a == Take(f, "amount", n)
  <2>1. Grows(f, a)
    BY <1>1, TakeGrows
  <2>2. Grows(a, TakeDigits(a, "amount", n, DOMAIN f = Slots \ {"amount"}))
    BY <1>1, <2>1, TakeDigitsGrows DEF Grows
  <2> QED BY <1>2, <2>1, <2>2 DEF TakeAmount
<1>5. Grows(slots, SimulatedTransfer(slots, m))
  <2> DEFINE n0 == Take(slots, "name", IF Read(m, "name") THEN m ELSE task.first)
             c0 == Take(n0, "card", m)
             c1 == TakeDigits(c0, "card", m, m.length = "card")
             p0 == Take(c1, "phone", m)
             p1 == TakeDigits(p0, "phone", m,
                     m.length = "four" /\ "amount" \in DOMAIN c1 /\ "phone" \notin DOMAIN c1)
             x  == IF ~Read(m, "amount") /\ TakeAmount(p1, m) = p1 THEN task.first ELSE m
  <2>1. Grows(slots, n0)
    BY <1>1, TakeGrows
  <2>2. Grows(n0, c0)
    BY <1>1, <2>1, TakeGrows DEF Grows
  <2>3. Grows(c0, c1)
    BY <1>1, <2>2, TakeDigitsGrows DEF Grows
  <2>4. Grows(c1, p0)
    BY <1>1, <2>3, TakeGrows DEF Grows
  <2>5. Grows(p0, p1)
    BY <1>1, <2>4, TakeDigitsGrows DEF Grows
  <2>6. x \in Messages /\ SimulatedTransfer(slots, m) = TakeAmount(p1, x)
    BY DEF SimulatedTransfer
  <2> HIDE DEF n0, c0, c1, p0, p1, x
  <2>7. Grows(p1, TakeAmount(p1, x))
    BY <1>4, <2>5, <2>6 DEF Grows
  <2> QED BY <1>2, <2>1, <2>2, <2>3, <2>4, <2>5, <2>6, <2>7
<1> QED BY <1>3, <1>5, AgentsAssumption DEF Simulated, Grows

-----------------------------------------------------------------------------
(* The inductive invariant.                                                 *)

TaskType == [intent : Intents, agent : Agents, status : TaskStatuses,
             slots : Slotted, first : Messages]

CallType == [phase  : Phases,
             chunks : Seq(TaskStatuses),
             input  : Messages \cup {None},
             seeds  : Slotted,
             events : 0..MaxEvents]

Typed ==
  /\ task \in TaskType /\ call \in CallType
  /\ task.agent # "other" => task.slots \in Partial(Values)
  /\ turns \in 0..MaxTurns
  /\ offered \in [Slots -> SUBSET (Values \cup {None})]

(* A call has a message, and no chunk is left when there is no call.        *)
CallOK ==
  /\ call.phase = "idle" => call.chunks = <<>>
  /\ call.phase # "idle" => call.input \in Messages

(* What a verdict says of the slots.                                        *)
Fits(verdict, slots) ==
  /\ verdict = "completed" =>
       Required(task.intent) \subseteq DOMAIN slots /\ ~Overdrawn(task.intent, slots)
  /\ verdict = "waiting_user_input" =>
       task.intent = "fallback" \/ ~(Required(task.intent) \subseteq DOMAIN slots)

Verdicts == {"completed", "failed", "waiting_user_input"}

(* With a service or the simulator the verdict, as a chunk and then as the  *)
(* task's status, fits the slots, which nothing changes meanwhile.          *)
VerdictFits ==
  task.agent \in {"service", "simulator"} =>
    /\ call.phase \in {"idle", "sent", "read"}
    /\ call.phase = "idle" => task.status \in {"queued"} \cup Verdicts /\ Fits(task.status, task.slots)
    /\ call.phase # "idle" => task.status = "running"
    /\ call.phase = "sent" => call.chunks = <<>> /\ call.seeds = task.slots
    /\ call.phase = "read" =>
         \E v \in Verdicts : call.chunks = <<v>> /\ Fits(v, task.slots)

(* A correction holds in every state, whoever answers what in between.      *)
Inv == Typed /\ CallOK /\ VerdictFits /\ CorrectionHolds

(* The invariant has what the runs check.                                   *)
LEMMA InvSuffices == Inv => TypeOK /\ ActsOnAllSlots /\ CorrectionHolds
<1> SUFFICES ASSUME Inv PROVE TypeOK /\ ActsOnAllSlots /\ CorrectionHolds
  OBVIOUS
<1>1. TypeOK
  BY DEF Inv, Typed, TypeOK, TaskType, CallType
<1>2. task.agent \in {"service", "simulator"} /\ task.status \in {"completed", "waiting_user_input"}
        => Fits(task.status, task.slots)
  BY DEF Inv, VerdictFits, Verdicts
<1>3. ActsOnAllSlots
  BY <1>2 DEF ActsOnAllSlots, Fits
<1> QED BY <1>1, <1>3 DEF Inv

(* One chunk is a list of chunks.                                           *)
LEMMA OneChunk ==
  /\ <<>> \in Seq(TaskStatuses)
  /\ \A c \in TaskStatuses : /\ <<c>> \in Seq(TaskStatuses) /\ <<c>> # <<>>
                            /\ Head(<<c>>) = c
  OBVIOUS

(* No call is a call.                                                       *)
LEMMA NoCallType == NoCall \in CallType /\ NoCall.phase = "idle" /\ NoCall.chunks = <<>>
<1>1. <<>> \in Seq(TaskStatuses) /\ 0 \in 0..MaxEvents
  BY BoundsAssumption
<1>2. Nothing \in Slotted
  BY NothingType DEF Slotted
<1> QED BY <1>1, <1>2 DEF NoCall, CallType, Phases

(* A task as it is created has no slots.                                    *)
LEMMA InitInv == Init => Inv
<1> SUFFICES ASSUME Init PROVE Inv
  OBVIOUS
<1>1. PICK i \in Intents, a \in Agents, m \in Messages :
        task = [intent |-> i, agent |-> a, status |-> "queued", slots |-> Nothing, first |-> m]
  BY DEF Init
<1>2. call = NoCall /\ turns = 0 /\ offered = [s \in Slots |-> {}]
  BY DEF Init
<1>3. Nothing \in Partial(Values) /\ Nothing \in Slotted /\ DOMAIN Nothing = {}
  BY NothingType DEF Slotted
<1>4. Typed
  BY <1>1, <1>2, <1>3, NoCallType, BoundsAssumption DEF Typed, TaskType, TaskStatuses
<1>5. CallOK
  BY <1>2, NoCallType DEF CallOK
<1>6. VerdictFits
  BY <1>1, <1>2, NoCallType DEF VerdictFits, Fits
<1>7. CorrectionHolds
  BY <1>1, <1>3 DEF CorrectionHolds
<1> QED BY <1>4, <1>5, <1>6, <1>7 DEF Inv

-----------------------------------------------------------------------------
(* Each action preserves it.                                                *)

(* A turn begins with slots that were offered since they were corrected.    *)
LEMMA RunTaskKeepsInv ==
  ASSUME Inv, NEW slots \in Slotted, NEW m \in Messages, RunTask(slots, m),
         task.agent # "other" => slots \in Partial(Values),
         offered' \in [Slots -> SUBSET (Values \cup {None})],
         task.agent # "simulator" => \A s \in DOMAIN slots : slots[s] \in offered'[s]
  PROVE  Inv'
<1> DEFINE reached == task.agent # "unsupported"
<1>1. /\ task' \in TaskType /\ task'.status = "running" /\ task'.slots = slots
      /\ task'.intent = task.intent /\ task'.agent = task.agent
  BY DEF Inv, Typed, RunTask, TaskType, TaskStatuses
<1>2. /\ call' \in CallType /\ call'.input = m /\ call'.seeds = slots
      /\ call'.phase = (IF reached THEN "sent" ELSE "read")
      /\ call'.chunks = (IF reached THEN <<>> ELSE <<"failed">>)
  <2> DEFINE phase  == IF reached THEN "sent" ELSE "read"
             chunks == IF reached THEN <<>> ELSE <<"failed">>
  <2>1. phase \in Phases /\ chunks \in Seq(TaskStatuses)
    BY OneChunk DEF Phases, TaskStatuses
  <2>2. call' = [NoCall EXCEPT !.phase = phase, !.chunks = chunks, !.input = m, !.seeds = slots]
    BY DEF RunTask
  <2> HIDE DEF phase, chunks
  <2>3. /\ call' \in CallType /\ call'.input = m /\ call'.seeds = slots
        /\ call'.phase = phase /\ call'.chunks = chunks
    BY <2>1, <2>2, NoCallType DEF CallType
  <2> QED BY <2>3 DEF phase, chunks
<1>3. turns' \in 0..MaxTurns
  BY BoundsAssumption DEF Inv, Typed, RunTask
<1>4. Typed'
  BY <1>1, <1>2, <1>3 DEF Typed
<1>5. CallOK'
  BY <1>2 DEF CallOK
<1>6. VerdictFits'
  BY <1>1, <1>2 DEF VerdictFits
<1>7. CorrectionHolds'
  BY <1>1 DEF CorrectionHolds
<1> QED BY <1>4, <1>5, <1>6, <1>7 DEF Inv

(* A queued task is run with its own words and the slots it has.            *)
LEMMA DrainKeepsInv ==
  ASSUME Inv, NEW m \in Messages, Drain(m)
  PROVE  Inv'
<1>1. /\ task.slots \in Slotted /\ task.first \in Messages
      /\ task.agent # "other" => task.slots \in Partial(Values)
      /\ offered \in [Slots -> SUBSET (Values \cup {None})]
  BY DEF Inv, Typed, TaskType
<1>2. RunTask(task.slots, task.first) /\ offered' = offered
  BY DEF Drain, DispatchInput
<1>3. task.agent # "simulator" => \A s \in DOMAIN task.slots : task.slots[s] \in offered'[s]
  BY <1>2 DEF Inv, CorrectionHolds
<1> QED BY <1>1, <1>2, <1>3, RunTaskKeepsInv

(* A message clears what it corrects.                                       *)
LEMMA ResumeKeepsInv ==
  ASSUME Inv, NEW m \in Messages, Resume(m)
  PROVE  Inv'
<1> DEFINE slots == Prepared(task.slots, m)
<1>1. /\ task.slots \in Slotted /\ offered \in [Slots -> SUBSET (Values \cup {None})]
      /\ task.agent # "other" => task.slots \in Partial(Values)
  BY DEF Inv, Typed, TaskType
<1>2. /\ slots \in Slotted /\ DOMAIN slots \subseteq DOMAIN task.slots
      /\ \A s \in DOMAIN slots : slots[s] = task.slots[s] /\ s \notin Corrected(m)
  BY <1>1, PreparedType DEF Slotted
<1>3. task.agent # "other" => slots \in Partial(Values)
  BY <1>1, PreparedType
<1>4. RunTask(slots, m)
      /\ offered' = [s \in Slots |-> IF s \in Corrected(m) THEN {} ELSE offered[s]]
  BY DEF Resume
<1> HIDE DEF slots
<1>5. /\ offered' \in [Slots -> SUBSET (Values \cup {None})]
      /\ \A s \in Slots : s \notin Corrected(m) => offered'[s] = offered[s]
  BY <1>1, <1>4
<1>6. DOMAIN slots \subseteq Slots
  BY <1>2, PartialIs DEF Slotted
<1>7. task.agent # "simulator" => \A s \in DOMAIN slots : slots[s] \in offered'[s]
  BY <1>2, <1>5, <1>6 DEF Inv, CorrectionHolds
<1> QED BY <1>2, <1>3, <1>4, <1>5, <1>7, RunTaskKeepsInv

(* The agent's answer: other slots, and chunks.                             *)
LEMMA AnswerTyped ==
  ASSUME Inv, NEW slots \in Slotted, NEW phase \in {"open", "read"},
         task.agent # "other" => slots \in Partial(Values),
         NEW chunks \in Seq(TaskStatuses), NEW events \in 0..MaxEvents,
         task' = [task EXCEPT !.slots = slots],
         call.phase # "idle",
         call' = [call EXCEPT !.phase = phase, !.chunks = chunks, !.events = events],
         offered' \in [Slots -> SUBSET (Values \cup {None})], UNCHANGED turns
  PROVE  /\ Typed' /\ CallOK'
         /\ task'.slots = slots /\ task'.status = task.status /\ task'.first = task.first
         /\ task'.agent = task.agent /\ task'.intent = task.intent
         /\ call'.phase = phase /\ call'.chunks = chunks
<1>1. /\ task' \in TaskType /\ task'.slots = slots /\ task'.status = task.status
      /\ task'.agent = task.agent /\ task'.intent = task.intent /\ task'.first = task.first
  BY DEF Inv, Typed, TaskType
<1>2. /\ call' \in CallType /\ call'.phase = phase /\ call'.chunks = chunks
      /\ call'.input = call.input
  BY DEF Inv, Typed, CallType, Phases
<1> QED BY <1>1, <1>2 DEF Inv, Typed, CallOK

(* What assignments give a slot is added to what was offered for it.        *)
LEMMA OfferedGrows ==
  ASSUME Inv, NEW assignments \in SUBSET Slotted,
         offered' = [s \in Slots |-> offered[s] \cup Given(s, assignments)]
  PROVE  /\ offered' \in [Slots -> SUBSET (Values \cup {None})]
         /\ \A s \in Slots : offered[s] \subseteq offered'[s]
         /\ \A a \in assignments : \A s \in DOMAIN a : a[s] \in offered'[s]
<1>1. offered \in [Slots -> SUBSET (Values \cup {None})]
  BY DEF Inv, Typed
<1>2. \A a \in assignments : \A s \in DOMAIN a : s \in Slots /\ a[s] \in Values \cup {None}
  BY PartialIs DEF Slotted
<1>3. \A s \in Slots : Given(s, assignments) \subseteq Values \cup {None}
  BY <1>2 DEF Given
<1>4. \A a \in assignments : \A s \in DOMAIN a : a[s] \in Given(s, assignments)
  BY DEF Given
<1>5. \A s \in Slots : offered'[s] = offered[s] \cup Given(s, assignments)
  OBVIOUS
<1>6. offered' \in [Slots -> SUBSET (Values \cup {None})]
  BY <1>1, <1>3
<1> QED BY <1>2, <1>4, <1>5, <1>6

(* A slot of a final assignment that the task had before, or an old one.    *)
LEMMA MergedIs ==
  ASSUME NEW V, NEW slots \in Partial(V), NEW given \in Partial(V)
  PROVE  /\ Merged(slots, [slots |-> given]) \in Partial(V)
         /\ DOMAIN Merged(slots, [slots |-> given]) = DOMAIN slots \cup DOMAIN given
         /\ \A s \in DOMAIN slots \cup DOMAIN given :
              Merged(slots, [slots |-> given])[s] = IF s \in DOMAIN given THEN given[s] ELSE slots[s]
  BY UpdatedType DEF Merged

(* The verdict of a service or the simulator fits the slots it is about,    *)
(* and a service's those of the task it is merged into.                     *)
LEMMA VerdictFitsSlots ==
  ASSUME NEW slots, NEW merged, task.intent \in Intents,
         Required(task.intent) \cap DOMAIN merged = Required(task.intent) \cap DOMAIN slots,
         task.intent = "transfer" /\ "amount" \in DOMAIN slots => merged["amount"] = slots["amount"]
  PROVE  Verdict(task.intent, slots) \in Verdicts /\ Fits(Verdict(task.intent, slots), merged)
<1>1. MissingFields(task.intent, slots) # {} <=> ~(Required(task.intent) \subseteq DOMAIN merged)
  BY DEF MissingFields
<1>2. task.intent = "transfer" => "amount" \in Required(task.intent)
  BY DEF Required, Slots
<1>3. Overdrawn(task.intent, merged) <=> Overdrawn(task.intent, slots)
  BY <1>2 DEF Overdrawn
<1> QED BY <1>1, <1>3 DEF Verdict, Fits, Verdicts

(* A service fills slots with whatever its model offers, repeats the others *)
(* as it was sent them, and answers with its verdict on all the task has.   *)
LEMMA ServiceRepliesKeepsInv ==
  ASSUME Inv, ServiceReplies
  PROVE  Inv'
<1>1. /\ task.agent = "service" /\ call.phase = "sent" /\ task.status = "running"
      /\ call.seeds = task.slots /\ task.slots \in Partial(Values) /\ task.intent \in Intents
      /\ \A s \in DOMAIN task.slots : task.slots[s] \in offered[s]
  BY DEF Inv, Typed, TaskType, VerdictFits, CorrectionHolds, ServiceReplies
<1>2. PICK resolved \in Resolutions :
        LET final == Finalized(task.intent, call.seeds, resolved)
        IN  /\ task' = [task EXCEPT !.slots = Merged(task.slots, [slots |-> final])]
            /\ call' = [call EXCEPT !.phase = "read", !.chunks = <<Verdict(task.intent, final)>>]
            /\ offered' = [s \in Slots |-> offered[s] \cup Given(s, {Normalized(resolved)})]
  BY DEF ServiceReplies
<1> DEFINE final  == Finalized(task.intent, task.slots, resolved)
           merged == Merged(task.slots, [slots |-> final])
           v      == Verdict(task.intent, final)
<1>3. /\ resolved \in Partial(Values \cup {Garbled})
      /\ Normalized(resolved) \in Partial(Values)
      /\ Normalized(resolved) \in Slotted
  BY NormalizedType, SlottedType DEF Resolutions
<1>4. /\ final \in Partial(Values)
      /\ DOMAIN final \subseteq Required(task.intent)
      /\ Required(task.intent) \cap DOMAIN task.slots \subseteq DOMAIN final
      /\ \A s \in DOMAIN final :
           \/ s \in DOMAIN task.slots /\ final[s] = task.slots[s]
           \/ s \in DOMAIN Normalized(resolved) /\ final[s] = Normalized(resolved)[s]
  BY <1>1, <1>3, FinalizedType
<1>11. /\ offered' \in [Slots -> SUBSET (Values \cup {None})]
       /\ \A s \in Slots : offered[s] \subseteq offered'[s]
       /\ \A s \in DOMAIN Normalized(resolved) : Normalized(resolved)[s] \in offered'[s]
  <2> DEFINE assignments == {Normalized(resolved)}
  <2>1. assignments \in SUBSET Slotted
        /\ offered' = [s \in Slots |-> offered[s] \cup Given(s, assignments)]
    BY <1>2, <1>3
  <2>2. Normalized(resolved) \in assignments
    OBVIOUS
  <2> HIDE DEF assignments
  <2> QED BY <2>1, <2>2, OfferedGrows
<1>5. task' = [task EXCEPT !.slots = merged] /\ call' = [call EXCEPT !.phase = "read", !.chunks = <<v>>]
  BY <1>1, <1>2
<1> HIDE DEF final
<1>6. /\ merged \in Partial(Values)
      /\ DOMAIN merged = DOMAIN task.slots \cup DOMAIN final
      /\ \A s \in DOMAIN merged : merged[s] = IF s \in DOMAIN final THEN final[s] ELSE task.slots[s]
  <2>1. task.slots \in Partial(Values) /\ final \in Partial(Values)
    BY <1>1, <1>4
  <2>2. /\ Merged(task.slots, [slots |-> final]) \in Partial(Values)
        /\ DOMAIN Merged(task.slots, [slots |-> final]) = DOMAIN task.slots \cup DOMAIN final
        /\ \A s \in DOMAIN task.slots \cup DOMAIN final :
             Merged(task.slots, [slots |-> final])[s] = IF s \in DOMAIN final THEN final[s] ELSE task.slots[s]
    BY <2>1, MergedIs
  <2> HIDE DEF merged
  <2> QED BY <2>2 DEF merged
<1> HIDE DEF merged
<1>7. v \in Verdicts /\ Fits(v, merged)
  BY <1>1, <1>4, <1>6, VerdictFitsSlots
<1> HIDE DEF v
<1>8. /\ Typed' /\ CallOK' /\ task'.slots = merged /\ task'.status = "running"
      /\ task'.agent = "service" /\ task'.intent = task.intent
      /\ call'.phase = "read" /\ call'.chunks = <<v>>
  <2>1. <<v>> \in Seq(TaskStatuses)
    BY <1>7, OneChunk DEF Verdicts, TaskStatuses
  <2>2. call.events \in 0..MaxEvents
        /\ call' = [call EXCEPT !.phase = "read", !.chunks = <<v>>, !.events = call.events]
    BY <1>5 DEF Inv, Typed, CallType
  <2>3. call.phase # "idle" /\ UNCHANGED turns
    BY <1>1 DEF ServiceReplies
  <2>4. /\ merged \in Partial(Values) /\ merged \in Slotted /\ task' = [task EXCEPT !.slots = merged]
        /\ task.status = "running" /\ task.agent = "service"
    BY <1>1, <1>5, <1>6, SlottedType
  <2>5. "read" \in {"open", "read"}
    OBVIOUS
  <2> QED BY <1>11, <2>1, <2>2, <2>3, <2>4, <2>5, AnswerTyped
<1>9. VerdictFits'
  BY <1>7, <1>8 DEF VerdictFits, Fits
<1>10. CorrectionHolds'
  <2>1. ASSUME NEW s \in DOMAIN merged PROVE merged[s] \in offered'[s]
    <3>1. s \in Slots
      BY <1>6, PartialIs
    <3> QED BY <1>1, <1>4, <1>6, <1>11, <3>1
  <2> QED BY <1>8, <2>1 DEF CorrectionHolds
<1> QED BY <1>8, <1>9, <1>10 DEF Inv

(* The simulator answers with its verdict on the slots it leaves.           *)
LEMMA SimulatorRepliesKeepsInv ==
  ASSUME Inv, SimulatorReplies
  PROVE  Inv'
<1>1. /\ task.agent = "simulator" /\ call.phase = "sent" /\ task.status = "running"
      /\ call.input \in Messages /\ task.slots \in Partial(Values)
      /\ task.intent \in Intents /\ task.first \in Messages
      /\ offered \in [Slots -> SUBSET (Values \cup {None})]
  BY DEF Inv, Typed, TaskType, CallOK, VerdictFits, SimulatorReplies
<1> DEFINE final == Simulated(task.slots, call.input)
           v     == SimulatedVerdict(final)
<1>2. final \in Partial(Values) /\ final \in Slotted
  BY <1>1, SimulatedGrows, SlottedType DEF Grows
<1>3. task' = [task EXCEPT !.slots = final] /\ call' = [call EXCEPT !.phase = "read", !.chunks = <<v>>]
  BY DEF SimulatorReplies
<1> HIDE DEF final
<1>4. v \in Verdicts /\ Fits(v, final)
  BY <1>1, VerdictFitsSlots DEF SimulatedVerdict, Verdicts, Fits
<1> HIDE DEF v
<1>5. /\ Typed' /\ CallOK' /\ task'.slots = final /\ task'.status = "running"
      /\ task'.agent = "simulator" /\ task'.intent = task.intent
      /\ call'.phase = "read" /\ call'.chunks = <<v>>
  <2>1. <<v>> \in Seq(TaskStatuses)
    BY <1>4, OneChunk DEF Verdicts, TaskStatuses
  <2>2. call.events \in 0..MaxEvents
        /\ call' = [call EXCEPT !.phase = "read", !.chunks = <<v>>, !.events = call.events]
    BY <1>3 DEF Inv, Typed, CallType
  <2>3. call.phase # "idle" /\ UNCHANGED <<turns, offered>>
    BY <1>1 DEF SimulatorReplies
  <2>4. task' = [task EXCEPT !.slots = final]
    BY <1>3
  <2> QED BY <1>1, <1>2, <2>1, <2>2, <2>3, <2>4, AnswerTyped
<1>6. VerdictFits'
  BY <1>4, <1>5 DEF VerdictFits, Fits
<1>7. CorrectionHolds'
  BY <1>5 DEF CorrectionHolds
<1> QED BY <1>5, <1>6, <1>7 DEF Inv

(* A status in a payload is a status.                                       *)
LEMMA ResolveStatusType ==
  ASSUME NEW p \in Payloads
  PROVE  ResolveStatus(p) \in TaskStatuses /\ p.slots \in Slotted
  BY PayloadsAssumption DEF ResolveStatus, TaskStatuses, Payload

(* Whatever payloads another agent sends, in a body or in an event, a slot  *)
(* of the task is one they offer or one it had.                             *)
LEMMA PayloadsKeepInv ==
  ASSUME Inv, task.agent = "other", call.phase # "idle",
         NEW ps \in Seq(Payloads), NEW phase \in {"open", "read"}, NEW events \in 0..MaxEvents,
         PayloadsToChunks(ps, phase, events)
  PROVE  Inv'
<1> DEFINE last        == LastGiven(ps)
           slots       == Merged(task.slots, [slots |-> last])
           chunks      == [i \in DOMAIN ps |-> ResolveStatus(ps[i])]
           assignments == {ps[i].slots : i \in DOMAIN ps}
<1>1. task.slots \in Slotted /\ \A s \in DOMAIN task.slots : task.slots[s] \in offered[s]
  BY DEF Inv, Typed, TaskType, CorrectionHolds
<1>2. /\ last \in Slotted
      /\ \A s \in DOMAIN last : \E a \in assignments : s \in DOMAIN a /\ last[s] = a[s]
  BY LastGivenType
<1>3. assignments \in SUBSET Slotted
  BY ResolveStatusType
<1>4. chunks \in Seq(TaskStatuses)
  <2>1. \A i \in DOMAIN ps : ResolveStatus(ps[i]) \in TaskStatuses
    BY ResolveStatusType
  <2>2. Len(ps) \in Nat /\ DOMAIN ps = 1..Len(ps)
    OBVIOUS
  <2>3. chunks \in [1..Len(ps) -> TaskStatuses]
    BY <2>1, <2>2
  <2> HIDE DEF chunks
  <2> QED BY <2>2, <2>3, SeqDef
<1>5. /\ task' = [task EXCEPT !.slots = slots]
      /\ call' = [call EXCEPT !.phase = phase, !.chunks = chunks, !.events = events]
      /\ offered' = [s \in Slots |-> offered[s] \cup Given(s, assignments)]
      /\ UNCHANGED turns
  BY DEF PayloadsToChunks
<1> HIDE DEF last, chunks, assignments
<1>6. /\ slots \in Slotted /\ DOMAIN slots = DOMAIN task.slots \cup DOMAIN last
      /\ \A s \in DOMAIN slots : slots[s] = IF s \in DOMAIN last THEN last[s] ELSE task.slots[s]
  <2>1. task.slots \in Partial(Values \cup {None}) /\ last \in Partial(Values \cup {None})
    BY <1>1, <1>2 DEF Slotted
  <2>2. /\ Merged(task.slots, [slots |-> last]) \in Partial(Values \cup {None})
        /\ DOMAIN Merged(task.slots, [slots |-> last]) = DOMAIN task.slots \cup DOMAIN last
        /\ \A s \in DOMAIN task.slots \cup DOMAIN last :
             Merged(task.slots, [slots |-> last])[s] = IF s \in DOMAIN last THEN last[s] ELSE task.slots[s]
    BY <2>1, MergedIs
  <2> HIDE DEF slots
  <2> QED BY <2>2 DEF Slotted, slots
<1> HIDE DEF slots
<1>7. /\ offered' \in [Slots -> SUBSET (Values \cup {None})]
      /\ \A s \in Slots : offered[s] \subseteq offered'[s]
      /\ \A a \in assignments : \A s \in DOMAIN a : a[s] \in offered'[s]
  BY <1>3, <1>5, OfferedGrows
<1>8. Typed' /\ CallOK' /\ task'.agent = "other" /\ task'.slots = slots
  BY <1>4, <1>5, <1>6, <1>7, AnswerTyped
<1>9. DOMAIN slots \subseteq Slots
  BY <1>6, PartialIs DEF Slotted
<1>10. ASSUME NEW s \in DOMAIN slots PROVE slots[s] \in offered'[s]
  <2>1. CASE s \in DOMAIN last
    BY <1>2, <1>6, <1>7, <2>1
  <2>2. CASE s \notin DOMAIN last
    BY <1>1, <1>6, <1>7, <1>9, <2>2
  <2> QED BY <2>1, <2>2
<1>11. CorrectionHolds'
  BY <1>8, <1>10 DEF CorrectionHolds
<1> QED BY <1>8, <1>11 DEF Inv, VerdictFits

(* A JSON body with any payloads, or none.                                  *)
LEMMA JsonArrivesKeepsInv ==
  ASSUME Inv, NEW ps \in Seq(Payloads), JsonArrives(ps)
  PROVE  Inv'
<1>1. call.events \in 0..MaxEvents /\ "read" \in {"open", "read"}
  BY DEF Inv, Typed, CallType
<1>2. task.agent = "other" /\ call.phase # "idle" /\ PayloadsToChunks(ps, "read", call.events)
  BY DEF JsonArrives
<1> QED BY <1>1, <1>2, PayloadsKeepInv

(* An event of a stream.                                                    *)
LEMMA EventArrivesKeepsInv ==
  ASSUME Inv, NEW ps \in Seq(Payloads), EventArrives(ps)
  PROVE  Inv'
<1> DEFINE events == call.events + Len(ps)
<1>1. call.events \in 0..MaxEvents
  BY DEF Inv, Typed, CallType
<1>2. /\ task.agent = "other" /\ call.phase # "idle" /\ events <= MaxEvents
      /\ PayloadsToChunks(ps, "open", events)
  BY DEF EventArrives
<1>3. events \in 0..MaxEvents /\ "open" \in {"open", "read"}
  BY <1>1, <1>2, BoundsAssumption
<1> HIDE DEF events
<1> QED BY <1>2, <1>3, PayloadsKeepInv

(* A response at fault is a failed chunk, which says nothing of the slots.  *)
LEMMA ResponseFailsKeepsInv ==
  ASSUME Inv, ResponseRefused \/ ResponseFails
  PROVE  Inv'
<1>1. <<"failed">> \in Seq(TaskStatuses) /\ "failed" \in Verdicts
  BY OneChunk DEF TaskStatuses, Verdicts
<1>2. /\ task.slots \in Slotted /\ call.events \in 0..MaxEvents
      /\ task.agent # "other" => task.slots \in Partial(Values)
      /\ offered \in [Slots -> SUBSET (Values \cup {None})]
      /\ call.phase # "idle" /\ UNCHANGED <<task, turns, offered>>
      /\ task' = [task EXCEPT !.slots = task.slots]
      /\ call' = [call EXCEPT !.phase = "read", !.chunks = <<"failed">>, !.events = call.events]
  BY DEF Inv, Typed, TaskType, CallType, ResponseRefused, ResponseFails
<1>3. /\ Typed' /\ CallOK'
      /\ call'.phase = "read" /\ call'.chunks = <<"failed">>
  BY <1>1, <1>2, AnswerTyped
<1>4. VerdictFits'
  BY <1>1, <1>2, <1>3 DEF Inv, VerdictFits, Fits
<1>5. CorrectionHolds'
  BY <1>2 DEF Inv, CorrectionHolds
<1> QED BY <1>3, <1>4, <1>5 DEF Inv

(* The end of a turn with a status, that of a chunk or of the timeout.      *)
LEMMA EndKeepsInv ==
  ASSUME Inv, call.phase # "idle", NEW status \in TaskStatuses,
         task' = [task EXCEPT !.status = status], call' = NoCall, UNCHANGED <<turns, offered>>,
         task.agent \in {"service", "simulator"} => status \in Verdicts /\ Fits(status, task.slots)
  PROVE  Inv'
<1>1. /\ task' \in TaskType /\ task'.status = status /\ task'.slots = task.slots
      /\ task'.agent = task.agent /\ task'.intent = task.intent /\ task'.first = task.first
  BY DEF Inv, Typed, TaskType
<1>2. Typed' /\ CallOK'
  BY <1>1, NoCallType DEF Inv, Typed, CallOK
<1>3. VerdictFits'
  BY <1>1, NoCallType DEF VerdictFits, Fits
<1>4. CorrectionHolds'
  BY <1>1 DEF Inv, CorrectionHolds
<1> QED BY <1>2, <1>3, <1>4 DEF Inv

(* A chunk gives the task its status.                                       *)
LEMMA HandleChunkKeepsInv ==
  ASSUME Inv, HandleChunk
  PROVE  Inv'
<1> DEFINE c == Head(call.chunks)
<1>1. /\ call.chunks \in Seq(TaskStatuses) /\ call.chunks # <<>> /\ call.phase # "idle"
      /\ UNCHANGED <<turns, offered>> /\ task' = [task EXCEPT !.status = c]
  BY DEF Inv, Typed, CallType, CallOK, HandleChunk
<1>2. c \in TaskStatuses /\ Tail(call.chunks) \in Seq(TaskStatuses)
  BY <1>1
<1>3. task.agent \in {"service", "simulator"} => c \in Verdicts /\ Fits(c, task.slots)
  BY <1>1 DEF Inv, VerdictFits
<1>4. CASE c \in Concluding
  BY <1>1, <1>2, <1>3, <1>4, EndKeepsInv DEF HandleChunk
<1>5. CASE c \notin Concluding
  <2>1. task.agent \notin {"service", "simulator"}
    BY <1>3, <1>5 DEF Concluding, Verdicts
  <2>2. call' = [call EXCEPT !.chunks = Tail(call.chunks)]
    BY <1>5 DEF HandleChunk
  <2>3. task' \in TaskType /\ task'.agent = task.agent
    BY <1>1, <1>2 DEF Inv, Typed, TaskType
  <2>4. call' \in CallType /\ call'.phase = call.phase /\ call'.input = call.input
    BY <1>2, <2>2 DEF Inv, Typed, CallType
  <2>5. Typed' /\ CallOK'
    BY <1>1, <2>3, <2>4 DEF Inv, Typed, CallOK
  <2>6. task'.slots = task.slots /\ offered' = offered
    BY <1>1 DEF Inv, Typed, TaskType
  <2>7. CorrectionHolds'
    BY <2>3, <2>6 DEF Inv, CorrectionHolds
  <2> QED BY <2>1, <2>3, <2>5, <2>7 DEF Inv, VerdictFits
<1> QED BY <1>4, <1>5

(* A stream that ends without a verdict is that of another agent.           *)
LEMMA QuietEndKeepsInv ==
  ASSUME Inv, StreamEnds \/ RunsOut
  PROVE  Inv'
<1>1. UNCHANGED <<task, turns, offered>> /\ call' = NoCall
  BY DEF StreamEnds, RunsOut
<1>2. task.agent \notin {"service", "simulator"}
  BY DEF Inv, VerdictFits, StreamEnds, RunsOut
<1>3. Typed' /\ CallOK'
  BY <1>1, NoCallType DEF Inv, Typed, CallOK
<1> QED BY <1>1, <1>2, <1>3 DEF Inv, VerdictFits, CorrectionHolds

(* The timeout fails the task.                                              *)
LEMMA TimesOutKeepsInv ==
  ASSUME Inv, TimesOut
  PROVE  Inv'
<1>1. "failed" \in TaskStatuses /\ "failed" \in Verdicts /\ Fits("failed", task.slots)
  BY DEF TaskStatuses, Verdicts, Fits
<1>2. /\ call.phase # "idle" /\ call' = NoCall /\ UNCHANGED <<turns, offered>>
      /\ task' = [task EXCEPT !.status = "failed"]
  BY DEF TimesOut, TimesOutOn
<1> QED BY <1>1, <1>2, EndKeepsInv

(* Every step preserves the invariant, whichever action takes it.           *)
LEMMA NextInv == Inv /\ [Next]_vars => Inv'
<1> SUFFICES ASSUME Inv, [Next]_vars PROVE Inv'
  OBVIOUS
<1>1. ASSUME NEW m \in Messages, Drain(m) \/ Resume(m)
      PROVE  Inv'
  BY <1>1, DrainKeepsInv, ResumeKeepsInv
<1>2. ASSUME NEW ps \in SeqOf(Payloads, MaxEvents), JsonArrives(ps) \/ EventArrives(ps)
      PROVE  Inv'
  <2>1. ps \in Seq(Payloads)
    BY SeqDef DEF SeqOf
  <2> QED BY <1>2, <2>1, JsonArrivesKeepsInv, EventArrivesKeepsInv
<1>4. CASE ServiceReplies \/ SimulatorReplies
  BY <1>4, ServiceRepliesKeepsInv, SimulatorRepliesKeepsInv
<1>5. CASE ResponseRefused \/ ResponseFails \/ StreamEnds \/ HandleChunk \/ RunsOut \/ TimesOut
  BY <1>5, ResponseFailsKeepsInv, QuietEndKeepsInv, HandleChunkKeepsInv, TimesOutKeepsInv
<1>6. CASE UNCHANGED vars
  BY <1>6 DEF Inv, Typed, CallOK, VerdictFits, Fits, CorrectionHolds, vars
<1> QED BY <1>1, <1>2, <1>4, <1>5, <1>6 DEF Next

-----------------------------------------------------------------------------
(* What a step does to the slots.                                           *)

(* A step that is not the user's takes no slot.                             *)
LEMMA AnswersKeepSlots ==
  ASSUME Inv,
         \/ ServiceReplies \/ SimulatorReplies
         \/ \E ps \in SeqOf(Payloads, MaxEvents) : JsonArrives(ps) \/ EventArrives(ps)
         \/ ResponseRefused \/ ResponseFails \/ StreamEnds \/ HandleChunk \/ RunsOut \/ TimesOut
  PROVE  DOMAIN task.slots \subseteq DOMAIN task'.slots
<1>1. /\ task \in TaskType /\ task.slots \in Slotted /\ task.intent \in Intents
      /\ task.first \in Messages
  BY DEF Inv, Typed, TaskType
<1>2. ASSUME NEW slots, task' = [task EXCEPT !.slots = slots],
             DOMAIN task.slots \subseteq DOMAIN slots
      PROVE  DOMAIN task.slots \subseteq DOMAIN task'.slots
  BY <1>1, <1>2 DEF TaskType
<1>3. ASSUME NEW given, task' = [task EXCEPT !.slots = Merged(task.slots, given)]
      PROVE  DOMAIN task.slots \subseteq DOMAIN task'.slots
  <2>1. DOMAIN task.slots \subseteq DOMAIN Merged(task.slots, given)
    BY DEF Merged, Updated
  <2> QED BY <1>2, <1>3, <2>1
<1>4. CASE ServiceReplies
  BY <1>3, <1>4 DEF ServiceReplies
<1>5. CASE SimulatorReplies
  <2>1. call.input \in Messages
    BY <1>5 DEF Inv, CallOK, SimulatorReplies
  <2>2. Grows(task.slots, Simulated(task.slots, call.input))
    <3>1. task.slots \in Partial(Values)
      BY <1>5 DEF Inv, Typed, SimulatorReplies
    <3> QED BY <1>1, <2>1, <3>1, SimulatedGrows
  <2>3. task' = [task EXCEPT !.slots = Simulated(task.slots, call.input)]
    BY <1>5 DEF SimulatorReplies
  <2> QED BY <1>2, <2>2, <2>3 DEF Grows
<1>6. ASSUME NEW ps, JsonArrives(ps) \/ EventArrives(ps)
      PROVE  DOMAIN task.slots \subseteq DOMAIN task'.slots
  BY <1>3, <1>6 DEF JsonArrives, EventArrives, PayloadsToChunks
<1>8. CASE ResponseRefused \/ ResponseFails \/ StreamEnds \/ RunsOut
  BY <1>8 DEF ResponseRefused, ResponseFails, StreamEnds, RunsOut
<1>9. CASE HandleChunk \/ TimesOut
  BY <1>1, <1>9 DEF HandleChunk, TimesOut, TimesOutOn, TaskType
<1> QED BY <1>4, <1>5, <1>6, <1>8, <1>9

(* It is a step of a call, and the task keeps its agent.                    *)
LEMMA AnswersInCall ==
  ASSUME Inv, Next, ~ \E m \in Messages : Drain(m) \/ Resume(m)
  PROVE  call.phase # "idle" /\ task'.agent = task.agent
<1>1. task \in TaskType
  BY DEF Inv, Typed
<1>2. ASSUME NEW ps, JsonArrives(ps) \/ EventArrives(ps)
      PROVE  call.phase # "idle" /\ task'.agent = task.agent
  BY <1>1, <1>2 DEF JsonArrives, EventArrives, PayloadsToChunks, TaskType
<1>3. CASE ServiceReplies \/ SimulatorReplies
  BY <1>1, <1>3 DEF ServiceReplies, SimulatorReplies, TaskType
<1>4. CASE ResponseRefused \/ ResponseFails \/ StreamEnds \/ RunsOut
  BY <1>4 DEF ResponseRefused, ResponseFails, StreamEnds, RunsOut
<1>5. CASE HandleChunk \/ TimesOut
  BY <1>1, <1>5 DEF Inv, CallOK, HandleChunk, TimesOut, TimesOutOn, TaskType
<1> QED BY <1>2, <1>3, <1>4, <1>5 DEF Next

(* A message takes what it names and what its number could be meant for.    *)
LEMMA ResumeTakes ==
  ASSUME Inv, NEW m \in Messages, Drain(m) \/ Resume(m)
  PROVE  \A s \in Filled(task.slots) \ Filled(task'.slots) :
           /\ call.phase = "idle" /\ call'.phase # "idle"
           /\ s \in call'.input.cues \cup CouldBe(call'.input)
<1>1. task \in TaskType /\ task.slots \in Slotted
  BY DEF Inv, Typed, TaskType
<1>2. CASE Drain(m)
  <2>1. task'.slots = task.slots
    BY <1>1, <1>2 DEF Drain, RunTask, TaskType
  <2> QED BY <2>1
<1>3. CASE Resume(m)
  <2> DEFINE slots == Prepared(task.slots, m)
  <2>1. /\ \A s \in DOMAIN task.slots \ DOMAIN slots : s \in m.cues \cup CouldBe(m)
        /\ \A s \in DOMAIN slots : slots[s] = task.slots[s]
    BY <1>1, PreparedType DEF Slotted
  <2>2. call.phase = "idle" /\ RunTask(slots, m)
    BY <1>3 DEF Resume
  <2> HIDE DEF slots
  <2>3. task'.slots = slots
    BY <1>1, <2>2 DEF RunTask, TaskType
  <2>4. call'.phase # "idle" /\ call'.input = m
    BY <2>2, NoCallType DEF RunTask, CallType
  <2>5. \A s \in Filled(task.slots) \ Filled(slots) : s \in DOMAIN task.slots \ DOMAIN slots
    BY <2>1 DEF Filled
  <2> QED BY <2>1, <2>2, <2>3, <2>4, <2>5
<1> QED BY <1>2, <1>3

-----------------------------------------------------------------------------
(* The theorems.                                                            *)

(* The strengthened invariant holds in every state of every behaviour.      *)
THEOREM Invariance == Spec => []Inv
  BY InitInv, NextInv, PTL DEF Spec

(* The task, its slots and the call of its agent keep to the values the     *)
(* code can give them, for any messages, responses and number of turns.     *)
THEOREM TypeCorrect == Spec => []TypeOK
  BY Invariance, InvSuffices, PTL

(* A service and the simulator act only on all slots and within the         *)
(* balance, and ask only for what the task lacks, in any number of turns.   *)
THEOREM AgentsActOnAllSlots == Spec => []ActsOnAllSlots
  BY Invariance, InvSuffices, PTL

(* Nothing but a later answer gives a corrected slot a value: not what a    *)
(* service repeats, not an older response, not a turn that failed.          *)
THEOREM CorrectionsHold == Spec => []CorrectionHolds
  BY Invariance, InvSuffices, PTL

(* Only the user's words and, with an agent that is none of the services, a *)
(* null in its answer take the value of a slot.                             *)
THEOREM SlotsAreKept == Spec => SlotsKept
<1> DEFINE Keeps == \A s \in Filled(task.slots) \ Filled(task'.slots) :
                      \/ /\ call.phase = "idle" /\ call'.phase # "idle"
                         /\ s \in call'.input.cues \cup CouldBe(call'.input)
                      \/ task.agent = "other" /\ call.phase # "idle" /\ s \in DOMAIN task'.slots
<1>1. Inv /\ Next => Keeps
  <2> SUFFICES ASSUME Inv, Next PROVE Keeps
    OBVIOUS
  <2>1. ASSUME NEW m \in Messages, Drain(m) \/ Resume(m)
        PROVE  Keeps
    BY <2>1, ResumeTakes
  <2>2. ASSUME ~ \E m \in Messages : Drain(m) \/ Resume(m)
        PROVE  Keeps
    <3>1. /\ DOMAIN task.slots \subseteq DOMAIN task'.slots
          /\ call.phase # "idle" /\ task'.agent = task.agent
      BY <2>2, AnswersKeepSlots, AnswersInCall DEF Next
    <3>2. Typed'
      BY NextInv DEF Inv
    <3>3. CASE task.agent = "other"
      BY <3>1, <3>3 DEF Filled
    <3>4. CASE task.agent # "other"
      <4>1. task'.slots \in Partial(Values)
        BY <3>1, <3>2, <3>4 DEF Typed
      <4>2. Filled(task'.slots) = DOMAIN task'.slots
        BY <4>1, SlottedType
      <4> QED BY <3>1, <4>2 DEF Filled
    <3> QED BY <3>3, <3>4
  <2> QED BY <2>1, <2>2
<1>2. Inv /\ [Next]_vars => [Keeps]_vars
  BY <1>1
<1> QED BY <1>2, Invariance, PTL DEF Spec, SlotsKept
=============================================================================
