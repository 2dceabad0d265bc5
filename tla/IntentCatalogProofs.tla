-------------------------- MODULE IntentCatalogProofs --------------------------
(***************************************************************************)
(* Theorems about modules IntentRegistry and IntentCatalog, for any        *)
(* intents, administrators and either repository: deleted intents do not   *)
(* come back by themselves, and whatever readers of the catalog see or     *)
(* dispatch to is of one state of the registry.                            *)
(***************************************************************************)
EXTENDS IntentCatalog, FiniteSetTheorems, TLAPS

(* A record submitted whole, but for its status.                            *)
Whole(record) ==
  \E r \in Payloads \cup {Initial[d] : d \in Codes} :
    r # Absent /\ record = [r EXCEPT !.status = record.status]

RegistryInv ==
  /\ RegistryTypeOK
  /\ \A a \in Admins : admin[a].pc = "activating" => admin[a].new = admin[a].code
  /\ \A a \in Admins : admin[a].pc = "updating" => backend = "database"
  /\ backend = "memory" =>
       /\ \A c \in Codes : Present[c] # Absent => Whole(Present[c])
       /\ \A a \in Admins : admin[a].pc = "activating" => Whole(admin[a].payload)

(* The registry's history only grows.                                       *)
Grows ==
  /\ Len(history) <= Len(history')
  /\ \A v \in 1..Len(history) : history'[v] = history[v]

(* The step of NothingRevived.                                              *)
Revived ==
  \A c \in Codes :
    Present[c] = Absent /\ Present'[c] # Absent =>
      \/ \E p \in Payloads : CreateIntent(c, p)
      \/ \E old \in Codes \ {c} : Present[old] # Absent /\ Present'[old] = Absent

Good == RegistryInv' /\ Grows /\ Revived

-----------------------------------------------------------------------------
(* Lemmas on the operations of the repositories.                            *)

(* The present registry is one.                                             *)
LEMMA PresentType ==
  ASSUME history \in Seq(Registry), history # <<>>
  PROVE  Present \in Registry /\ Len(history) \in Nat \ {0}
  BY DEF Present

(* A write is the present from then on, and changes nothing before.         *)
LEMMA WriteHistory ==
  ASSUME history \in Seq(Registry), NEW registry \in Registry, Write(registry)
  PROVE  /\ history' \in Seq(Registry) /\ history' # <<>>
         /\ Present' = registry
         /\ Grows
<1>1. history' = Append(history, registry)
  BY DEF Write
<1> QED BY <1>1 DEF Present, Grows

(* Without one, the history grows by nothing.                               *)
LEMMA SameHistory ==
  ASSUME history \in Seq(Registry), UNCHANGED history
  PROVE  Grows /\ Present' = Present
  BY DEF Grows, Present

(* An update leaves a registry.                                             *)
LEMMA ReplacedType ==
  ASSUME history \in Seq(Registry), history # <<>>, NEW code \in Codes, NEW new \in Codes,
         NEW record \in Record
  PROVE  Replaced(code, new, record) \in Registry
  BY PresentType DEF Replaced, Registry

(* So does one that merges columns, of records, into a record.              *)
LEMMA MergedType ==
  ASSUME NEW row \in Record, NEW payload \in Record, NEW present \in Record
  PROVE  Merged(row, payload, present) \in Record
<1> DEFINE Col(read, set, is) == IF set # read THEN set ELSE is
           field    == [f \in Fields |-> Col(row.field[f], payload.field[f], present.field[f])]
           status   == Col(row.status, payload.status, present.status)
           fallback == Col(row.fallback, payload.fallback, present.fallback)
           priority == Col(row.priority, payload.priority, present.priority)
<1>1. field \in [Fields -> Values]
  BY DEF Record
<1>2. status \in Statuses /\ fallback \in BOOLEAN /\ priority \in Priorities
  BY DEF Record
<1>3. Merged(row, payload, present) = [field |-> field, status |-> status,
                                       fallback |-> fallback, priority |-> priority]
  BY DEF Merged
<1> HIDE DEF field, status, fallback, priority
<1> QED BY <1>1, <1>2, <1>3 DEF Record

(* A request at rest is one.                                                *)
LEMMA IdleType == Idle \in AdminState /\ Idle.pc = "idle"
<1>1. (CHOOSE c \in Codes : TRUE) \in Codes
  BY CodesAssumption
<1> QED BY <1>1 DEF Idle, AdminState

(* An update, of a record that may become another's, revives nothing.       *)
LEMMA ReplacedRevived ==
  ASSUME RegistryInv, NEW code \in Codes, NEW new \in Codes, NEW record \in Record,
         MayUpdate(code, new), Present' = Replaced(code, new, record)
  PROVE  Revived
<1> SUFFICES ASSUME NEW c \in Codes, Present[c] = Absent, Present'[c] # Absent
             PROVE  \E old \in Codes \ {c} : Present[old] # Absent /\ Present'[old] = Absent
  BY DEF Revived
<1>1. c = new /\ new # code /\ Present[code] # Absent
  BY DEF Replaced, MayUpdate
<1>2. Present'[code] = Absent
  BY <1>1 DEF Replaced
<1> QED BY <1>1, <1>2

(* What a payload of an administrator is.                                   *)
LEMMA PayloadWhole ==
  ASSUME NEW p \in Payloads
  PROVE  p \in Record /\ p # Absent /\ Whole(p)
<1>1. p \in Record /\ p # Absent
  BY PayloadsAssumption, AbsentAssumption
<1>2. p = [p EXCEPT !.status = p.status]
  BY <1>1 DEF Record
<1> QED BY <1>1, <1>2 DEF Whole

(* A whole record with another status is one.                               *)
LEMMA StatusWhole ==
  ASSUME NEW record \in Record, Whole(record), NEW status \in Statuses
  PROVE  LET new == [record EXCEPT !.status = status] IN new \in Record /\ Whole(new)
<1> DEFINE new == [record EXCEPT !.status = status]
<1>1. new \in Record /\ new.status = status
  BY DEF Record
<1>2. PICK r \in Payloads \cup {Initial[d] : d \in Codes} :
        r # Absent /\ record = [r EXCEPT !.status = record.status]
  BY DEF Whole
<1>3. r \in Record
  BY <1>2, PayloadsAssumption, InitialAssumption DEF Registry
<1>4. new = [r EXCEPT !.status = new.status]
  BY <1>1, <1>2, <1>3 DEF Record
<1> QED BY <1>1, <1>2, <1>4 DEF Whole

-----------------------------------------------------------------------------
(* Each action of the registry.                                             *)

(* A request that goes on, or rests, with a history that only grew.         *)
LEMMA AdminSteps ==
  ASSUME RegistryInv, backend' = backend, history' \in Seq(Registry), history' # <<>>,
         NEW a \in Admins, NEW u \in AdminState, admin' = [admin EXCEPT ![a] = u],
         u.pc # "idle" => u.payload \in Record,
         u.pc = "updating" => u.row \in Record /\ backend = "database",
         u.pc = "activating" => u.new = u.code,
         backend = "memory" =>
           /\ \A c \in Codes : Present'[c] # Absent => Whole(Present'[c])
           /\ u.pc = "activating" => Whole(u.payload)
  PROVE  RegistryInv'
<1>1. admin \in [Admins -> AdminState] /\ backend \in Backends
  BY DEF RegistryInv, RegistryTypeOK
<1>2. admin' \in [Admins -> AdminState] /\ admin'[a] = u
        /\ \A b \in Admins \ {a} : admin'[b] = admin[b]
  BY <1>1
<1>3. RegistryTypeOK'
  BY <1>1, <1>2 DEF RegistryInv, RegistryTypeOK
<1>4. \A b \in Admins : /\ admin'[b].pc = "activating" => admin'[b].new = admin'[b].code
                        /\ admin'[b].pc = "updating" => backend' = "database"
  BY <1>2 DEF RegistryInv
<1>5. ASSUME backend' = "memory"
      PROVE  /\ \A c \in Codes : Present'[c] # Absent => Whole(Present'[c])
             /\ \A b \in Admins : admin'[b].pc = "activating" => Whole(admin'[b].payload)
  BY <1>2, <1>5 DEF RegistryInv
<1> QED BY <1>3, <1>4, <1>5 DEF RegistryInv, Whole

(* A write of records that are whole, by a request of one step.             *)
LEMMA WriteKeepsInv ==
  ASSUME RegistryInv, UNCHANGED <<backend, admin>>, NEW registry \in Registry, Write(registry),
         backend = "memory" => \A c \in Codes : registry[c] # Absent => Whole(registry[c])
  PROVE  RegistryInv' /\ Grows /\ Present' = registry
<1>1. history' \in Seq(Registry) /\ history' # <<>> /\ Present' = registry /\ Grows
  BY WriteHistory DEF RegistryInv, RegistryTypeOK
<1>2. RegistryTypeOK'
  BY <1>1 DEF RegistryInv, RegistryTypeOK
<1> QED BY <1>1, <1>2 DEF RegistryInv, Whole

(* An update under the lock writes a whole record.                          *)
LEMMA LockedWrites ==
  ASSUME RegistryInv, NEW code \in Codes, NEW new \in Codes, NEW payload \in Record,
         Whole(payload), UpdateLocked(code, new, payload)
  PROVE  LET registry == Replaced(code, new, payload)
         IN  /\ MayUpdate(code, new) /\ Write(registry) /\ registry \in Registry
             /\ \A c \in Codes : registry[c] # Absent => Whole(registry[c])
<1> DEFINE registry == Replaced(code, new, payload)
<1>1. registry \in Registry
  BY ReplacedType DEF RegistryInv, RegistryTypeOK
<1>2. backend = "memory" /\ MayUpdate(code, new) /\ Write(registry)
  BY DEF UpdateLocked
<1>3. \A c \in Codes : registry[c] # Absent => Whole(registry[c])
  BY <1>2 DEF Replaced, RegistryInv
<1> QED BY <1>1, <1>2, <1>3

(* POST and DELETE.                                                         *)
LEMMA CreateAndDeleteGood ==
  ASSUME RegistryInv, NEW c \in Codes,
         DeleteIntent(c) \/ \E p \in Payloads : CreateIntent(c, p)
  PROVE  Good
<1>1. Present \in Registry
  BY PresentType DEF RegistryInv, RegistryTypeOK
<1>2. ASSUME DeleteIntent(c)
      PROVE  Good
  <2> DEFINE registry == [Present EXCEPT ![c] = Absent]
  <2>1. registry \in Registry /\ Write(registry) /\ UNCHANGED <<backend, admin>>
    BY <1>1, <1>2 DEF Registry, DeleteIntent
  <2>2. \A d \in Codes : registry[d] = Present[d] \/ registry[d] = Absent
    BY <1>1 DEF Registry
  <2> HIDE DEF registry
  <2>3. RegistryInv' /\ Grows /\ Present' = registry
    BY <2>1, <2>2, WriteKeepsInv DEF RegistryInv
  <2> QED BY <2>2, <2>3 DEF Good, Revived
<1>3. ASSUME NEW p \in Payloads, CreateIntent(c, p)
      PROVE  Good
  <2> DEFINE registry == [Present EXCEPT ![c] = p]
  <2>1. p \in Record /\ Whole(p)
    BY PayloadWhole
  <2>2. registry \in Registry /\ Write(registry) /\ UNCHANGED <<backend, admin>>
    BY <1>1, <1>3, <2>1 DEF Registry, CreateIntent
  <2>3. \A d \in Codes : registry[d] = Present[d] \/ (d = c /\ registry[d] = p)
    BY <1>1 DEF Registry
  <2> HIDE DEF registry
  <2>4. RegistryInv' /\ Grows /\ Present' = registry
    BY <2>1, <2>2, <2>3, WriteKeepsInv DEF RegistryInv
  <2> QED BY <1>3, <2>3, <2>4 DEF Good, Revived
<1> QED BY <1>2, <1>3

(* PUT, in memory at once, in a database up to the read.                    *)
LEMMA UpdateGood ==
  ASSUME RegistryInv, NEW c \in Codes, NEW new \in Codes, NEW p \in Payloads,
         UpdateIntent(c, new, p)
  PROVE  Good
<1>1. p \in Record /\ Whole(p) /\ history \in Seq(Registry) /\ history # <<>>
  BY PayloadWhole DEF RegistryInv, RegistryTypeOK
<1>2. ASSUME UpdateLocked(c, new, p), UNCHANGED <<backend, admin>>
      PROVE  Good
  <2> DEFINE registry == Replaced(c, new, p)
  <2>1. MayUpdate(c, new) /\ Write(registry) /\ registry \in Registry
          /\ \A d \in Codes : registry[d] # Absent => Whole(registry[d])
    BY <1>1, <1>2, LockedWrites
  <2> HIDE DEF registry
  <2>2. RegistryInv' /\ Grows /\ Present' = registry
    BY <1>2, <2>1, WriteKeepsInv
  <2>3. Revived
    BY <1>1, <2>1, <2>2, ReplacedRevived DEF registry
  <2> QED BY <2>2, <2>3 DEF Good
<1>3. ASSUME NEW a \in Admins, UpdateRead(a, c, new, p), UNCHANGED backend
      PROVE  Good
  <2> DEFINE u == [pc |-> "updating", code |-> c, new |-> new, payload |-> p, row |-> Present[c]]
  <2>1. Present[c] \in Record
    BY <1>1, <1>3, PresentType DEF UpdateRead, MayUpdate, Registry
  <2>2. u \in AdminState /\ u.pc = "updating" /\ u.payload = p /\ u.row = Present[c]
    BY <1>1, <2>1 DEF AdminState
  <2>3. admin' = [admin EXCEPT ![a] = u] /\ UNCHANGED history /\ backend = "database"
    BY <1>3 DEF UpdateRead
  <2> HIDE DEF u
  <2>4. Grows /\ Present' = Present
    BY <1>1, <2>3, SameHistory
  <2>5. RegistryInv'
    BY <1>1, <1>3, <2>1, <2>2, <2>3, AdminSteps
  <2> QED BY <2>4, <2>5 DEF Good, Revived
<1> QED BY <1>2, <1>3 DEF UpdateIntent

(* The commit of an update in a database.                                   *)
LEMMA CommitGood ==
  ASSUME RegistryInv, NEW a \in Admins, Commit(a)
  PROVE  Good
<1> DEFINE u      == admin[a]
           merged == Merged(u.row, u.payload, Present[u.code])
<1>1. /\ history \in Seq(Registry) /\ history # <<>> /\ u \in AdminState
      /\ u.code \in Codes /\ u.new \in Codes
      /\ u.payload \in Record /\ u.row \in Record /\ backend = "database"
  BY DEF RegistryInv, RegistryTypeOK, Commit, AdminState
<1>2. admin' = [admin EXCEPT ![a] = Idle] /\ UNCHANGED backend /\ Idle \in AdminState
        /\ Idle.pc = "idle"
  BY IdleType DEF Commit
<1>3. CASE ~MayUpdate(u.code, u.new)
  <2>1. UNCHANGED history
    BY <1>3 DEF Commit
  <2>2. Grows /\ Present' = Present
    BY <1>1, <2>1, SameHistory
  <2>3. RegistryInv'
    BY <1>1, <1>2, <2>1, AdminSteps
  <2> QED BY <2>2, <2>3 DEF Good, Revived
<1>4. CASE MayUpdate(u.code, u.new)
  <2>1. Present[u.code] \in Record
    BY <1>1, <1>4, PresentType DEF MayUpdate, Registry
  <2>2. merged \in Record
    BY <1>1, <2>1, MergedType
  <2>3. Write(Replaced(u.code, u.new, merged))
    BY <1>4 DEF Commit
  <2> HIDE DEF merged
  <2>4. Replaced(u.code, u.new, merged) \in Registry
    BY <1>1, <2>2, ReplacedType
  <2>5. history' \in Seq(Registry) /\ history' # <<>> /\ Grows
          /\ Present' = Replaced(u.code, u.new, merged)
    BY <1>1, <2>3, <2>4, WriteHistory
  <2>6. RegistryInv'
    BY <1>1, <1>2, <2>5, AdminSteps
  <2>7. Revived
    BY <1>1, <1>4, <2>2, <2>5, ReplacedRevived
  <2> QED BY <2>5, <2>6, <2>7 DEF Good
<1> QED BY <1>3, <1>4

(* A change of status, from the read to the write.                          *)
LEMMA StatusGood ==
  ASSUME RegistryInv, NEW a \in Admins,
         \/ \E c \in Codes, status \in {"active", "inactive"} : ReadForStatus(a, c, status)
         \/ WriteStatus(a)
  PROVE  Good
<1>1. history \in Seq(Registry) /\ history # <<>> /\ Present \in Registry
  BY PresentType DEF RegistryInv, RegistryTypeOK
<1>2. ASSUME NEW c \in Codes, NEW status \in {"active", "inactive"}, ReadForStatus(a, c, status)
      PROVE  Good
  <2> DEFINE payload == [Present[c] EXCEPT !.status = status]
             u == [pc |-> "activating", code |-> c, new |-> c, payload |-> payload, row |-> Absent]
  <2>1. Present[c] \in Record /\ status \in Statuses /\ Present[c] # Absent
    BY <1>1, <1>2 DEF ReadForStatus, Registry, Statuses
  <2>2. payload \in Record
    BY <2>1 DEF Record
  <2>3. backend = "memory" => Whole(payload)
    BY <2>1, StatusWhole DEF RegistryInv
  <2>4. admin' = [admin EXCEPT ![a] = u] /\ UNCHANGED <<backend, history>>
    BY <1>2 DEF ReadForStatus
  <2> HIDE DEF payload
  <2>5. u \in AdminState /\ u.pc = "activating" /\ u.payload = payload /\ u.new = u.code
    BY <2>2 DEF AdminState
  <2> HIDE DEF u
  <2>6. Grows /\ Present' = Present
    BY <1>1, <2>4, SameHistory
  <2>7. backend = "memory" => \A d \in Codes : Present'[d] # Absent => Whole(Present'[d])
    BY <2>6 DEF RegistryInv
  <2>8. RegistryInv'
    BY <1>1, <2>2, <2>3, <2>4, <2>5, <2>7, AdminSteps
  <2> QED BY <2>6, <2>8 DEF Good, Revived
<1>3. ASSUME WriteStatus(a)
      PROVE  Good
  <2> DEFINE u == admin[a]
  <2>1. /\ u.code \in Codes /\ u.new = u.code /\ u.payload \in Record
        /\ backend = "memory" => Whole(u.payload)
        /\ Idle \in AdminState /\ Idle.pc = "idle" /\ UNCHANGED backend
    BY <1>3, IdleType DEF RegistryInv, RegistryTypeOK, WriteStatus, AdminState
  <2>2. ASSUME UpdateRead(a, u.code, u.new, u.payload)
        PROVE  Good
    <3> DEFINE w == [pc |-> "updating", code |-> u.code, new |-> u.new,
                     payload |-> u.payload, row |-> Present[u.code]]
    <3>1. Present[u.code] \in Record
      BY <1>1, <2>1, <2>2 DEF UpdateRead, MayUpdate, Registry
    <3>2. admin' = [admin EXCEPT ![a] = w] /\ UNCHANGED history /\ backend = "database"
      BY <2>2 DEF UpdateRead
    <3>3. w \in AdminState /\ w.pc = "updating" /\ w.payload \in Record /\ w.row \in Record
      BY <2>1, <3>1 DEF AdminState
    <3> HIDE DEF w
    <3>4. Grows /\ Present' = Present
      BY <1>1, <3>2, SameHistory
    <3>5. RegistryInv'
      BY <1>1, <2>1, <3>2, <3>3, AdminSteps
    <3> QED BY <3>4, <3>5 DEF Good, Revived
  <2>3. ASSUME UpdateLocked(u.code, u.new, u.payload), admin' = [admin EXCEPT ![a] = Idle]
        PROVE  Good
    <3> DEFINE registry == Replaced(u.code, u.new, u.payload)
    <3>1. backend = "memory"
      BY <2>3 DEF UpdateLocked
    <3>2. MayUpdate(u.code, u.new) /\ Write(registry) /\ registry \in Registry
            /\ \A d \in Codes : registry[d] # Absent => Whole(registry[d])
      BY <2>1, <2>3, <3>1, LockedWrites
    <3>3. history' \in Seq(Registry) /\ history' # <<>> /\ Present' = registry /\ Grows
      BY <1>1, <3>2, WriteHistory
    <3>4. Revived
      BY <2>1, <3>2, <3>3, ReplacedRevived
    <3> HIDE DEF registry
    <3>5. RegistryInv'
      BY <1>1, <2>1, <2>3, <3>2, <3>3, AdminSteps
    <3> QED BY <3>3, <3>4, <3>5 DEF Good
  <2>4. ASSUME UNCHANGED history, admin' = [admin EXCEPT ![a] = Idle]
        PROVE  Good
    <3>1. Grows /\ Present' = Present
      BY <1>1, <2>4, SameHistory
    <3>2. backend = "memory" => \A d \in Codes : Present'[d] # Absent => Whole(Present'[d])
      BY <3>1 DEF RegistryInv
    <3>3. RegistryInv'
      BY <1>1, <2>1, <2>4, <3>2, AdminSteps
    <3> QED BY <3>1, <3>3 DEF Good, Revived
  <2> QED BY <1>3, <2>2, <2>3, <2>4 DEF WriteStatus
<1> QED BY <1>2, <1>3

(* Every step of the registry.                                              *)
LEMMA RegistryGood == RegistryInv /\ RegistryNext => Good
  BY CreateAndDeleteGood, UpdateGood, CommitGood, StatusGood DEF RegistryNext

-----------------------------------------------------------------------------
(* Snapshots.                                                               *)

(* A snapshot of a state of the registry holds definitions, and at most one *)
(* fallback.                                                                *)
LEMMA SnapshotType ==
  ASSUME NEW registry \in Registry, NEW s \in Snapshots(registry)
  PROVE  /\ s.active = Routable(registry) /\ s.active \in Definitions
         /\ s.fallback \in FallbackOf(registry) /\ s.fallback \in Definitions
         /\ Cardinality(DOMAIN s.fallback) <= 1
         /\ s.priorities \in UNION {[codes -> Priorities] : codes \in SUBSET Codes}
<1> DEFINE fallbacks == Fallbacks(registry)
<1>1. /\ Active(registry) \in SUBSET Codes /\ fallbacks \in SUBSET Codes
      /\ \A c \in Active(registry) : registry[c] \in Record
      /\ \A c \in fallbacks : registry[c] \in Record
  BY DEF Active, Fallbacks, Registry
<1>2. Routable(registry) \in Definitions
  <2>1. CASE Routable(registry) = DemoIntents
    BY <2>1, DemoAssumption DEF Definitions
  <2>2. CASE Routable(registry) = Restricted(registry, Active(registry) \ fallbacks)
    <3> DEFINE codes == Active(registry) \ fallbacks
    <3>1. codes \in SUBSET Codes /\ \A c \in codes : registry[c] \in Record
      BY <1>1
    <3> HIDE DEF codes
    <3>2. Restricted(registry, codes) \in [codes -> Record]
      BY <3>1 DEF Restricted
    <3> QED BY <2>2, <3>1, <3>2 DEF Definitions, codes
  <2> QED BY <2>1, <2>2 DEF Routable
<1>3. ASSUME NEW f \in FallbackOf(registry)
      PROVE  f \in Definitions /\ Cardinality(DOMAIN f) <= 1
  <2>1. CASE f = Nothing
    <3>1. f \in [{} -> Record] /\ DOMAIN f = {}
      BY <2>1 DEF Nothing
    <3>2. Cardinality({}) = 0 /\ 0 <= 1
      BY FS_EmptySet
    <3> QED BY <3>1, <3>2 DEF Definitions
  <2>2. ASSUME NEW c \in BestFallbacks(registry), f = Restricted(registry, {c})
        PROVE  f \in Definitions /\ Cardinality(DOMAIN f) <= 1
    <3>1. c \in Codes /\ registry[c] \in Record
      BY <1>1 DEF BestFallbacks
    <3>2. f \in [{c} -> Record] /\ DOMAIN f = {c} /\ {c} \in SUBSET Codes
      BY <2>2, <3>1 DEF Restricted
    <3>3. Cardinality({c}) = 1 /\ 1 <= 1
      BY FS_Singleton
    <3> QED BY <3>2, <3>3 DEF Definitions
  <2> QED BY <2>1, <2>2 DEF FallbackOf
<1>4. PrioritiesOf(registry) \in UNION {[codes -> Priorities] : codes \in SUBSET Codes}
  <2> DEFINE codes == DOMAIN Routable(registry) \cup fallbacks
  <2>1. PICK routable \in SUBSET Codes : Routable(registry) \in [routable -> Record]
    BY <1>2 DEF Definitions
  <2>2. codes \in SUBSET Codes
    BY <1>1, <2>1
  <2>3. \A c \in codes : (IF c \in fallbacks THEN registry[c].priority
                                            ELSE Routable(registry)[c].priority) \in Priorities
    BY <1>1, <2>1 DEF Record
  <2>4. PrioritiesOf(registry) \in [codes -> Priorities]
    BY <2>3 DEF PrioritiesOf
  <2> QED BY <2>2, <2>4
<1> QED BY <1>2, <1>3, <1>4 DEF Snapshots

-----------------------------------------------------------------------------
(* The catalog.                                                             *)

(* What a refresh has read is a state the registry was in.                  *)
WasRead(read) == read = NoRead \/ \E v \in 1..Len(history) : read = history[v]

DispatchType ==
  dispatch \in [pc       : {"listing", "recognizing", "recognized", "falling", "done"},
                shown    : SUBSET Codes,
                matched  : SUBSET Codes,
                fallback : Definitions,
                created  : Definitions]

(* A fallback that was read for a message is that of a state of the         *)
(* registry, as long as the message may be dispatched to it.                *)
FallbackWhole ==
  dispatch.pc = "falling" /\ dispatch.matched = {} =>
    \E v \in 1..Len(history) : dispatch.fallback \in FallbackOf(history[v])

Inv ==
  /\ RegistryInv
  /\ SnapshotIsWhole
  /\ WasRead(thread) /\ WasRead(loop)
  /\ DispatchType
  /\ FallbackWhole
  /\ DispatchIsWhole

(* What is of one state of the registry stays so as its history grows.      *)
LEMMA GrowsKeeps ==
  ASSUME history \in Seq(Registry), history' \in Seq(Registry), Grows
  PROVE  \A v \in 1..Len(history) : v \in 1..Len(history') /\ history'[v] = history[v]
<1>1. Len(history) \in Nat /\ Len(history') \in Nat
  OBVIOUS
<1> QED BY <1>1 DEF Grows

(* A step of the registry leaves the catalog and the message as they are.   *)
LEMMA RegistryKeepsInv ==
  ASSUME Inv, RegistryNext, UNCHANGED <<snapshot, thread, loop, dispatch>>
  PROVE  Inv' /\ Revived
<1>1. RegistryInv' /\ Revived /\ Grows
  BY RegistryGood DEF Inv, Good
<1>2. \A v \in 1..Len(history) : v \in 1..Len(history') /\ history'[v] = history[v]
  BY <1>1, GrowsKeeps DEF Inv, RegistryInv, RegistryTypeOK
<1>3. SnapshotIsWhole'
  <2>1. PICK v \in 1..Len(history) : snapshot \in Snapshots(history[v])
    BY DEF Inv, SnapshotIsWhole
  <2> QED BY <1>2, <2>1 DEF SnapshotIsWhole
<1>4. WasRead(thread)' /\ WasRead(loop)'
  BY <1>2 DEF Inv, WasRead
<1>5. FallbackWhole'
  <2>1. ASSUME dispatch.pc = "falling", dispatch.matched = {}
        PROVE  \E v \in 1..Len(history') : dispatch.fallback \in FallbackOf(history'[v])
    <3>1. PICK v \in 1..Len(history) : dispatch.fallback \in FallbackOf(history[v])
      BY <2>1 DEF Inv, FallbackWhole
    <3> QED BY <1>2, <3>1
  <2> QED BY <2>1 DEF FallbackWhole
<1>6. DispatchIsWhole'
  <2>1. PICK v \in 1..Len(history) :
          \/ \A c \in DOMAIN dispatch.created :
               /\ c \in DOMAIN Routable(history[v])
               /\ dispatch.created[c] = Routable(history[v])[c]
          \/ dispatch.created \in FallbackOf(history[v])
    BY DEF Inv, DispatchIsWhole
  <2> QED BY <1>2, <2>1 DEF DispatchIsWhole
<1> QED BY <1>1, <1>3, <1>4, <1>5, <1>6 DEF Inv, DispatchType

(* What the catalog and the message do, the registry and its history are    *)
(* left as they are by.                                                     *)
LEMMA RegistryLeft ==
  ASSUME Inv, UNCHANGED registryVars
  PROVE  RegistryInv' /\ Revived
<1>1. history' = history /\ backend' = backend /\ admin' = admin
  BY DEF registryVars
<1> QED BY <1>1 DEF Inv, RegistryInv, RegistryTypeOK, Revived, Present, Whole

(* A refresh replaces the snapshot by that of a state of the registry.      *)
LEMMA RefreshKeepsInv ==
  ASSUME Inv, ThreadLists \/ ThreadInstalls \/ LoopLists \/ LoopInstalls
  PROVE  Inv' /\ Revived
<1>1. UNCHANGED registryVars /\ UNCHANGED dispatch /\ UNCHANGED history
  BY DEF ThreadLists, ThreadInstalls, LoopLists, LoopInstalls, registryVars
<1>2. RegistryInv' /\ Revived
  BY <1>1, RegistryLeft
<1>3. \E v \in 1..Len(history) : Present = history[v]
  BY DEF Inv, RegistryInv, RegistryTypeOK, Present
<1>4. WasRead(thread)' /\ WasRead(loop)'
  BY <1>1, <1>3 DEF Inv, WasRead, ThreadLists, ThreadInstalls, LoopLists, LoopInstalls
<1>5. SnapshotIsWhole'
  BY <1>1 DEF Inv, WasRead, SnapshotIsWhole, Install,
              ThreadLists, ThreadInstalls, LoopLists, LoopInstalls
<1>6. DispatchType' /\ FallbackWhole' /\ DispatchIsWhole'
  BY <1>1 DEF Inv, DispatchType, FallbackWhole, DispatchIsWhole
<1> QED BY <1>2, <1>4, <1>5, <1>6 DEF Inv

(* A message's locals before it is sent and after it was answered.          *)
LEMMA FreshType ==
  Fresh \in [pc       : {"listing", "recognizing", "recognized", "falling", "done"},
             shown    : SUBSET Codes,
             matched  : SUBSET Codes,
             fallback : Definitions,
             created  : Definitions]
<1>1. Nothing \in [{} -> Record]
  BY DEF Nothing
<1>2. Nothing \in Definitions
  BY <1>1 DEF Definitions
<1> QED BY <1>2 DEF Fresh

(* A message that creates nothing yet is of any state of the registry.      *)
LEMMA NothingIsWhole ==
  ASSUME Inv, NEW d, d.created = Nothing
  PROVE  \E v \in 1..Len(history) :
           \A c \in DOMAIN d.created :
             c \in DOMAIN Routable(history[v]) /\ d.created[c] = Routable(history[v])[c]
<1>1. 1 \in 1..Len(history) /\ DOMAIN Nothing = {}
  BY PresentType DEF Inv, RegistryInv, RegistryTypeOK, Nothing
<1> QED BY <1>1

(* Whichever snapshots a message reads, what it is dispatched to is of one  *)
(* state of the registry.                                                   *)
LEMMA MessageKeepsInv ==
  ASSUME Inv,
         \/ LoopFails \/ ListsForRecognition \/ ReadsFallback \/ Dispatches
         \/ \E codes \in SUBSET Codes : Recognized(codes)
  PROVE  Inv' /\ Revived
<1>1. UNCHANGED registryVars /\ UNCHANGED <<history, snapshot, thread, loop>>
  BY DEF LoopFails, ListsForRecognition, ReadsFallback, Dispatches, Recognized, registryVars
<1>2. RegistryInv' /\ Revived
  BY <1>1, RegistryLeft
<1>3. SnapshotIsWhole' /\ WasRead(thread)' /\ WasRead(loop)'
  BY <1>1 DEF Inv, SnapshotIsWhole, WasRead
<1>4. PICK v \in 1..Len(history) : snapshot \in Snapshots(history[v])
  BY DEF Inv, SnapshotIsWhole
<1>5. /\ snapshot.active = Routable(history[v]) /\ snapshot.active \in Definitions
      /\ snapshot.fallback \in FallbackOf(history[v]) /\ snapshot.fallback \in Definitions
  <2>1. history[v] \in Registry
    BY DEF Inv, RegistryInv, RegistryTypeOK
  <2> QED BY <1>4, <2>1, SnapshotType
<1>6. DOMAIN snapshot.active \in SUBSET Codes
  BY <1>5 DEF Definitions
<1>7. Nothing \in Definitions /\ Fresh.created = Nothing /\ Fresh.fallback = Nothing
  BY FreshType DEF Fresh
<1>8. ASSUME LoopFails
      PROVE  DispatchType' /\ FallbackWhole' /\ DispatchIsWhole'
  <2>1. dispatch' = [Fresh EXCEPT !.pc = "done"]
    BY <1>8 DEF LoopFails
  <2>2. DispatchType' /\ dispatch'.pc = "done" /\ dispatch'.created = Nothing
    BY <1>7, <2>1, FreshType DEF DispatchType
  <2> QED BY <1>1, <2>2, NothingIsWhole DEF FallbackWhole, DispatchIsWhole
<1>9. ASSUME ListsForRecognition
      PROVE  DispatchType' /\ FallbackWhole' /\ DispatchIsWhole'
  <2>1. dispatch' = [dispatch EXCEPT !.pc = "recognizing", !.shown = DOMAIN snapshot.active]
    BY <1>9 DEF ListsForRecognition
  <2>2. DispatchType' /\ dispatch'.pc = "recognizing" /\ dispatch'.created = dispatch.created
    BY <1>6, <2>1 DEF Inv, DispatchType
  <2> QED BY <1>1, <2>2 DEF Inv, FallbackWhole, DispatchIsWhole
<1>10. ASSUME NEW codes \in SUBSET Codes, Recognized(codes)
       PROVE  DispatchType' /\ FallbackWhole' /\ DispatchIsWhole'
  <2>1. dispatch' = [Fresh EXCEPT !.pc = "recognized", !.matched = codes]
    BY <1>10 DEF Recognized
  <2>2. DispatchType' /\ dispatch'.pc = "recognized" /\ dispatch'.created = Nothing
    BY <1>7, <2>1, FreshType DEF DispatchType
  <2> QED BY <1>1, <2>2, NothingIsWhole DEF FallbackWhole, DispatchIsWhole
<1>11. ASSUME ReadsFallback
       PROVE  DispatchType' /\ FallbackWhole' /\ DispatchIsWhole'
  <2> DEFINE fallback == IF dispatch.matched = {} THEN snapshot.fallback ELSE Nothing
  <2>1. dispatch' = [dispatch EXCEPT !.pc = "falling", !.fallback = fallback]
    BY <1>11 DEF ReadsFallback
  <2>2. fallback \in Definitions
    BY <1>5, <1>7
  <2>3. /\ DispatchType' /\ dispatch'.created = dispatch.created
        /\ dispatch'.matched = dispatch.matched /\ dispatch'.fallback = fallback
    BY <2>1, <2>2 DEF Inv, DispatchType
  <2>4. FallbackWhole'
    BY <1>1, <1>5, <2>3 DEF FallbackWhole
  <2> QED BY <1>1, <2>3, <2>4 DEF Inv, DispatchIsWhole
<1>12. ASSUME Dispatches
       PROVE  DispatchType' /\ FallbackWhole' /\ DispatchIsWhole'
  <2> DEFINE matched == dispatch.matched
             created == IF matched = {} THEN dispatch.fallback ELSE Dispatched(matched)
  <2>1. dispatch' = [Fresh EXCEPT !.pc = "done", !.created = created] /\ dispatch.pc = "falling"
    BY <1>12 DEF Dispatches, Reads
  <2>2. dispatch.fallback \in Definitions
    BY DEF Inv, DispatchType
  <2>3. /\ Dispatched(matched) \in Definitions
        /\ \A c \in DOMAIN Dispatched(matched) :
             c \in DOMAIN Routable(history[v]) /\ Dispatched(matched)[c] = Routable(history[v])[c]
    <3> DEFINE codes == matched \cap DOMAIN snapshot.active
    <3>1. Dispatched(matched) = [c \in codes |-> snapshot.active[c]]
      BY DEF Dispatched, Restricted
    <3>2. codes \in SUBSET Codes /\ \A c \in codes : snapshot.active[c] \in Record
      BY <1>5, <1>6 DEF Definitions
    <3>3. Dispatched(matched) \in [codes -> Record]
      BY <3>1, <3>2
    <3> QED BY <1>5, <3>1, <3>2, <3>3 DEF Definitions
  <2>4. created \in Definitions
    BY <2>2, <2>3
  <2> HIDE DEF created
  <2>5. DispatchType' /\ dispatch'.pc = "done" /\ dispatch'.created = created
    BY <2>1, <2>4, FreshType DEF DispatchType
  <2>6. DispatchIsWhole'
    <3>1. CASE matched = {}
      <4>1. PICK w \in 1..Len(history) : dispatch.fallback \in FallbackOf(history[w])
        BY <2>1, <3>1 DEF Inv, FallbackWhole
      <4> QED BY <1>1, <2>5, <3>1, <4>1 DEF DispatchIsWhole, created
    <3>2. CASE matched # {}
      BY <1>1, <2>3, <2>5, <3>2 DEF DispatchIsWhole, created
    <3> QED BY <3>1, <3>2
  <2> QED BY <2>5, <2>6 DEF FallbackWhole
<1> QED BY <1>2, <1>3, <1>8, <1>9, <1>10, <1>11, <1>12 DEF Inv

(* The service starts with a snapshot of the registry as it is.             *)
LEMMA InitInv == Init => Inv
<1> SUFFICES ASSUME Init PROVE Inv
  OBVIOUS
<1>1. history = <<Initial>> /\ Initial \in Registry /\ Present = Initial
  BY InitialAssumption DEF Init, RegistryInit, Present
<1>2. history \in Seq(Registry) /\ history # <<>> /\ Len(history) = 1 /\ history[1] = Initial
  BY <1>1
<1>3. RegistryInv
  <2>1. RegistryTypeOK /\ \A a \in Admins : admin[a].pc = "idle"
    BY <1>2, IdleType DEF Init, RegistryInit, RegistryTypeOK
  <2>2. ASSUME NEW c \in Codes, Present[c] # Absent
        PROVE  Whole(Present[c])
    <3>1. Initial[c] \in Record /\ Initial[c] # Absent /\ Present[c] = Initial[c]
      BY <1>1, <2>2 DEF Registry
    <3>2. Initial[c] = [Initial[c] EXCEPT !.status = Initial[c].status]
      BY <3>1 DEF Record
    <3> QED BY <3>1, <3>2 DEF Whole
  <2> QED BY <2>1, <2>2 DEF RegistryInv
<1>4. SnapshotIsWhole /\ WasRead(thread) /\ WasRead(loop)
  BY <1>2 DEF Init, SnapshotIsWhole, WasRead
<1>5. DispatchType /\ dispatch = Fresh
  BY FreshType DEF Init, DispatchType
<1>6. FallbackWhole
  BY <1>5 DEF FallbackWhole, Fresh
<1>7. DispatchIsWhole
  <2>1. DOMAIN dispatch.created = {} /\ 1 \in 1..Len(history)
    BY <1>2, <1>5 DEF Fresh, Nothing
  <2> QED BY <2>1 DEF DispatchIsWhole
<1> QED BY <1>3, <1>4, <1>5, <1>6, <1>7 DEF Inv

(* Every step preserves the invariant, and revives nothing.                 *)
LEMMA NextInv == Inv /\ [Next]_vars => Inv' /\ [Revived]_registryVars
<1> SUFFICES ASSUME Inv, [Next]_vars PROVE Inv' /\ [Revived]_registryVars
  OBVIOUS
<1>1. CASE UNCHANGED vars
  <2>1. UNCHANGED registryVars /\ UNCHANGED <<history, snapshot, thread, loop, dispatch>>
    BY <1>1 DEF vars, registryVars
  <2>2. RegistryInv'
    BY <2>1, RegistryLeft
  <2> QED BY <2>1, <2>2 DEF Inv, SnapshotIsWhole, WasRead, DispatchType, FallbackWhole,
                            DispatchIsWhole
<1>2. CASE Next
  BY <1>2, RegistryKeepsInv, RefreshKeepsInv, MessageKeepsInv DEF Next
<1> QED BY <1>1, <1>2

-----------------------------------------------------------------------------
(* The theorems.                                                            *)

(* The invariant holds in every state of every behaviour.                   *)
THEOREM Invariance == Spec => []Inv
  BY InitInv, NextInv, PTL DEF Spec

(* The registry, the catalog and the message keep to the values the code    *)
(* can give them; there is one fallback at most.                            *)
THEOREM TypeCorrect == Spec => []TypeOK
<1>1. ASSUME Inv
      PROVE  TypeOK
  <2>1. \A v \in 1..Len(history) : history[v] \in Registry
    BY <1>1 DEF Inv, RegistryInv, RegistryTypeOK
  <2>2. PICK v \in 1..Len(history) : snapshot \in Snapshots(history[v])
    BY <1>1 DEF Inv, SnapshotIsWhole
  <2>3. /\ snapshot.active \in Definitions /\ snapshot.fallback \in Definitions
        /\ Cardinality(DOMAIN snapshot.fallback) <= 1
        /\ snapshot.priorities \in UNION {[codes -> Priorities] : codes \in SUBSET Codes}
    BY <2>1, <2>2, SnapshotType
  <2>4. thread \in Registry \cup {NoRead} /\ loop \in Registry \cup {NoRead}
    BY <1>1, <2>1 DEF Inv, WasRead
  <2> QED BY <1>1, <2>3, <2>4 DEF Inv, RegistryInv, DispatchType, TypeOK
<1> QED BY <1>1, Invariance, PTL

(* In memory, overlapping updates and activations never mix two records.    *)
THEOREM RecordsStayWhole == Spec => []RecordsAreWhole
<1>1. Inv => RecordsAreWhole
  BY DEF Inv, RegistryInv, RecordsAreWhole, Whole
<1> QED BY <1>1, Invariance, PTL

(* With either repository, a deleted intent is not brought back by a        *)
(* request that had read it.                                                *)
THEOREM DeletedStayDeleted == Spec => NothingRevived
<1>1. Inv /\ [Next]_vars =>
        [\A c \in Codes :
           Present[c] = Absent /\ Present'[c] # Absent =>
             \/ \E p \in Payloads : CreateIntent(c, p)
             \/ \E old \in Codes \ {c} :
                  Present[old] # Absent /\ Present'[old] = Absent]_registryVars
  BY NextInv DEF Revived
<1> QED BY <1>1, Invariance, PTL DEF Spec, NothingRevived

(* However refreshes overlap, readers see one state of the registry.        *)
THEOREM SnapshotsAreWhole == Spec => []SnapshotIsWhole
<1>1. Inv => SnapshotIsWhole
  BY DEF Inv
<1> QED BY <1>1, Invariance, PTL

(* Wherever the refreshes fall between the reads of one message, what it is *)
(* dispatched to is of one state of the registry.                           *)
THEOREM DispatchesAreWhole == Spec => []DispatchIsWhole
<1>1. Inv => DispatchIsWhole
  BY DEF Inv
<1> QED BY <1>1, Invariance, PTL
==============================================================================
