---------------------------- MODULE IntentRegistry ----------------------------
(***************************************************************************)
(* The registry of intents: the administrators' API (admin_api/routes/     *)
(* intents.py) on a repository in memory, whose operations hold a lock, or *)
(* on one in a database, which reads a row and writes what changed in it.  *)
(***************************************************************************)
EXTENDS Naturals, Sequences

CONSTANTS
  Codes,      \* intent codes
  Fields,     \* the descriptive fields of an intent: agent_url, name, ...
  Values,     \* their values
  Priorities, \* values of dispatch_priority
  Payloads,   \* the intents administrators submit
  Initial,    \* the registry at the start
  Backends,   \* the repositories in use: "memory", "database"
  Absent,     \* no intent of a code
  Admins,     \* administrators' requests of several steps, at the same time
  MaxWrites   \* number of changes of the registry; bounds the model

Statuses == {"active", "inactive", "grayscale"}

\* An IntentRecord, without its code, which is its key, and its times.
Record == [field    : [Fields -> Values],
           status   : Statuses,
           fallback : BOOLEAN,
           priority : Priorities]

Registry == [Codes -> Record \cup {Absent}]

ASSUME CodesAssumption      == Codes # {}
ASSUME PrioritiesAssumption == Priorities \subseteq Nat
ASSUME PayloadsAssumption   == Payloads \subseteq Record
ASSUME AbsentAssumption     == Absent \notin Record
ASSUME InitialAssumption    == Initial \in Registry
ASSUME BackendsAssumption   == Backends \subseteq {"memory", "database"} /\ MaxWrites \in Nat

VARIABLES
  backend,   \* settings.repository_backend
  history,   \* the states the registry has been in; the last is the present
  admin      \* of each administrator's request, its place and its locals

registryVars == <<backend, history, admin>>

Present == history[Len(history)]

(* "activating": _set_intent_status has read the record it will write back. *)
(* "updating": the database session has read the row it will write to.      *)
AdminState == [pc      : {"idle", "activating", "updating"},
               code    : Codes,
               new     : Codes,                   \* payload.intent_code
               payload : Record \cup {Absent},
               row     : Record \cup {Absent}]    \* as it was read

Idle == [pc      |-> "idle",
         code    |-> CHOOSE c \in Codes : TRUE,
         new     |-> CHOOSE c \in Codes : TRUE,
         payload |-> Absent,
         row     |-> Absent]

RegistryTypeOK ==
  /\ backend \in Backends
  /\ history \in Seq(Registry) /\ history # <<>>
  /\ admin \in [Admins -> AdminState]
  /\ \A a \in Admins : admin[a].pc # "idle" => admin[a].payload \in Record
  /\ \A a \in Admins : admin[a].pc = "updating" => admin[a].row \in Record

RegistryInit ==
  /\ backend \in Backends
  /\ history = <<Initial>>
  /\ admin = [a \in Admins |-> Idle]

-----------------------------------------------------------------------------
(* The repositories.                                                        *)

Write(registry) ==
  /\ Len(history) <= MaxWrites
  /\ history' = Append(history, registry)

\* The checks of update_intent.
MayUpdate(code, new) ==
  /\ Present[code] # Absent
  /\ new # code => Present[new] = Absent

\* The record under its code, or moved to another one.
Replaced(code, new, record) ==
  [c \in Codes |-> IF c = new THEN record ELSE IF c = code THEN Absent ELSE Present[c]]

(* The columns that differ from the row as it was read are written to the   *)
(* row as it is.                                                            *)
Merged(row, payload, present) ==
  LET Col(read, set, is) == IF set # read THEN set ELSE is
  IN  [field    |-> [f \in Fields |-> Col(row.field[f], payload.field[f], present.field[f])],
       status   |-> Col(row.status, payload.status, present.status),
       fallback |-> Col(row.fallback, payload.fallback, present.fallback),
       priority |-> Col(row.priority, payload.priority, present.priority)]

WithoutPriority(code, new, payload) ==                \* mutant of UpdateLocked
  /\ backend = "memory"
  /\ MayUpdate(code, new)
  /\ Write(Replaced(code, new, [payload EXCEPT !.priority = Present[code].priority]))

WithoutCheck(code, new, payload) ==                   \* mutant of UpdateLocked
  /\ backend = "memory"
  /\ Write(Replaced(code, new, payload))

\* update_intent in memory: all of it under the lock.
UpdateLocked(code, new, payload) ==
  /\ backend = "memory"
  /\ MayUpdate(code, new)
  /\ Write(Replaced(code, new, payload))

\* update_intent in a database: up to the commit.
UpdateRead(a, code, new, payload) ==
  /\ backend = "database"
  /\ MayUpdate(code, new)
  /\ admin' = [admin EXCEPT ![a] = [pc |-> "updating", code |-> code, new |-> new,
                                    payload |-> payload, row |-> Present[code]]]
  /\ UNCHANGED history

\* The commit fails when the row is gone, or its new key is taken.
Commit(a) ==
  LET u == admin[a]
  IN  /\ u.pc = "updating"
      /\ IF MayUpdate(u.code, u.new)
           THEN Write(Replaced(u.code, u.new, Merged(u.row, u.payload, Present[u.code])))
           ELSE UNCHANGED history
      /\ admin' = [admin EXCEPT ![a] = Idle]
      /\ UNCHANGED backend

-----------------------------------------------------------------------------
(* The endpoints. A request that gets 404 or 409 changes nothing, and is    *)
(* left out unless it had to read first.                                    *)

\* POST: either repository refuses a code that is taken.
CreateIntent(c, payload) ==
  /\ Present[c] = Absent
  /\ Write([Present EXCEPT ![c] = payload])
  /\ UNCHANGED <<backend, admin>>

\* PUT, with the same code or another.
UpdateIntent(c, new, payload) ==
  /\ \/ UpdateLocked(c, new, payload) /\ UNCHANGED admin
     \/ \E a \in Admins : admin[a].pc = "idle" /\ UpdateRead(a, c, new, payload)
  /\ UNCHANGED backend

DeleteIntent(c) ==
  /\ Present[c] # Absent
  /\ Write([Present EXCEPT ![c] = Absent])
  /\ UNCHANGED <<backend, admin>>

\* _set_intent_status: the record is read, and its status set in the copy ...
ReadForStatus(a, c, status) ==
  /\ admin[a].pc = "idle"
  /\ Present[c] # Absent
  /\ admin' = [admin EXCEPT ![a] = [pc |-> "activating", code |-> c, new |-> c,
                                    payload |-> [Present[c] EXCEPT !.status = status],
                                    row |-> Absent]]
  /\ UNCHANGED <<backend, history>>

\* ... which is all written back, to an intent that may be gone.
WriteStatus(a) ==
  LET u == admin[a]
  IN  /\ u.pc = "activating"
      /\ \/ UpdateRead(a, u.code, u.new, u.payload)
         \/ /\ \/ UpdateLocked(u.code, u.new, u.payload)
               \/ ~MayUpdate(u.code, u.new) /\ UNCHANGED history
            /\ admin' = [admin EXCEPT ![a] = Idle]
      /\ UNCHANGED backend

RegistryNext ==
  \/ \E c \in Codes, p \in Payloads : CreateIntent(c, p)
  \/ \E c, new \in Codes, p \in Payloads : UpdateIntent(c, new, p)
  \/ \E c \in Codes : DeleteIntent(c)
  \/ \E a \in Admins, c \in Codes, s \in {"active", "inactive"} : ReadForStatus(a, c, s)
  \/ \E a \in Admins : WriteStatus(a) \/ Commit(a)

-----------------------------------------------------------------------------
(* Properties.                                                              *)

(* With the repository in memory every intent is one that an administrator  *)
(* submitted whole, but for its status: two updates that overlap, or an     *)
(* update and an activation, never mix. In a database they may.             *)
RecordsAreWhole ==
  backend = "memory" =>
    \A c \in Codes : Present[c] # Absent =>
      \E r \in Payloads \cup {Initial[d] : d \in Codes} :
        /\ r # Absent
        /\ Present[c] = [r EXCEPT !.status = Present[c].status]

(* A code that was deleted, or moved away from, comes back only with a      *)
(* record submitted for it: not by an activation or an update of the intent *)
(* that was still in flight.                                                *)
NothingRevived ==
  [][\A c \in Codes :
       Present[c] = Absent /\ Present'[c] # Absent =>
         \/ \E p \in Payloads : CreateIntent(c, p)
         \/ \E old \in Codes \ {c} :
              Present[old] # Absent /\ Present'[old] = Absent]_registryVars
=============================================================================
