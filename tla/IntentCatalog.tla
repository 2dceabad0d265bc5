---------------------------- MODULE IntentCatalog -----------------------------
(***************************************************************************)
(* The catalog (router_core/intent_catalog.py), which is refreshed from    *)
(* the registry by a thread (router_api/dependencies.py) and on the event  *)
(* loop, and a message that reads it several times: before it is           *)
(* recognized, and twice when it is dispatched (router_core/orchestrator). *)
(***************************************************************************)
EXTENDS IntentRegistry, FiniteSets

CONSTANTS
  DemoIntents,  \* DEMO_INTENTS: for some codes, their records
  UseDemo,      \* use_demo_intents
  NoRead        \* nothing is being read

ASSUME DemoAssumption   == \E codes \in SUBSET Codes : DemoIntents \in [codes -> Record]
ASSUME NoReadAssumption == NoRead \notin Registry

VARIABLES
  snapshot,  \* catalog._snapshot
  thread,    \* what the refresh in the thread has read, or NoRead
  loop,      \* what the refresh on the event loop has read, or NoRead
  dispatch   \* the place of the message and its locals

vars == <<backend, history, admin, snapshot, thread, loop, dispatch>>

Nothing == [c \in {} |-> 0]

\* The records of some codes.
Definitions == UNION {[codes -> Record] : codes \in SUBSET Codes}

(* "listing": before list_active. "recognizing": the recognizer is awaited  *)
(* with the intents shown. "recognized": before get_fallback_intent, with   *)
(* the codes matched. "falling": before list_active of the dispatch, with   *)
(* the fallback. "done": with the intents that tasks were created for.      *)
TypeOK ==
  /\ RegistryTypeOK
  /\ snapshot.active \in Definitions
  /\ snapshot.fallback \in Definitions /\ Cardinality(DOMAIN snapshot.fallback) <= 1
  /\ snapshot.priorities \in UNION {[codes -> Priorities] : codes \in SUBSET Codes}
  /\ thread \in Registry \cup {NoRead}
  /\ loop \in Registry \cup {NoRead}
  /\ dispatch.pc \in {"listing", "recognizing", "recognized", "falling", "done"}
  /\ dispatch.shown \subseteq Codes
  /\ dispatch.matched \subseteq Codes
  /\ dispatch.fallback \in Definitions
  /\ dispatch.created \in Definitions

-----------------------------------------------------------------------------
(* The snapshot of a state of the registry. Of fallbacks with the same      *)
(* priority the first in the registry's order is taken, which is left open. *)

Active(registry) == {c \in Codes : registry[c] # Absent /\ registry[c].status = "active"}

Fallbacks(registry) == {c \in Active(registry) : registry[c].fallback}

BestFallbacks(registry) ==
  {c \in Fallbacks(registry) :
     \A d \in Fallbacks(registry) : registry[d].priority <= registry[c].priority}

Restricted(registry, codes) == [c \in codes |-> registry[c]]

AllFallbacks(registry) == {Restricted(registry, Fallbacks(registry))} \* mutant of FallbackOf

\* None, or one of the best.
FallbackOf(registry) ==
  IF Fallbacks(registry) = {} THEN {Nothing}
  ELSE {Restricted(registry, {c}) : c \in BestFallbacks(registry)}

Routable(registry) ==
  LET codes == Active(registry) \ Fallbacks(registry)
  IN  IF codes = {} /\ UseDemo THEN DemoIntents ELSE Restricted(registry, codes)

\* priorities: of the routable intents and of the fallbacks, which come last.
PrioritiesOf(registry) ==
  [c \in DOMAIN Routable(registry) \cup Fallbacks(registry) |->
     IF c \in Fallbacks(registry) THEN registry[c].priority ELSE Routable(registry)[c].priority]

Snapshots(registry) ==
  [active     : {Routable(registry)},
   fallback   : FallbackOf(registry),
   priorities : {PrioritiesOf(registry)}]

\* The locals of a message end with its handler.
Fresh == [pc |-> "listing", shown |-> {}, matched |-> {},
          fallback |-> Nothing, created |-> Nothing]

Init ==
  /\ RegistryInit
  /\ snapshot \in Snapshots(Initial)    \* the lifespan refreshes before it serves
  /\ thread = NoRead
  /\ loop = NoRead
  /\ dispatch = Fresh

-----------------------------------------------------------------------------
(* refresh_now: the registry is listed, and later the snapshot is replaced  *)
(* in one assignment. A refresh that fails leaves the snapshot; the thread  *)
(* then tries again, and on the event loop the message fails.               *)

InstallInTwo(read) ==                                 \* mutant of Install
  \E new \in Snapshots(read) :
    snapshot' = IF new.active # snapshot.active THEN [snapshot EXCEPT !.active = new.active]
                                                ELSE new

InstallOnce(read) ==                                  \* mutant of Install
  IF snapshot \in Snapshots(Initial) THEN snapshot' \in Snapshots(read) ELSE UNCHANGED snapshot

Install(read) == snapshot' \in Snapshots(read)

ThreadLists ==
  /\ thread = NoRead
  /\ thread' = Present
  /\ UNCHANGED <<registryVars, snapshot, loop, dispatch>>

ThreadInstalls ==
  /\ thread # NoRead
  /\ Install(thread)
  /\ thread' = NoRead
  /\ UNCHANGED <<registryVars, loop, dispatch>>

Reading == dispatch.pc \in {"listing", "recognized", "falling"}

\* _refresh_if_needed, when the interval has elapsed. It blocks the loop.
LoopLists ==
  /\ Reading
  /\ loop = NoRead
  /\ loop' = Present
  /\ UNCHANGED <<registryVars, snapshot, thread, dispatch>>

LoopInstalls ==
  /\ loop # NoRead
  /\ Install(loop)
  /\ loop' = NoRead
  /\ UNCHANGED <<registryVars, thread, dispatch>>

LoopFails ==
  /\ Reading
  /\ loop = NoRead
  /\ dispatch' = [Fresh EXCEPT !.pc = "done"]
  /\ UNCHANGED <<registryVars, snapshot, thread, loop>>

-----------------------------------------------------------------------------
(* A message. Each step but the recognition reads the snapshot there is.    *)

Reads(from) == dispatch.pc = from /\ loop = NoRead

ListsForRecognition ==
  /\ Reads("listing")
  /\ dispatch' = [dispatch EXCEPT !.pc = "recognizing", !.shown = DOMAIN snapshot.active]
  /\ UNCHANGED <<registryVars, snapshot, thread, loop>>

\* The recognizer drops the codes it was not shown.
Recognized(codes) ==
  /\ dispatch.pc = "recognizing"
  /\ codes \subseteq dispatch.shown
  /\ dispatch' = [Fresh EXCEPT !.pc = "recognized", !.matched = codes]
  /\ UNCHANGED <<registryVars, snapshot, thread, loop>>

\* _fallback_intent, which is dispatched when nothing was matched.
ReadsFallback ==
  /\ Reads("recognized")
  /\ dispatch' = [dispatch EXCEPT
       !.pc = "falling",
       !.fallback = IF dispatch.matched = {} THEN snapshot.fallback ELSE Nothing]
  /\ UNCHANGED <<registryVars, snapshot, thread, loop>>

(* Mutant of Dispatched: an intent that has left the catalog is dispatched  *)
(* as the registry has it.                                                  *)
DispatchedAnyway(matched) ==
  [c \in {m \in matched : Present[m] # Absent} |->
     IF c \in DOMAIN snapshot.active THEN snapshot.active[c] ELSE Present[c]]

\* The matches that the catalog still has become tasks, or items of a plan.
Dispatched(matched) == Restricted(snapshot.active, matched \cap DOMAIN snapshot.active)

Dispatches ==
  /\ Reads("falling")
  /\ dispatch' = [Fresh EXCEPT
       !.pc = "done",
       !.created = IF dispatch.matched = {} THEN dispatch.fallback
                                            ELSE Dispatched(dispatch.matched)]
  /\ UNCHANGED <<registryVars, snapshot, thread, loop>>

Next ==
  \/ RegistryNext /\ UNCHANGED <<snapshot, thread, loop, dispatch>>
  \/ ThreadLists
  \/ ThreadInstalls
  \/ LoopLists
  \/ LoopInstalls
  \/ LoopFails
  \/ ListsForRecognition
  \/ \E codes \in SUBSET Codes : Recognized(codes)
  \/ ReadsFallback
  \/ Dispatches

(* run_intent_catalog_refresh is a loop: it refreshes again and again, and  *)
(* the registry answers in the end. Nobody has to write to the registry,    *)
(* and no message has to be sent.                                           *)
Fairness == WF_vars(ThreadLists) /\ WF_vars(ThreadInstalls)

Spec == Init /\ [][Next]_vars /\ Fairness

-----------------------------------------------------------------------------
(* Properties.                                                              *)

(* What readers see is always the snapshot of one state the registry was    *)
(* in: intents, fallback and priorities belong together (docs/task.md:53).  *)
SnapshotIsWhole ==
  \E v \in 1..Len(history) : snapshot \in Snapshots(history[v])

(* Although a message reads the catalog three times, with refreshes in      *)
(* between, the tasks it is dispatched to are intents of one state of the   *)
(* registry, as they were then: matches, or that state's fallback.          *)
DispatchIsWhole ==
  \E v \in 1..Len(history) :
    \/ \A c \in DOMAIN dispatch.created :
         /\ c \in DOMAIN Routable(history[v])
         /\ dispatch.created[c] = Routable(history[v])[c]
    \/ dispatch.created \in FallbackOf(history[v])

(* When the administrators have stopped, the catalog comes to show what     *)
(* they left and goes on showing it, although a refresh that read the       *)
(* registry earlier may still replace a newer snapshot.                     *)
Settled == <>[][UNCHANGED history]_vars

CatalogCatchesUp == Settled => <>[](snapshot \in Snapshots(Present))
=============================================================================
