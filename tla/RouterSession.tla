---------------------------- MODULE RouterSession ----------------------------
(***************************************************************************)
(* The state of one router session (router_core/domain.py) and the pure    *)
(* operations on it: touching a task, the queue of router_core/            *)
(* task_queue.py, and the progress of the execution plan.                  *)
(*                                                                         *)
(* A session is a record, as SessionState is an object every handler of    *)
(* the session holds a reference to; an operation maps a session to a      *)
(* session, and the handlers of module Orchestrator compose them.          *)
(***************************************************************************)
EXTENDS Naturals

CONSTANTS
  MaxRequests,  \* number of requests the users send; bounds the model
  Intents,      \* the routable intents an administrator has registered
  Fallback,     \* the fallback intent, dispatched when nothing matches
  Confidences,  \* the confidences of a match that the thresholds tell apart
  Priority,     \* dispatch_priority of each intent
  NoTask        \* None, where a task is expected

AllIntents == Intents \cup {Fallback}
Requests   == 1..MaxRequests

(***************************************************************************)
(* A task is named by the request whose handler created it and its intent: *)
(* no handler creates two tasks of the same intent (task_id is a uuid).    *)
(***************************************************************************)
TaskIds     == Requests \X AllIntents
IntentOf(t) == t[2]

ASSUME RequestsAssumption    == MaxRequests \in Nat
ASSUME FallbackAssumption    == Fallback \notin Intents
ASSUME ConfidencesAssumption == Confidences \subseteq Nat \ {0}
ASSUME PriorityAssumption    == Priority \in [AllIntents -> Nat]
ASSUME NoTaskAssumption      == NoTask \notin TaskIds

-----------------------------------------------------------------------------
(* Statuses. "none" marks a task that is not in session.tasks, an item that *)
(* is not in plan.items, and a session without a plan.                      *)

WaitingStatuses   == {"waiting_user_input", "waiting_confirmation"}
TerminalStatuses  == {"completed", "failed", "cancelled"}
ExecutingStatuses == {"dispatching", "running", "resuming"}
TaskStatuses      == {"created", "queued"} \cup ExecutingStatuses
                       \cup WaitingStatuses \cup TerminalStatuses

ItemStatuses == {"pending", "running", "skipped"}
                  \cup WaitingStatuses \cup TerminalStatuses

PlanStatuses     == {"waiting_confirmation", "running", "partially_completed"}
ExecutingPlan    == {"running", "partially_completed"}

Confidence == {0} \cup Confidences

Plan == [id     : Nat,
         status : PlanStatuses \cup {"none"},
         item   : [AllIntents -> ItemStatuses \cup {"none"}],
         task   : [AllIntents -> TaskIds \cup {NoTask}],
         conf   : [AllIntents -> Confidence]]

Session == [status : [TaskIds -> TaskStatuses \cup {"none"}],
            conf   : [TaskIds -> Confidence],
            born   : [TaskIds -> Nat],  \* its place in session.tasks
            at     : [TaskIds -> Nat],  \* updated_at while it waits, else 0
            plan   : Plan,
            active : TaskIds \cup {NoTask},
            plans  : Nat,               \* plans proposed so far
            now    : Nat]               \* the clock of born and at

NoPlan == [id     |-> 0,
           status |-> "none",
           item   |-> [i \in AllIntents |-> "none"],
           task   |-> [i \in AllIntents |-> NoTask],
           conf   |-> [i \in AllIntents |-> 0]]

EmptySession == [status |-> [t \in TaskIds |-> "none"],
                 conf   |-> [t \in TaskIds |-> 0],
                 born   |-> [t \in TaskIds |-> 0],
                 at     |-> [t \in TaskIds |-> 0],
                 plan   |-> NoPlan,
                 active |-> NoTask,
                 plans  |-> 0,
                 now    |-> 0]

-----------------------------------------------------------------------------
(* Views of session.tasks.                                                  *)

Waiting(s)   == {t \in TaskIds : s.status[t] \in WaitingStatuses}
Queued(s)    == {t \in TaskIds : s.status[t] = "queued"}
Executing(s) == {t \in TaskIds : s.status[t] \in ExecutingStatuses}
Open(s)      == {t \in TaskIds : s.status[t] \in TaskStatuses \ TerminalStatuses}

OpenIntents(s) == {IntentOf(t) : t \in Open(s)}

(* _get_waiting_task: of the tasks that wait, the one touched last.         *)
WaitingTask(s) == {t \in Waiting(s) : \A u \in Waiting(s) : s.at[u] <= s.at[t]}

-----------------------------------------------------------------------------
(* task_queue.py.                                                           *)

(* priorities.get(code, 0): an intent that left the catalog sorts last.     *)
PriorityIn(catalog, t) ==
  IF IntentOf(t) \in catalog THEN Priority[IntentOf(t)] ELSE 0

(* sort_tasks: by (priority, confidence) descending, and stable, so that    *)
(* equals keep their order in session.tasks. Tasks of one plan are born     *)
(* together: their order is the recognizer's, which is arbitrary.           *)
SortsBefore(s, catalog, a, b) ==
  LET pa == PriorityIn(catalog, a)
      pb == PriorityIn(catalog, b)
  IN  \/ pa > pb
      \/ pa = pb /\ s.conf[a] > s.conf[b]
      \/ pa = pb /\ s.conf[a] = s.conf[b] /\ s.born[a] < s.born[b]

(* Mutant of NextRunnable: the queue is run in the order of creation.       *)
OldestFirst(s, catalog) ==
  {t \in Queued(s) : \A u \in Queued(s) : s.born[t] <= s.born[u]}

(* next_runnable_task: the tasks that may head the sorted queue.            *)
NextRunnable(s, catalog) ==
  {t \in Queued(s) : \A u \in Queued(s) : ~SortsBefore(s, catalog, u, t)}

(* Mutant of QueuePendingTasks: a failed task is queued once more.          *)
RequeueFailed(s) ==
  [s EXCEPT !.status = [t \in TaskIds |->
                          IF @[t] \in {"created", "failed"} THEN "queued" ELSE @[t]]]

(* queue_pending_tasks.                                                     *)
QueuePendingTasks(s) ==
  [s EXCEPT !.status = [t \in TaskIds |->
                          IF @[t] = "created" THEN "queued" ELSE @[t]]]

-----------------------------------------------------------------------------
(* Plan progress.                                                           *)

(* Mutant of ItemStatusForTask: the task's status is taken as it is.        *)
ItemStatusVerbatim(status) == status

(* _item_status_for_task.                                                   *)
ItemStatusForTask(status) ==
  CASE status \in {"created", "queued"} -> "pending"
    [] status \in ExecutingStatuses     -> "running"
    [] OTHER                            -> status

RefreshedItems(s) ==
  [i \in AllIntents |->
     IF s.plan.task[i] = NoTask
       THEN s.plan.item[i]
       ELSE ItemStatusForTask(s.status[s.plan.task[i]])]

(* Mutant of AllSettled: an item that waits for the user counts as settled. *)
SettledOrWaiting(items) ==
  \A i \in AllIntents :
    items[i] \in TerminalStatuses \cup WaitingStatuses \cup {"skipped", "none"}

AllSettled(items) ==
  \A i \in AllIntents : items[i] \in TerminalStatuses \cup {"skipped", "none"}

(* _emit_plan_progress_if_needed: a plan whose items are all settled is     *)
(* completed and leaves the session.                                        *)
EmitPlanProgress(s) ==
  LET items  == RefreshedItems(s)
      status == IF \E i \in AllIntents : items[i] = "completed"
                  THEN "partially_completed" ELSE "running"
  IN  IF s.plan.status \notin ExecutingPlan
        THEN s
        ELSE [s EXCEPT !.plan = IF AllSettled(items)
                                  THEN NoPlan
                                  ELSE [@ EXCEPT !.item = items,
                                                 !.status = status]]

-----------------------------------------------------------------------------
(* Changing a task.                                                         *)

(* Task.touch.                                                              *)
Touch(s, t, status) ==
  LET waits == status \in WaitingStatuses
  IN  [s EXCEPT !.status[t] = status,
                !.at[t]     = IF waits THEN s.now ELSE 0,
                !.now       = IF waits THEN s.now + 1 ELSE s.now]

(* Mutant of Report: the plan's card is not brought up to date.             *)
ReportTaskOnly(s, t, status) == Touch(s, t, status)

(* Every touch of a task is published, and the plan's card with it.         *)
Report(s, t, status) == EmitPlanProgress(Touch(s, t, status))

(* _create_task, for each of a set of intents, by the handler of request r. *)
CreateTasks(s, r, new, conf) ==
  LET created(t) == t[1] = r /\ IntentOf(t) \in new
  IN  [s EXCEPT
        !.status = [t \in TaskIds |-> IF created(t) THEN "created" ELSE @[t]],
        !.conf   = [t \in TaskIds |-> IF created(t) THEN conf[IntentOf(t)]
                                                    ELSE @[t]],
        !.born   = [t \in TaskIds |-> IF created(t) THEN s.now ELSE @[t]],
        !.now    = @ + 1]
=============================================================================
