----------------------------- MODULE OverlapProofs -----------------------------
(***************************************************************************)
(* Theorems about module Orchestrator that hold however requests overlap:  *)
(* what a message creates, what the queue runs, what a plan's card shows   *)
(* and who drives the tasks that execute.                                  *)
(*                                                                         *)
(* A step of a handler is seen in three parts: tasks that end (Ended),     *)
(* tasks that are created (Grown), and a turn of the queue (Turned). Each  *)
(* part says all that it does to the statuses of the tasks, and the        *)
(* theorems follow from the three together.                                *)
(***************************************************************************)
EXTENDS OrchestratorProofs

-----------------------------------------------------------------------------
(* What the operations do to the tasks of a session.                        *)

(* From s to s1 the tasks are left alone.                                   *)
SameTasks(s, s1) == s1.status = s.status /\ s1.conf = s.conf /\ s1.born = s.born

(* Task.touch gives one task its status.                                    *)
LEMMA TouchDoes ==
  ASSUME NEW s \in Session, NEW t \in TaskIds, NEW status
  PROVE  /\ Touch(s, t, status).status = [s.status EXCEPT ![t] = status]
         /\ Touch(s, t, status).conf = s.conf
         /\ Touch(s, t, status).born = s.born
         /\ Touch(s, t, status).plan = s.plan
         /\ Touch(s, t, status).active = s.active
  BY DEF Touch, Session

(* The progress of a plan leaves the tasks alone.                           *)
LEMMA EmitDoes ==
  ASSUME NEW s \in Session
  PROVE  /\ SameTasks(s, EmitPlanProgress(s))
         /\ EmitPlanProgress(s).at = s.at
         /\ EmitPlanProgress(s).active = s.active
         /\ s.plan.status \notin ExecutingPlan => EmitPlanProgress(s) = s
<1> DEFINE items  == RefreshedItems(s)
           status == IF \E i \in AllIntents : items[i] = "completed"
                       THEN "partially_completed" ELSE "running"
           plan   == IF AllSettled(items) THEN NoPlan
                       ELSE [s.plan EXCEPT !.item = items, !.status = status]
<1>1. EmitPlanProgress(s) = IF s.plan.status \notin ExecutingPlan
                              THEN s ELSE [s EXCEPT !.plan = plan]
  BY DEF EmitPlanProgress
<1> HIDE DEF plan
<1> QED BY <1>1 DEF Session, SameTasks

(* A touch that is published does as the touch.                             *)
LEMMA ReportDoes ==
  ASSUME NEW s \in Session, NEW t \in TaskIds, NEW status \in TaskStatuses
  PROVE  /\ Report(s, t, status).status = [s.status EXCEPT ![t] = status]
         /\ Report(s, t, status).conf = s.conf
         /\ Report(s, t, status).born = s.born
         /\ Report(s, t, status).active = s.active
  BY TouchType, TouchDoes, EmitDoes DEF Report, SameTasks

(* queue_pending_tasks queues what was created.                             *)
LEMMA QueueDoes ==
  ASSUME NEW s \in Session
  PROVE  /\ QueuePendingTasks(s).status = [t \in TaskIds |->
                                             IF s.status[t] = "created" THEN "queued"
                                                                        ELSE s.status[t]]
         /\ QueuePendingTasks(s).plan = s.plan
  BY DEF QueuePendingTasks, Session

(* _create_task creates the tasks of request r, and only those.             *)
LEMMA CreateDoes ==
  ASSUME NEW s \in Session, NEW r \in Requests, NEW new, NEW conf
  PROVE  /\ \A t \in TaskIds : CreateTasks(s, r, new, conf).status[t]
              = IF t[1] = r /\ IntentOf(t) \in new THEN "created" ELSE s.status[t]
         /\ CreateTasks(s, r, new, conf).plan = s.plan
  BY DEF CreateTasks, Session

(* Queued tasks are cancelled, if they are still open.                      *)
LEMMA CancelAllDoes ==
  ASSUME NEW s \in Session, NEW tasks \in SUBSET TaskIds
  PROVE  \A t \in TaskIds :
           CancelAll(s, tasks).status[t]
             = IF t \in tasks /\ s.status[t] \notin TerminalStatuses
                 THEN "cancelled" ELSE s.status[t]
<1> DEFINE gone(t) == t \in tasks /\ s.status[t] \notin TerminalStatuses
           st == [t \in TaskIds |-> IF gone(t) THEN "cancelled" ELSE s.status[t]]
           at == [t \in TaskIds |-> IF gone(t) THEN 0 ELSE s.at[t]]
           s1 == [s EXCEPT !.status = st, !.at = at]
<1>1. st \in [TaskIds -> TaskStatuses \cup {"none"}] /\ at \in [TaskIds -> Nat]
  BY DEF Session, TaskStatuses, TerminalStatuses
<1>2. CancelAll(s, tasks) = IF \E t \in tasks : gone(t) THEN EmitPlanProgress(s1) ELSE s
  BY DEF CancelAll
<1>3. ASSUME ~\E t \in tasks : gone(t)
      PROVE  st = s.status
  BY <1>3 DEF Session
<1> HIDE DEF st, at, gone
<1>4. s1 \in Session /\ s1.status = st
  BY <1>1 DEF Session
<1> HIDE DEF s1
<1>5. EmitPlanProgress(s1).status = st
  BY <1>4, EmitDoes DEF SameTasks
<1> QED BY <1>2, <1>3, <1>5 DEF st, gone

-----------------------------------------------------------------------------
(* The plan's card.                                                         *)

PlanItems(s) == {i \in AllIntents : s.plan.task[i] # NoTask}

(* The tasks of a plan exist, and what has no task waits for the decision   *)
(* or was skipped by it.                                                    *)
Shape(s) ==
  /\ \A i \in PlanItems(s) : s.status[s.plan.task[i]] # "none"
  /\ PlanPending(s) =>
       /\ PlanItems(s) = {}
       /\ \A i \in AllIntents : s.plan.item[i] \in {"none", "pending"}
  /\ s.plan.status \in ExecutingPlan =>
       \A i \in AllIntents \ PlanItems(s) : s.plan.item[i] \in {"none", "skipped"}

(* The card shows the statuses of the plan's tasks, one of which is open.   *)
Shown(s) ==
  /\ \A i \in PlanItems(s) :
       s.plan.item[i] = ItemStatusForTask(s.status[s.plan.task[i]])
  /\ PlanItems(s) # {} =>
       \E i \in PlanItems(s) : s.status[s.plan.task[i]] \notin TerminalStatuses
  /\ s.plan.status = "partially_completed"
       <=> \E i \in PlanItems(s) : s.status[s.plan.task[i]] = "completed"

(* A plan under way may be without tasks after a failure only.              *)
Honest(s) ==
  s.plan.status \in ExecutingPlan =>
    Shown(s) /\ (PlanItems(s) = {} => CatalogFailsFor # {})

(* What a card shows tells apart what a plan's progress asks of a status.   *)
LEMMA ItemTells ==
  ASSUME NEW status \in TaskStatuses
  PROVE  /\ ItemStatusForTask(status) # "none" /\ ItemStatusForTask(status) # "skipped"
         /\ ItemStatusForTask(status) \in TerminalStatuses <=> status \in TerminalStatuses
         /\ ItemStatusForTask(status) = "completed" <=> status = "completed"
  BY DEF ItemStatusForTask, TaskStatuses, ExecutingStatuses, WaitingStatuses,
         TerminalStatuses

(* A new plan, and none, have no items.                                     *)
LEMMA NoPlanShape ==
  ASSUME NEW s \in Session, s.plan = NoPlan
  PROVE  Shape(s) /\ Honest(s)
  BY DEF Shape, Honest, PlanItems, PlanPending, ExecutingPlan, NoPlan

(* Whatever became of the tasks, the progress of the plan puts its card     *)
(* right.                                                                   *)
LEMMA EmitMends ==
  ASSUME NEW s \in Session, Shape(s)
  PROVE  Shape(EmitPlanProgress(s)) /\ Honest(EmitPlanProgress(s))
<1> DEFINE items  == RefreshedItems(s)
           status == IF \E i \in AllIntents : items[i] = "completed"
                       THEN "partially_completed" ELSE "running"
           on     == [s.plan EXCEPT !.item = items, !.status = status]
           s1     == EmitPlanProgress(s)
<1>1. CASE s.plan.status \notin ExecutingPlan
  <2>1. s1 = s
    BY <1>1, EmitDoes
  <2> QED BY <1>1, <2>1 DEF Honest
<1>2. s1 \in Session /\ SameTasks(s, s1)
  BY EmitPlanProgressType, EmitDoes
<1>3. CASE s.plan.status \in ExecutingPlan /\ AllSettled(items)
  <2>1. s1.plan = NoPlan
    BY <1>3 DEF EmitPlanProgress, Session
  <2> HIDE DEF s1
  <2> QED BY <1>2, <2>1, NoPlanShape DEF s1
<1>4. CASE s.plan.status \in ExecutingPlan /\ ~AllSettled(items)
  <2>1. s1.plan = on
    BY <1>4 DEF EmitPlanProgress, Session
  <2>2. on.task = s.plan.task /\ on.item = items /\ on.status = status
    <3> HIDE DEF items, status
    <3> QED BY DEF Session, Plan
  <2>3. PlanItems(s1) = PlanItems(s)
    BY <2>1, <2>2 DEF PlanItems
  <2>4. ASSUME NEW i \in PlanItems(s)
        PROVE  /\ s.plan.task[i] \in TaskIds
               /\ s.status[s.plan.task[i]] \in TaskStatuses
               /\ items[i] = ItemStatusForTask(s.status[s.plan.task[i]])
    BY <2>4 DEF PlanItems, Shape, Session, Plan, RefreshedItems
  <2>5. ASSUME NEW i \in AllIntents \ PlanItems(s)
        PROVE  items[i] \in {"none", "skipped"}
    BY <1>4, <2>5 DEF PlanItems, Shape, RefreshedItems
  <2>6. status \in ExecutingPlan /\ status # "waiting_confirmation"
    BY DEF ExecutingPlan
  <2>7. PICK i \in AllIntents : items[i] \notin TerminalStatuses \cup {"skipped", "none"}
    BY <1>4 DEF AllSettled
  <2>8. i \in PlanItems(s) /\ s.status[s.plan.task[i]] \notin TerminalStatuses
    BY <2>4, <2>5, <2>7, ItemTells
  <2>9. status = "partially_completed"
          <=> \E j \in PlanItems(s) : s.status[s.plan.task[j]] = "completed"
    <3>1. status = "partially_completed" <=> \E j \in AllIntents : items[j] = "completed"
      OBVIOUS
    <3> HIDE DEF items, status
    <3>2. PlanItems(s) \subseteq AllIntents
      BY DEF PlanItems
    <3> QED BY <2>4, <2>5, <3>1, <3>2, ItemTells
  <2> HIDE DEF items, status, on, s1
  <2>10. Shape(s1)
    BY <1>2, <2>1, <2>2, <2>3, <2>5, <2>6 DEF Shape, PlanPending, SameTasks
  <2>11. Honest(s1)
    BY <1>2, <2>1, <2>2, <2>3, <2>4, <2>8, <2>9 DEF Honest, Shown, SameTasks
  <2> QED BY <2>10, <2>11 DEF s1
<1> QED BY <1>1, <1>3, <1>4

(* Shape survives what leaves the plan alone and the tasks in being.        *)
LEMMA ShapeKept ==
  ASSUME NEW s \in Session, NEW s1 \in Session, s1.plan = s.plan, Shape(s),
         \A t \in TaskIds : s.status[t] # "none" => s1.status[t] # "none"
  PROVE  Shape(s1)
<1>1. PlanItems(s1) = PlanItems(s)
  BY DEF PlanItems
<1>2. \A i \in PlanItems(s) : s.plan.task[i] \in TaskIds
  BY DEF PlanItems, Session, Plan
<1> QED BY <1>1, <1>2 DEF Shape, PlanPending

(* So a published touch of a task in being puts the card right.             *)
LEMMA ReportMends ==
  ASSUME NEW s \in Session, Shape(s), NEW t \in TaskIds, NEW status \in TaskStatuses
  PROVE  Shape(Report(s, t, status)) /\ Honest(Report(s, t, status))
<1> DEFINE s1 == Touch(s, t, status)
<1>1. s1 \in Session /\ s1.plan = s.plan /\ s1.status = [s.status EXCEPT ![t] = status]
  BY TouchType, TouchDoes
<1>2. status # "none"
  BY DEF TaskStatuses, ExecutingStatuses, WaitingStatuses, TerminalStatuses
<1> HIDE DEF s1
<1>3. Shape(s1)
  BY <1>1, <1>2, ShapeKept DEF Session
<1> QED BY <1>1, <1>3, EmitMends DEF Report, s1

(* A card that is right stays right while its tasks stay as they are, or    *)
(* are queued.                                                              *)
LEMMA CardKept ==
  ASSUME NEW s \in Session, NEW s1 \in Session, s1.plan = s.plan, Shape(s),
         \A t \in TaskIds : \/ s.status[t] = "none"
                            \/ s1.status[t] = s.status[t]
                            \/ s.status[t] = "created" /\ s1.status[t] = "queued"
  PROVE  /\ Shape(s1)
         /\ Shown(s) => Shown(s1)
         /\ Honest(s) => Honest(s1)
<1>1. PlanItems(s1) = PlanItems(s)
  BY DEF PlanItems
<1>2. Shape(s1)
  BY ShapeKept
<1>3. ASSUME NEW i \in PlanItems(s)
      PROVE  LET a == s.status[s.plan.task[i]]
                 b == s1.status[s.plan.task[i]]
             IN  /\ ItemStatusForTask(b) = ItemStatusForTask(a)
                 /\ b \in TerminalStatuses <=> a \in TerminalStatuses
                 /\ b = "completed" <=> a = "completed"
  <2>1. s.plan.task[i] \in TaskIds /\ s.status[s.plan.task[i]] # "none"
    BY <1>3 DEF PlanItems, Shape, Session, Plan
  <2>2. ItemStatusForTask("queued") = ItemStatusForTask("created")
    BY DEF ItemStatusForTask, ExecutingStatuses
  <2> QED BY <2>1, <2>2 DEF TerminalStatuses
<1>4. Shown(s) => Shown(s1)
  BY <1>1, <1>3 DEF Shown
<1> QED BY <1>1, <1>2, <1>4 DEF Honest

-----------------------------------------------------------------------------
(* The parts of a step.                                                     *)

(* From s to s1 some tasks were settled, each of them in being.             *)
Ended(s, s1) ==
  \A t \in TaskIds :
    \/ s1.status[t] = s.status[t]
    \/ s.status[t] # "none" /\ s1.status[t] \in ConcludingStatuses \cup {"cancelled"}

(* From s to s1 request r created its tasks of the intents new, and created *)
(* tasks were queued.                                                       *)
Grown(r, s, s1, new) ==
  \A t \in TaskIds :
    IF t[1] = r /\ IntentOf(t) \in new
      THEN s.status[t] = "none" /\ s1.status[t] \in {"created", "queued"}
      ELSE \/ s1.status[t] = s.status[t]
           \/ s.status[t] = "created" /\ s1.status[t] = "queued"

(* Task t overtakes no queued task and none that waits.                     *)
Heads(s, t) ==
  Waiting(s) = {} /\ \A u \in Queued(s) : ~SortsBefore(s, catalog, u, t)

(* From s to s1 a handler with locals q ran the head of the queue and reads *)
(* its stream with locals q1, or ended; and the plan's card is right.       *)
Turned(q, s, s1, q1) ==
  /\ \A t \in TaskIds :
       \/ s1.status[t] = s.status[t]
       \/ /\ s.status[t] = "queued" /\ s1.status[t] = "running"
          /\ q1.task = t /\ Heads(s1, t)
  /\ q1.verdict = q.verdict /\ q1.plan = q.plan
  /\ q1.todo = {} /\ q1.drop = {}
  /\ \/ q1.pc \in {"done", "raised"} /\ q1.task = NoTask
     \/ q1.pc = "streaming" /\ q1.task \in TaskIds /\ s1.status[q1.task] = "running"
  /\ Shape(s1) /\ Honest(s1)

(* A step changes nothing about the other requests.                         *)
Only(r) == \A x \in Requests \ {r} : req'[x] = req[x]

Turns(r, q, s) == Turned(q, s, session', req'[r]) /\ Only(r)

(* What a handler knows that is about to end or to run the queue.           *)
Ready(q, s) ==
  /\ s \in Session /\ Shape(s)
  /\ q.verdict = "confirm" /\ s.plan.status \in ExecutingPlan => Shown(s)
  /\ q.verdict # "confirm" => Honest(s)

(* What Cleared leaves of a request.                                        *)
LEMMA ClearedDoes ==
  ASSUME NEW q, NEW pc
  PROVE  /\ Cleared(q, pc).pc = pc /\ Cleared(q, pc).verdict = q.verdict
         /\ Cleared(q, pc).plan = q.plan
         /\ Cleared(q, pc).task = NoTask
         /\ Cleared(q, pc).todo = {} /\ Cleared(q, pc).drop = {}
  BY DEF Cleared, NewRequest

(* A handler that returns leaves the tasks alone.                           *)
LEMMA ReturnTurns ==
  ASSUME TypeOK, NEW r \in Requests, NEW q, NEW s, Ready(q, s), Return(r, q, s)
  PROVE  Turns(r, q, s)
<1>1. s \in Session /\ Shape(s)
  BY DEF Ready
<1>2. req'[r] = Cleared(q, "done") /\ Only(r)
  BY DEF TypeOK, Return, Only
<1>3. CASE q.verdict = "confirm"
  <2>1. session' = EmitPlanProgress(s)
    BY <1>3 DEF Return
  <2>2. session'.status = s.status /\ Shape(session') /\ Honest(session')
    BY <1>1, <2>1, EmitDoes, EmitMends DEF SameTasks
  <2> QED BY <1>2, <2>2, ClearedDoes DEF Turned, Turns
<1>4. CASE q.verdict # "confirm"
  <2>1. session' = s /\ Honest(s)
    BY <1>4 DEF Return, Ready
  <2> QED BY <1>1, <1>2, <2>1, ClearedDoes DEF Turned, Turns
<1> QED BY <1>3, <1>4

(* So does one that a failed read of the catalog ends.                      *)
LEMMA CatalogRaisesTurns ==
  ASSUME TypeOK, NEW r \in Requests, NEW q, NEW s, Ready(q, s), CatalogRaises(r, q, s)
  PROVE  Turns(r, q, s)
<1>1. /\ session' = s /\ req'[r] = Cleared(q, "raised") /\ Only(r)
      /\ CatalogFailsFor # {}
  BY DEF TypeOK, CatalogRaises, Await, Only
<1>2. Shape(s) /\ Honest(s)
  BY <1>1 DEF Ready, Honest
<1> QED BY <1>1, <1>2, ClearedDoes DEF Turned, Turns

(* From s to s1 a handler with locals q ran task t and reads its stream     *)
(* with locals q1.                                                          *)
Runs(q, s, t, s1, q1) ==
  /\ \A u \in TaskIds : s1.status[u] = IF u = t THEN "running" ELSE s.status[u]
  /\ s1.conf = s.conf /\ s1.born = s.born /\ s1.active = s.active
  /\ q1.pc = "streaming" /\ q1.task = t
  /\ q1.verdict = q.verdict /\ q1.plan = q.plan
  /\ q1.todo = {} /\ q1.drop = {}
  /\ Shape(s1) /\ Honest(s1)

(* _run_task touches the one task it runs.                                  *)
LEMMA RunTaskDoes ==
  ASSUME TypeOK, NEW r \in Requests, NEW q, NEW s \in Session, NEW t \in TaskIds,
         Shape(s), \E resumed \in BOOLEAN : RunTask(r, q, s, t, resumed)
  PROVE  Runs(q, s, t, session', req'[r]) /\ Only(r)
<1>0. PICK resumed \in BOOLEAN : RunTask(r, q, s, t, resumed)
  OBVIOUS
<1> DEFINE s1 == Touch(s, t, "dispatching")
           q1 == [Cleared(q, "streaming") EXCEPT !.task = t, !.resumed = resumed]
<1>1. {"dispatching", "running"} \subseteq TaskStatuses /\ "dispatching" # "none"
  BY DEF TaskStatuses, ExecutingStatuses
<1>2. /\ s1 \in Session /\ s1.plan = s.plan /\ s1.active = s.active
      /\ s1.status = [s.status EXCEPT ![t] = "dispatching"]
      /\ s1.conf = s.conf /\ s1.born = s.born
  BY <1>1, TouchType, TouchDoes
<1>3. session' = Report(s1, t, "running") /\ req'[r] = q1 /\ Only(r)
  BY <1>0 DEF TypeOK, RunTask, Await, Only
<1>4. /\ q1.pc = "streaming" /\ q1.task = t /\ q1.verdict = q.verdict
      /\ q1.plan = q.plan /\ q1.todo = {} /\ q1.drop = {}
  BY DEF Cleared, NewRequest
<1> HIDE DEF s1, q1
<1>5. Shape(s1)
  BY <1>1, <1>2, ShapeKept DEF Session
<1>6. /\ session' \in Session /\ Shape(session') /\ Honest(session')
      /\ session'.status = [s1.status EXCEPT ![t] = "running"]
      /\ session'.conf = s1.conf /\ session'.born = s1.born
      /\ session'.active = s1.active
  BY <1>1, <1>2, <1>3, <1>5, ReportType, ReportDoes, ReportMends
<1>7. \A u \in TaskIds :
        session'.status[u] = IF u = t THEN "running" ELSE s.status[u]
  BY <1>2, <1>6 DEF Session
<1> QED BY <1>2, <1>3, <1>4, <1>6, <1>7 DEF Runs

(* The active task is nothing to the tasks and the plan.                    *)
LEMMA ActiveKeeps ==
  ASSUME NEW s \in Session, NEW t \in TaskIds \cup {NoTask}, Shape(s)
  PROVE  LET s1 == [s EXCEPT !.active = t]
         IN  /\ s1 \in Session /\ SameTasks(s, s1) /\ s1.active = t
             /\ s1.at = s.at /\ s1.plan = s.plan
             /\ Shape(s1) /\ (Shown(s) => Shown(s1)) /\ (Honest(s) => Honest(s1))
<1> DEFINE s1 == [s EXCEPT !.active = t]
<1>1. s1 \in Session
  BY ActiveType
<1>2. s1.plan = s.plan /\ SameTasks(s, s1) /\ s1.active = t /\ s1.at = s.at
  BY DEF Session, SameTasks
<1> HIDE DEF s1
<1>3. Shape(s1) /\ (Shown(s) => Shown(s1)) /\ (Honest(s) => Honest(s1))
  BY <1>1, <1>2, CardKept DEF SameTasks
<1> QED BY <1>1, <1>2, <1>3 DEF s1

(* A turn of _drain_queue runs the head of the queue, or none.              *)
LEMMA DrainQueueTurns ==
  ASSUME TypeOK, NEW r \in Requests, NEW q, NEW s, Ready(q, s), DrainQueue(r, q, s)
  PROVE  Turns(r, q, s)
<1>1. s \in Session
  BY DEF Ready
<1>2. ASSUME NEW t \in TaskIds \cup {NoTask}
      PROVE  /\ [s EXCEPT !.active = t] \in Session
             /\ SameTasks(s, [s EXCEPT !.active = t])
             /\ Ready(q, [s EXCEPT !.active = t])
  BY <1>1, ActiveKeeps DEF Ready
<1>3. ASSUME NEW t \in TaskIds \cup {NoTask}, Return(r, q, [s EXCEPT !.active = t])
      PROVE  Turns(r, q, s)
  <2> DEFINE s1 == [s EXCEPT !.active = t]
  <2>1. SameTasks(s, s1) /\ Ready(q, s1)
    BY <1>2
  <2>2. Turns(r, q, s1)
    BY <1>3, <2>1, ReturnTurns
  <2> HIDE DEF s1
  <2> QED BY <2>1, <2>2 DEF Turned, Turns, SameTasks
<1>4. ASSUME Waiting(s) = {}, NEW t \in NextRunnable(s, catalog),
             RunTask(r, q, [s EXCEPT !.active = t], t, FALSE)
      PROVE  Turns(r, q, s)
  <2> DEFINE s1 == [s EXCEPT !.active = t]
  <2>1. /\ t \in TaskIds /\ s.status[t] = "queued"
        /\ \A u \in Queued(s) : ~SortsBefore(s, catalog, u, t)
    BY <1>4 DEF NextRunnable, Queued
  <2>2. s1 \in Session /\ SameTasks(s, s1) /\ Shape(s1)
    BY <1>2, <2>1 DEF Ready
  <2>3. \E resumed \in BOOLEAN : RunTask(r, q, s1, t, resumed)
    BY <1>4
  <2> HIDE DEF s1
  <2>4. Runs(q, s1, t, session', req'[r]) /\ Only(r)
    BY <2>1, <2>2, <2>3, RunTaskDoes
  <2>5. /\ \A u \in TaskIds :
             session'.status[u] = IF u = t THEN "running" ELSE s.status[u]
        /\ session'.conf = s.conf /\ session'.born = s.born
    BY <2>2, <2>4 DEF Runs, SameTasks
  <2>6. Waiting(session') = {} /\ Queued(session') \subseteq Queued(s)
    BY <1>4, <2>5 DEF Waiting, Queued, WaitingStatuses
  <2>7. Heads(session', t)
    BY <2>1, <2>5, <2>6 DEF Heads, SortsBefore
  <2> QED BY <2>1, <2>4, <2>5, <2>7 DEF Turned, Turns, Runs
<1>5. WaitingTask(s) \subseteq TaskIds
  BY DEF WaitingTask, Waiting
<1> QED BY <1>3, <1>4, <1>5, CatalogRaisesTurns DEF DrainQueue

(* So does what follows _run_task.                                          *)
LEMMA AfterRunTurns ==
  ASSUME TypeOK, NEW r \in Requests, NEW q, NEW s, Ready(q, s), AfterRun(r, q, s)
  PROVE  Turns(r, q, s)
  BY DrainQueueTurns, ReturnTurns DEF AfterRun

-----------------------------------------------------------------------------
(* The rest of a handler that dispatches, cancels or confirms.              *)

(* Request r has created no task yet.                                       *)
Fresh(r, s) == \A i \in AllIntents : s.status[<<r, i>>] = "none"

(* From s on, a handler creates tasks, none of an intent that is open but   *)
(* for a confirmed plan's, and turns the queue.                             *)
Acts(r, q, s) ==
  \E s1 \in Session, new \in SUBSET AllIntents :
    /\ Grown(r, s, s1, new)
    /\ q.verdict # "confirm" => new \cap OpenIntents(s) = {}
    /\ Turns(r, q, s1)

(* With a card that is right, a handler may end whatever it decided.        *)
LEMMA HonestReady ==
  ASSUME NEW q, NEW s \in Session, Shape(s), Honest(s)
  PROVE  Ready(q, s)
  BY DEF Ready, Honest

(* A turn of the queue alone creates nothing.                               *)
LEMMA TurnActs ==
  ASSUME NEW r, NEW q, NEW s \in Session, Turns(r, q, s)
  PROVE  Acts(r, q, s)
<1>1. Grown(r, s, s, {}) /\ {} \in SUBSET AllIntents /\ {} \cap OpenIntents(s) = {}
  BY DEF Grown
<1> QED BY <1>1 DEF Acts

(* The tasks of request r that are created are those of the intents named.  *)
LEMMA CreateGrows ==
  ASSUME NEW s \in Session, NEW r \in Requests, NEW new \in SUBSET AllIntents,
         NEW conf \in [AllIntents -> Confidence], Fresh(r, s)
  PROVE  LET s1 == CreateTasks(s, r, new, conf)
             s2 == QueuePendingTasks(s1)
         IN  /\ s1 \in Session /\ s1.plan = s.plan /\ Grown(r, s, s1, new)
             /\ s2 \in Session /\ s2.plan = s.plan /\ Grown(r, s, s2, new)
<1> DEFINE s1 == CreateTasks(s, r, new, conf)
           s2 == QueuePendingTasks(s1)
<1>1. /\ s1 \in Session /\ s1.plan = s.plan
      /\ \A t \in TaskIds : s1.status[t] = IF t[1] = r /\ IntentOf(t) \in new
                                             THEN "created" ELSE s.status[t]
  BY CreateTasksType, CreateDoes
<1> HIDE DEF s1
<1>2. /\ s2 \in Session /\ s2.plan = s1.plan
      /\ \A t \in TaskIds : s2.status[t] = IF s1.status[t] = "created" THEN "queued"
                                                                       ELSE s1.status[t]
  BY <1>1, QueuePendingTasksType, QueueDoes
<1> HIDE DEF s2
<1>3. \A t \in TaskIds : t[1] = r => s.status[t] = "none"
  BY DEF Fresh, TaskIds
<1>4. Grown(r, s, s1, new)
  BY <1>1, <1>3 DEF Grown
<1>5. Grown(r, s, s2, new)
  BY <1>1, <1>2, <1>3 DEF Grown
<1> QED BY <1>1, <1>2, <1>4, <1>5 DEF s1, s2

(* What is created or queued leaves the plan's card right.                  *)
LEMMA GrownKeepsCard ==
  ASSUME NEW s \in Session, NEW s1 \in Session, s1.plan = s.plan, Shape(s),
         NEW r, NEW new, Grown(r, s, s1, new)
  PROVE  /\ Shape(s1)
         /\ Shown(s) => Shown(s1)
         /\ Honest(s) => Honest(s1)
  BY CardKept DEF Grown

(* A plan just proposed has items that wait for its decision.               *)
LEMMA ProposeDoes ==
  ASSUME NEW s \in Session, NEW planned, NEW conf \in [AllIntents -> Confidence]
  PROVE  LET s1 == ProposePlan(s, planned, conf)
         IN  /\ SameTasks(s, s1) /\ s1.active = NoTask /\ s1.at = s.at
             /\ Shape(s1) /\ Honest(s1) /\ PlanPending(s1)
             /\ \A i \in AllIntents : s1.plan.item[i] # "none" => i \in planned
<1> DEFINE item == [i \in AllIntents |-> IF i \in planned THEN "pending" ELSE "none"]
           cf   == [i \in AllIntents |-> IF i \in planned THEN conf[i] ELSE 0]
           plan == [NoPlan EXCEPT !.id = s.plans + 1, !.status = "waiting_confirmation",
                                  !.item = item, !.conf = cf]
           s1   == ProposePlan(s, planned, conf)
<1>1. s1 = [s EXCEPT !.plans = s.plans + 1, !.active = NoTask, !.plan = plan]
  BY DEF ProposePlan, Session
<1>2. /\ plan.status = "waiting_confirmation" /\ plan.item = item
      /\ plan.task = [i \in AllIntents |-> NoTask]
  BY DEF NoPlan
<1>3. \A i \in AllIntents : item[i] \in {"none", "pending"}
  OBVIOUS
<1>4. \A i \in AllIntents : item[i] # "none" => i \in planned
  OBVIOUS
<1> HIDE DEF plan, item
<1>5. SameTasks(s, s1) /\ s1.active = NoTask /\ s1.at = s.at /\ s1.plan = plan
  BY <1>1 DEF Session, SameTasks
<1> HIDE DEF s1
<1>6. Shape(s1) /\ Honest(s1)
  BY <1>2, <1>3, <1>5 DEF Shape, Honest, PlanItems, PlanPending, ExecutingPlan
<1>7. PlanPending(s1) /\ \A i \in AllIntents : s1.plan.item[i] # "none" => i \in planned
  BY <1>2, <1>4, <1>5 DEF PlanPending
<1> QED BY <1>5, <1>6, <1>7 DEF s1

(* _dispatch_recognition creates tasks of intents that are not open.        *)
LEMMA DispatchActs ==
  ASSUME TypeOK, NEW r \in Requests, NEW q, NEW s \in Session, NEW rec \in Recognition,
         Fresh(r, s), Shape(s), Honest(s), DispatchRecognition(r, q, s, rec)
  PROVE  Acts(r, q, s)
<1> DEFINE planned == Planned(s, rec.primary)
           new     == planned \cup (IF FallbackDue(s, rec.primary)
                                      THEN {Fallback} ELSE {})
           s1      == CreateTasks(s, r, new, rec.conf)
           s2      == QueuePendingTasks(s1)
<1>1. rec.conf \in [AllIntents -> Confidence] /\ rec.primary \in SUBSET AllIntents
  BY DEF Recognition
<1>2. new \in SUBSET AllIntents /\ new \cap OpenIntents(s) = {}
  BY <1>1 DEF Planned, FallbackDue, AllIntents
<1>3. CASE CatalogRaises(r, q, s)
  BY <1>3, HonestReady, CatalogRaisesTurns, TurnActs
<1>4. CASE Return(r, q, ProposePlan(s, planned, rec.conf))
  <2> DEFINE s3 == ProposePlan(s, planned, rec.conf)
  <2>1. s3 \in Session /\ SameTasks(s, s3) /\ Shape(s3) /\ Honest(s3)
    BY <1>1, ProposePlanType, ProposeDoes
  <2>2. Turns(r, q, s3)
    BY <1>4, <2>1, HonestReady, ReturnTurns
  <2> HIDE DEF s3
  <2>3. Grown(r, s, s3, {}) /\ {} \in SUBSET AllIntents /\ {} \cap OpenIntents(s) = {}
    BY <2>1 DEF Grown, SameTasks
  <2> QED BY <2>1, <2>2, <2>3 DEF Acts
<1>5. CASE CatalogRaises(r, q, s1) \/ DrainQueue(r, q, s2)
  <2> HIDE DEF new
  <2>1. /\ s1 \in Session /\ s1.plan = s.plan /\ Grown(r, s, s1, new)
        /\ s2 \in Session /\ s2.plan = s.plan /\ Grown(r, s, s2, new)
    BY <1>1, <1>2, CreateGrows
  <2> HIDE DEF s1, s2
  <2>2. Ready(q, s1) /\ Ready(q, s2)
    BY <2>1, GrownKeepsCard, HonestReady
  <2>3. Turns(r, q, s1) \/ Turns(r, q, s2)
    BY <1>5, <2>2, CatalogRaisesTurns, DrainQueueTurns
  <2> QED BY <1>2, <2>1, <2>3 DEF Acts
<1> QED BY <1>3, <1>4, <1>5 DEF DispatchRecognition

(* The first part of a switch: some of the tasks todo were cancelled, and   *)
(* the answer about the next one is awaited.                                *)
Cancels(r, q, s, todo) ==
  /\ session' = s /\ Only(r)
  /\ req'[r].pc = "cancelling" /\ req'[r].task \in todo
  /\ req'[r].todo \subseteq todo /\ req'[r].drop = q.drop

(* The queued tasks are cancelled, and the plan's card follows.             *)
LEMMA CancelAllEnds ==
  ASSUME NEW s \in Session, NEW tasks \in SUBSET TaskIds, Shape(s), Honest(s),
         \A t \in tasks : s.status[t] # "none"
  PROVE  LET s1 == CancelAll(s, tasks)
         IN  /\ s1 \in Session /\ Ended(s, s1)
             /\ Shape(s1) /\ Honest(s1)
<1> DEFINE gone(t) == t \in tasks /\ s.status[t] \notin TerminalStatuses
           st == [t \in TaskIds |-> IF gone(t) THEN "cancelled" ELSE s.status[t]]
           at == [t \in TaskIds |-> IF gone(t) THEN 0 ELSE s.at[t]]
           s0 == [s EXCEPT !.status = st, !.at = at]
           s1 == CancelAll(s, tasks)
<1>1. s1 \in Session
  BY CancelAllType
<1>2. \A t \in TaskIds : s1.status[t] = IF gone(t) THEN "cancelled" ELSE s.status[t]
  BY CancelAllDoes
<1>3. Ended(s, s1)
  BY <1>2 DEF Ended
<1>4. st \in [TaskIds -> TaskStatuses \cup {"none"}] /\ at \in [TaskIds -> Nat]
  BY DEF Session, TaskStatuses, TerminalStatuses
<1>5. s1 = IF \E t \in tasks : gone(t) THEN EmitPlanProgress(s0) ELSE s
  BY DEF CancelAll
<1>6. \A t \in TaskIds : s.status[t] # "none" => st[t] # "none"
  OBVIOUS
<1> HIDE DEF st, at, gone, s1
<1>7. s0 \in Session /\ s0.status = st /\ s0.plan = s.plan
  BY <1>4 DEF Session
<1> HIDE DEF s0
<1>8. Shape(s0)
  BY <1>6, <1>7, ShapeKept
<1>9. Shape(s1) /\ Honest(s1)
  BY <1>5, <1>7, <1>8, EmitMends
<1> QED BY <1>1, <1>3, <1>9 DEF s1

(* The rest of a switch cancels, and then dispatches.                       *)
LEMMA CancelTasksActs ==
  ASSUME TypeOK, NEW r \in Requests, NEW q \in Request, NEW s \in Session,
         NEW todo \in SUBSET TaskIds, Fresh(r, s), Shape(s), Honest(s),
         \A t \in q.drop : s.status[t] # "none", CancelTasks(r, q, s, todo)
  PROVE  \/ Cancels(r, q, s, todo)
         \/ \E s1 \in Session : Ended(s, s1) /\ Acts(r, q, s1)
<1>1. ASSUME NEW t \in NextToCancel(s, todo),
             Await(r, [q EXCEPT !.pc = "cancelling", !.task = t,
                                !.todo = {u \in todo \ {t} : s.born[u] >= s.born[t]}], s)
      PROVE  Cancels(r, q, s, todo)
  <2> DEFINE left == {u \in todo \ {t} : s.born[u] >= s.born[t]}
             q1   == [q EXCEPT !.pc = "cancelling", !.task = t, !.todo = left]
  <2>1. t \in todo /\ left \subseteq todo
    BY DEF NextToCancel
  <2> HIDE DEF left
  <2>2. q1.pc = "cancelling" /\ q1.task = t /\ q1.todo = left /\ q1.drop = q.drop
    BY DEF Request
  <2>3. session' = s /\ req'[r] = q1 /\ Only(r)
    BY <1>1 DEF left, TypeOK, Await, Only
  <2> HIDE DEF q1
  <2> QED BY <2>1, <2>2, <2>3 DEF Cancels
<1>2. ASSUME NEW s1, s1 = [CancelAll(s, q.drop) EXCEPT !.active = NoTask],
             IF q.idle THEN Return(r, q, s1) ELSE DispatchRecognition(r, q, s1, q.rec)
      PROVE  s1 \in Session /\ Ended(s, s1) /\ Acts(r, q, s1)
  <2> DEFINE s0 == CancelAll(s, q.drop)
  <2>1. q.drop \in SUBSET TaskIds /\ q.rec \in Recognition
    BY DEF Request
  <2>2. s0 \in Session /\ Ended(s, s0) /\ Shape(s0) /\ Honest(s0)
    BY <2>1, CancelAllEnds
  <2>3. s1 \in Session /\ SameTasks(s0, s1) /\ Shape(s1) /\ Honest(s1)
    BY <1>2, <2>2, ActiveKeeps
  <2>4. Ended(s, s1)
    BY <2>2, <2>3 DEF Ended, SameTasks
  <2>5. Fresh(r, s1)
    BY <2>4 DEF Fresh, Ended, TaskIds
  <2>6. Acts(r, q, s1)
    BY <1>2, <2>1, <2>3, <2>5, HonestReady, ReturnTurns, TurnActs, DispatchActs
  <2> QED BY <2>3, <2>4, <2>6
<1> QED BY <1>1, <1>2 DEF CancelTasks

(* A resumed task runs again, whatever has become of it.                    *)
LEMMA ResumeRuns ==
  ASSUME TypeOK, NEW r \in Requests, NEW q, NEW s \in Session, NEW t \in TaskIds,
         Shape(s), ResumeWaitingTask(r, q, s, t)
  PROVE  /\ \A u \in TaskIds :
              session'.status[u] = IF u = t THEN "running" ELSE s.status[u]
         /\ \E s1 \in Session : Runs(q, s1, t, session', req'[r]) /\ s1.active = t
         /\ Only(r)
<1> DEFINE s0 == Touch(s, t, "resuming")
           s1 == [s0 EXCEPT !.active = t]
<1>1. s0 \in Session /\ s0.plan = s.plan /\ s0.status = [s.status EXCEPT ![t] = "resuming"]
  BY TouchType, TouchDoes DEF TaskStatuses, ExecutingStatuses
<1>2. \E resumed \in BOOLEAN : RunTask(r, q, s1, t, resumed)
  BY DEF ResumeWaitingTask
<1> HIDE DEF s0
<1>3. Shape(s0)
  BY <1>1, ShapeKept DEF Session
<1>4. s1 \in Session /\ SameTasks(s0, s1) /\ Shape(s1) /\ s1.active = t
  BY <1>1, <1>3, ActiveKeeps
<1> HIDE DEF s1
<1>5. Runs(q, s1, t, session', req'[r]) /\ Only(r)
  BY <1>2, <1>4, RunTaskDoes
<1>6. \A u \in TaskIds :
        session'.status[u] = IF u = t THEN "running" ELSE s.status[u]
  BY <1>1, <1>4, <1>5 DEF Runs, SameTasks, Session
<1> QED BY <1>4, <1>5, <1>6

(* A confirmed plan has a task for each item that is not skipped.           *)
LEMMA ConfirmItemsDoes ==
  ASSUME NEW s \in Session, NEW r \in Requests, Fresh(r, s), Shape(s), PlanPending(s)
  PROVE  LET s1 == ConfirmItems(s, r)
         IN  /\ \E new \in SUBSET AllIntents :
                  Grown(r, s, s1, new) /\ \A i \in new : s.plan.item[i] # "none"
             /\ \A t \in TaskIds : s1.status[t] # s.status[t] =>
                  t[1] = r /\ \E i \in AllIntents : s1.plan.task[i] = t
             /\ s1.plan.status = "running" /\ Shape(s1) /\ Shown(s1)
<1> DEFINE items == {i \in AllIntents : s.plan.item[i] # "none"}
           run   == items \cap ListActive
           s0    == CreateTasks(s, r, run, s.plan.conf)
           item  == [i \in AllIntents |-> IF i \in items \ run
                                            THEN "skipped" ELSE s.plan.item[i]]
           task  == [i \in AllIntents |-> IF i \in run THEN <<r, i>> ELSE s.plan.task[i]]
           plan  == [s.plan EXCEPT !.status = "running", !.item = item, !.task = task]
           s1    == ConfirmItems(s, r)
<1>1. /\ s.plan.conf \in [AllIntents -> Confidence] /\ run \in SUBSET AllIntents
      /\ \A i \in run : s.plan.item[i] # "none"
  BY DEF Session, Plan
<1> HIDE DEF run
<1>2. s0 \in Session /\ s0.plan = s.plan /\ Grown(r, s, s0, run)
  BY <1>1, CreateGrows
<1>3. \A t \in TaskIds : s0.status[t] = IF t[1] = r /\ IntentOf(t) \in run
                                           THEN "created" ELSE s.status[t]
  BY <1>1, CreateDoes
<1>4. s1 = [s0 EXCEPT !.plan = plan]
  <2>1. s1 = [s0 EXCEPT !.plan.status = "running", !.plan.item = item, !.plan.task = task]
    BY <1>2 DEF ConfirmItems, run
  <2> HIDE DEF s0, s1, item, task
  <2> QED BY <1>2, <2>1 DEF Session, Plan
<1>5. plan.status = "running" /\ plan.item = item /\ plan.task = task
  <2> HIDE DEF item, task
  <2> QED BY DEF Session, Plan
<1> HIDE DEF s0, plan
<1>6. s1.status = s0.status /\ s1.plan = plan /\ s1 \in Session
  BY <1>2, <1>4, ConfirmItemsType DEF Session
<1>7. Grown(r, s, s1, run)
  BY <1>2, <1>6 DEF Grown
<1>8. ASSUME NEW i \in AllIntents
      PROVE  IF i \in run
               THEN /\ task[i] = <<r, i>> /\ task[i] # NoTask
                    /\ item[i] = "pending" /\ s1.status[task[i]] = "created"
               ELSE /\ task[i] = NoTask /\ item[i] \in {"none", "skipped"}
  <2>1. s.plan.task[i] = NoTask /\ s.plan.item[i] \in {"none", "pending"}
    BY DEF Shape, PlanItems
  <2>2. <<r, i>> \in TaskIds /\ <<r, i>> # NoTask /\ <<r, i>>[1] = r /\ IntentOf(<<r, i>>) = i
    BY NoTaskAssumption DEF TaskIds, IntentOf
  <2>3. i \in run => s1.status[<<r, i>>] = "created"
    BY <1>3, <1>6, <2>2
  <2>4. i \in run => s.plan.item[i] # "none"
    BY DEF run
  <2> QED BY <2>1, <2>2, <2>3, <2>4
<1> HIDE DEF item, task, s1, items
<1>9. PlanItems(s1) = run
  BY <1>1, <1>5, <1>6, <1>8 DEF PlanItems
<1>10. Shape(s1)
  BY <1>1, <1>5, <1>6, <1>8, <1>9 DEF Shape, PlanPending
<1>11. ItemStatusForTask("created") = "pending"
  BY DEF ItemStatusForTask, ExecutingStatuses
<1>12. Shown(s1)
  BY <1>1, <1>5, <1>6, <1>8, <1>9, <1>11 DEF Shown, TerminalStatuses
<1>13. ASSUME NEW t \in TaskIds, s1.status[t] # s.status[t]
       PROVE  t[1] = r /\ \E i \in AllIntents : s1.plan.task[i] = t
  <2>1. t[1] = r /\ IntentOf(t) \in run
    BY <1>3, <1>6, <1>13
  <2>2. t = <<r, IntentOf(t)>> /\ IntentOf(t) \in AllIntents
    BY <2>1 DEF TaskIds, IntentOf
  <2> QED BY <1>5, <1>6, <1>8, <2>1, <2>2
<1> QED BY <1>1, <1>5, <1>6, <1>7, <1>10, <1>12, <1>13 DEF s1

(* A confirmation creates the plan's tasks and turns the queue, or fails.   *)
LEMMA ConfirmActs ==
  ASSUME TypeOK, NEW r \in Requests, NEW q \in Request, Fresh(r, session),
         Shape(session), Honest(session), PlanPending(session), ConfirmPendingPlan(r, q)
  PROVE  \E q1 \in Request : Acts(r, q1, session)
<1> DEFINE q1 == [q EXCEPT !.plan = session.plan.id, !.verdict = "confirm"]
           s1 == ConfirmItems(session, r)
           s2 == QueuePendingTasks(s1)
<1>1. session \in Session /\ req[r] \in Request
  BY DEF TypeOK
<1>2. q1 \in Request /\ q1.verdict = "confirm"
  BY <1>1 DEF Request, Session, Plan
<1>3. /\ s1 \in Session /\ Shape(s1) /\ Shown(s1)
      /\ \E new \in SUBSET AllIntents : Grown(r, session, s1, new)
  BY <1>1, ConfirmItemsType, ConfirmItemsDoes
<1>4. \/ CatalogRaises(r, req[r], session)
      \/ CatalogRaises(r, q1, s1)
      \/ DrainQueue(r, q1, s2)
  BY DEF ConfirmPendingPlan
<1>5. CASE CatalogRaises(r, req[r], session)
  BY <1>1, <1>5, HonestReady, CatalogRaisesTurns, TurnActs
<1> HIDE DEF q1, s1
<1>6. /\ s2 \in Session /\ s2.plan = s1.plan
      /\ \A t \in TaskIds : s2.status[t] = IF s1.status[t] = "created" THEN "queued"
                                                                       ELSE s1.status[t]
  BY <1>3, QueuePendingTasksType, QueueDoes
<1> HIDE DEF s2
<1>7. Shape(s2) /\ Shown(s2)
  BY <1>3, <1>6, CardKept
<1>8. \E new \in SUBSET AllIntents : Grown(r, session, s2, new)
  BY <1>3, <1>6 DEF Grown
<1>9. Ready(q1, s1) /\ Ready(q1, s2)
  BY <1>2, <1>3, <1>6, <1>7 DEF Ready
<1>10. CASE CatalogRaises(r, q1, s1) \/ DrainQueue(r, q1, s2)
  <2>1. Turns(r, q1, s1) \/ Turns(r, q1, s2)
    BY <1>9, <1>10, CatalogRaisesTurns, DrainQueueTurns
  <2> QED BY <1>2, <1>3, <1>6, <1>8, <2>1 DEF Acts
<1> QED BY <1>4, <1>5, <1>10

(* A cancelled plan leaves the session, and has no task.                    *)
LEMMA CancelPlanActs ==
  ASSUME TypeOK, NEW r \in Requests, NEW q \in Request, CancelPendingPlan(r, q)
  PROVE  \E q1 \in Request : Acts(r, q1, session)
<1> DEFINE q1 == [q EXCEPT !.plan = session.plan.id, !.verdict = "cancel"]
           s1 == [session EXCEPT !.plan = NoPlan]
<1>1. session \in Session
  BY DEF TypeOK
<1>2. q1 \in Request
  BY <1>1 DEF Request, Session, Plan
<1>3. s1 \in Session /\ s1.plan = NoPlan /\ s1.status = session.status
  BY <1>1, NoPlanType DEF Session
<1>4. Return(r, q1, s1)
  BY DEF CancelPendingPlan
<1> HIDE DEF q1, s1
<1>5. Shape(s1) /\ Honest(s1)
  BY <1>3, NoPlanShape
<1>6. Turns(r, q1, s1)
  BY <1>3, <1>4, <1>5, HonestReady, ReturnTurns
<1>7. Grown(r, session, s1, {}) /\ {} \cap OpenIntents(session) = {}
  BY <1>3 DEF Grown
<1> QED BY <1>2, <1>3, <1>6, <1>7 DEF Acts

-----------------------------------------------------------------------------
(* The inductive invariant, and the three kinds of steps.                   *)

(* Agents report what became of a task they were given, which is past the   *)
(* queue.                                                                   *)
AgentsMoveOn == AgentStatuses \cap {"created", "queued"} = {}

(* The handler of request r, with locals q, works on tasks in being; it     *)
(* resumes and runs only what has left the queue; and it has created none   *)
(* before it dispatches.                                                    *)
Hands(r, s, q) ==
  /\ q.pc \in {"idle", "recognizing", "switching", "cancelling"} => Fresh(r, s)
  /\ \A t \in q.todo \cup q.drop : s.status[t] # "none"
  /\ q.pc \in {"switching", "cancelling", "streaming"} => s.status[q.task] # "none"
  /\ AgentsMoveOn /\ q.pc \in {"switching", "streaming"}
       => s.status[q.task] \notin {"created", "queued"}

StepInv ==
  /\ Inv
  /\ Shape(session) /\ Honest(session)
  /\ \A r \in Requests : Hands(r, session, req[r])

(* The handler of r goes on to create tasks and to turn the queue.          *)
Works(r) ==
  \E q \in Request, s \in Session :
    /\ Ended(session, s)
    /\ AgentsConclude /\ req[r].pc = "streaming"
         => s.status[req[r].task] \notin ExecutingStatuses
    /\ Acts(r, q, s)

(* It awaits a recognizer or a cancelled agent, or is cut short.            *)
Waits(r) ==
  /\ Ended(session, session') /\ Only(r)
  /\ Shape(session') /\ Honest(session')
  /\ Hands(r, session', req'[r])
  /\ req[r].pc = "streaming" => r \in Abortable

(* It reads the stream of the task it has.                                  *)
Reads(r) ==
  /\ Only(r)
  /\ req[r].pc \in {"switching", "streaming"} /\ req'[r].pc = "streaming"
  /\ req'[r].task = req[r].task
  /\ req'[r].todo \subseteq req[r].todo /\ req'[r].drop \subseteq req[r].drop
  /\ \A t \in TaskIds \ {req[r].task} : session'.status[t] = session.status[t]
  /\ session'.status[req[r].task] # "none"
  /\ AgentsMoveOn => session'.status[req[r].task] \notin {"created", "queued"}
  /\ Shape(session') /\ Honest(session')

Steps(r) == Works(r) \/ Waits(r) \/ Reads(r)

(* A handler that works on the session as it is.                            *)
LEMMA ActsSteps ==
  ASSUME StepInv, NEW r \in Requests, req[r].pc # "streaming",
         NEW q \in Request, Acts(r, q, session)
  PROVE  Steps(r)
<1>1. session \in Session /\ Ended(session, session)
  BY DEF StepInv, Inv, TypeOK, Ended
<1> QED BY <1>1 DEF Steps, Works

(* A handler that awaits without having touched the session.                *)
LEMMA AwaitSteps ==
  ASSUME StepInv, NEW r \in Requests, NEW q, Await(r, q, session),
         Hands(r, session, q), req[r].pc = "streaming" => r \in Abortable
  PROVE  Steps(r)
<1>1. session' = session /\ req'[r] = q /\ Only(r) /\ Ended(session, session')
  BY DEF StepInv, Inv, TypeOK, Await, Only, Ended
<1> QED BY <1>1 DEF StepInv, Steps, Waits

(* handle_user_message.                                                     *)
LEMMA HandleUserMessageSteps ==
  ASSUME StepInv, NEW r \in Requests, NEW m \in Messages, HandleUserMessage(r, m)
  PROVE  Steps(r)
<1> DEFINE q == [req[r] EXCEPT !.message = m]
           asked(pc, t) == [q EXCEPT !.pc = pc, !.task = t, !.known = ListActive]
<1>1. /\ TypeOK /\ session \in Session /\ req[r] \in Request /\ req[r].pc = "idle"
      /\ Shape(session) /\ Honest(session) /\ Hands(r, session, req[r])
  BY DEF StepInv, Inv, TypeOK, HandleUserMessage, MaySend
<1>2. Fresh(r, session)
  BY <1>1 DEF Hands
<1>3. q \in Request /\ q.todo = req[r].todo /\ q.drop = req[r].drop
  BY <1>1 DEF Request
<1>4. ASSUME NEW t \in WaitingTask(session), Await(r, asked("switching", t), session)
      PROVE  Steps(r)
  <2> HIDE DEF q
  <2>1. /\ asked("switching", t).pc = "switching" /\ asked("switching", t).task = t
        /\ asked("switching", t).todo = q.todo /\ asked("switching", t).drop = q.drop
    BY <1>3 DEF Request
  <2>2. session.status[t] \in WaitingStatuses
    BY DEF WaitingTask, Waiting
  <2> HIDE DEF asked
  <2>3. Hands(r, session, asked("switching", t))
    BY <1>1, <1>2, <1>3, <2>1, <2>2 DEF Hands, WaitingStatuses
  <2> QED BY <1>1, <1>4, <2>3, AwaitSteps
<1>5. CASE Await(r, asked("recognizing", NoTask), session)
  <2> HIDE DEF q
  <2>1. /\ asked("recognizing", NoTask).pc = "recognizing"
        /\ asked("recognizing", NoTask).todo = q.todo
        /\ asked("recognizing", NoTask).drop = q.drop
    BY <1>3 DEF Request
  <2> HIDE DEF asked
  <2>2. Hands(r, session, asked("recognizing", NoTask))
    BY <1>1, <1>2, <1>3, <2>1 DEF Hands
  <2> QED BY <1>1, <1>5, <2>2, AwaitSteps
<1> HIDE DEF q
<1>6. CASE Return(r, q, session) \/ CatalogRaises(r, q, session)
  <2>1. Turns(r, q, session)
    BY <1>1, <1>6, HonestReady, ReturnTurns, CatalogRaisesTurns
  <2> QED BY <1>1, <1>3, <2>1, TurnActs, ActsSteps
<1>7. CASE PlanPending(session) /\ (ConfirmPendingPlan(r, q) \/ CancelPendingPlan(r, q))
  <2>1. \E q1 \in Request : Acts(r, q1, session)
    BY <1>1, <1>2, <1>3, <1>7, ConfirmActs, CancelPlanActs
  <2> QED BY <1>1, <2>1, ActsSteps
<1> QED BY <1>4, <1>5, <1>6, <1>7 DEF HandleUserMessage, q

(* handle_action.                                                           *)
LEMMA HandleActionSteps ==
  ASSUME StepInv, NEW r \in Requests, NEW a, NEW token \in 0..session.plans,
         HandleAction(r, a, token)
  PROVE  Steps(r)
<1> DEFINE q == [req[r] EXCEPT !.token = token]
<1>1. /\ TypeOK /\ session \in Session /\ req[r] \in Request /\ req[r].pc = "idle"
      /\ Shape(session) /\ Honest(session) /\ Hands(r, session, req[r])
  BY DEF StepInv, Inv, TypeOK, HandleAction, MaySend
<1>2. Fresh(r, session)
  BY <1>1 DEF Hands
<1>3. q \in Request
  BY <1>1 DEF Request, Session
<1> HIDE DEF q
<1>4. CASE PlanPending(session) /\ (ConfirmPendingPlan(r, q) \/ CancelPendingPlan(r, q))
  <2>1. \E q1 \in Request : Acts(r, q1, session)
    BY <1>1, <1>2, <1>3, <1>4, ConfirmActs, CancelPlanActs
  <2> QED BY <1>1, <2>1, ActsSteps
<1>5. CASE Await(r, Cleared(req[r], "rejected"), session)
  <2>1. Hands(r, session, Cleared(req[r], "rejected"))
    BY ClearedDoes DEF Hands
  <2> QED BY <1>1, <1>5, <2>1, AwaitSteps
<1> QED BY <1>4, <1>5 DEF HandleAction, q

(* The rest of a switch, from the session s that the answer left.           *)
LEMMA CancelTasksSteps ==
  ASSUME StepInv, NEW r \in Requests, req[r].pc \in {"switching", "cancelling"},
         NEW q \in Request, NEW s \in Session, NEW todo \in SUBSET TaskIds,
         Ended(session, s), Shape(s), Honest(s),
         \A t \in todo \cup q.drop : s.status[t] # "none", CancelTasks(r, q, s, todo)
  PROVE  Steps(r)
<1>1. TypeOK /\ Hands(r, session, req[r])
  BY DEF StepInv, Inv
<1>2. Fresh(r, s)
  BY <1>1 DEF Hands, Fresh, Ended, TaskIds
<1>3. CASE Cancels(r, q, s, todo)
  <2>1. Hands(r, s, req'[r])
    BY <1>2, <1>3 DEF Hands, Cancels
  <2> QED BY <1>3, <2>1 DEF Cancels, Steps, Waits
<1>4. ASSUME NEW s1 \in Session, Ended(s, s1), Acts(r, q, s1)
      PROVE  Steps(r)
  <2>1. Ended(session, s1)
    BY <1>4 DEF Ended
  <2> QED BY <1>4, <2>1 DEF Steps, Works
<1> QED BY <1>1, <1>2, <1>3, <1>4, CancelTasksActs

(* The recognizer's answer.                                                 *)
LEMMA RecognizedSteps ==
  ASSUME StepInv, NEW r \in Requests, Recognized(r)
  PROVE  Steps(r)
<1>1. /\ TypeOK /\ session \in Session /\ req[r] \in Request
      /\ Shape(session) /\ Honest(session) /\ Hands(r, session, req[r])
      /\ HasTask(req[r])
  BY DEF StepInv, Inv, TypeOK
<1>2. PICK rec \in Recognitions(req[r].known) :
        \/ /\ req[r].pc = "recognizing"
           /\ DispatchRecognition(r, [req[r] EXCEPT !.known = {}, !.message = "none"],
                                  session, rec)
        \/ req[r].pc = "switching" /\ SwitchOrResume(r, [req[r] EXCEPT !.known = {}], rec)
  BY DEF Recognized
<1>3. rec \in Recognition
  BY DEF Recognitions, Recognition
<1>4. CASE /\ req[r].pc = "recognizing"
           /\ DispatchRecognition(r, [req[r] EXCEPT !.known = {}, !.message = "none"],
                                  session, rec)
  <2> DEFINE q == [req[r] EXCEPT !.known = {}, !.message = "none"]
  <2>1. q \in Request
    BY <1>1 DEF Request
  <2>2. DispatchRecognition(r, q, session, rec) /\ Fresh(r, session)
    BY <1>1, <1>4 DEF Hands
  <2> HIDE DEF q
  <2> QED BY <1>1, <1>3, <1>4, <2>1, <2>2, DispatchActs, ActsSteps
<1>5. CASE req[r].pc = "switching" /\ SwitchOrResume(r, [req[r] EXCEPT !.known = {}], rec)
  <2> DEFINE q == [req[r] EXCEPT !.known = {}]
  <2>1. q \in Request /\ q.task = req[r].task /\ q.todo = req[r].todo
    BY <1>1 DEF Request
  <2>2. q.task \in TaskIds
    BY <1>1, <1>5, <2>1 DEF HasTask, Awaiting
  <2>3. SwitchOrResume(r, q, rec)
    BY <1>5
  <2> HIDE DEF q
  <2>4. CASE ResumeWaitingTask(r, q, session, q.task)
    <3>1. /\ \A u \in TaskIds :
               session'.status[u] = IF u = q.task THEN "running" ELSE session.status[u]
          /\ \E s1 \in Session : Runs(q, s1, q.task, session', req'[r])
          /\ Only(r)
      BY <1>1, <2>2, <2>4, ResumeRuns
    <3> QED BY <1>5, <2>1, <2>2, <3>1 DEF Runs, Steps, Reads
  <2>5. ASSUME NEW promoted \in Promoted(rec, q.task), NEW idle \in BOOLEAN,
               CancelTasks(r, [q EXCEPT !.rec = promoted, !.drop = Queued(session),
                                        !.idle = idle], session, Waiting(session))
        PROVE  Steps(r)
    <3> DEFINE q1 == [q EXCEPT !.rec = promoted, !.drop = Queued(session), !.idle = idle]
    <3>1. promoted \in Recognition
      BY <1>3, PromotedType
    <3>2. Queued(session) \in SUBSET TaskIds /\ Waiting(session) \in SUBSET TaskIds
      BY DEF Queued, Waiting
    <3>3. q1 \in Request /\ q1.drop = Queued(session)
      BY <2>1, <3>1, <3>2 DEF Request
    <3>4. CancelTasks(r, q1, session, Waiting(session))
      BY <2>5
    <3> HIDE DEF q1
    <3>5. \A t \in Waiting(session) \cup q1.drop : session.status[t] # "none"
      BY <3>3 DEF Waiting, Queued, WaitingStatuses
    <3>6. Ended(session, session)
      BY DEF Ended
    <3> QED BY <1>1, <1>5, <3>2, <3>3, <3>4, <3>5, <3>6, CancelTasksSteps
  <2> QED BY <2>3, <2>4, <2>5 DEF SwitchOrResume
<1> QED BY <1>2, <1>4, <1>5

(* The answer of a cancelled agent.                                         *)
LEMMA CancelAnsweredSteps ==
  ASSUME StepInv, NEW r \in Requests, CancelAnswered(r)
  PROVE  Steps(r)
<1>1. /\ session \in Session /\ req[r] \in Request /\ req[r].pc = "cancelling"
      /\ Shape(session) /\ Hands(r, session, req[r]) /\ HasTask(req[r])
  BY DEF StepInv, Inv, TypeOK, CancelAnswered
<1>2. req[r].task \in TaskIds /\ req[r].todo \in SUBSET TaskIds
  BY <1>1 DEF HasTask, Awaiting, Request
<1> DEFINE s == Report(session, req[r].task, "cancelled")
<1>3. "cancelled" \in TaskStatuses
  BY DEF TaskStatuses, TerminalStatuses
<1>4. /\ s \in Session /\ Shape(s) /\ Honest(s)
      /\ s.status = [session.status EXCEPT ![req[r].task] = "cancelled"]
  BY <1>1, <1>2, <1>3, ReportType, ReportDoes, ReportMends
<1>5. CancelTasks(r, req[r], s, req[r].todo)
  BY DEF CancelAnswered
<1> HIDE DEF s
<1>6. Ended(session, s)
  BY <1>1, <1>4 DEF Ended, Hands, Session
<1>7. \A t \in req[r].todo \cup req[r].drop : s.status[t] # "none"
  BY <1>1, <1>4 DEF Hands, Session, Request
<1> QED BY <1>1, <1>2, <1>4, <1>5, <1>6, <1>7, CancelTasksSteps

(* The last chunk of a stream, or its timeout.                              *)
LEMMA ConcludedSteps ==
  ASSUME StepInv, NEW r \in Requests, req[r].pc = "streaming",
         NEW status \in ConcludingStatuses,
         AfterRun(r, req[r], Report(session, req[r].task, status))
  PROVE  Steps(r)
<1>1. /\ TypeOK /\ session \in Session /\ req[r] \in Request
      /\ Shape(session) /\ Hands(r, session, req[r]) /\ HasTask(req[r])
  BY DEF StepInv, Inv, TypeOK
<1>2. req[r].task \in TaskIds
  BY <1>1 DEF HasTask, Awaiting
<1> DEFINE s == Report(session, req[r].task, status)
<1>3. status \in TaskStatuses /\ status \notin ExecutingStatuses
  BY DEF ConcludingStatuses, TaskStatuses, WaitingStatuses, TerminalStatuses,
         ExecutingStatuses
<1>4. /\ s \in Session /\ Shape(s) /\ Honest(s)
      /\ s.status = [session.status EXCEPT ![req[r].task] = status]
  BY <1>1, <1>2, <1>3, ReportType, ReportDoes, ReportMends
<1> HIDE DEF s
<1>5. Ended(session, s) /\ s.status[req[r].task] \notin ExecutingStatuses
  BY <1>1, <1>2, <1>3, <1>4 DEF Ended, Hands, Session
<1>6. Acts(r, req[r], s)
  BY <1>1, <1>4, HonestReady, AfterRunTurns, TurnActs DEF s
<1> QED BY <1>1, <1>4, <1>5, <1>6 DEF Steps, Works

(* The ways a stream goes on.                                               *)
LEMMA AgentSteps ==
  ASSUME StepInv, NEW r \in Requests,
         \/ \E status \in AgentStatuses : AgentChunk(r, status)
         \/ StreamEnds(r)
         \/ Timeout(r)
  PROVE  Steps(r)
<1>1. /\ TypeOK /\ session \in Session /\ req[r] \in Request
      /\ Shape(session) /\ Honest(session) /\ Hands(r, session, req[r])
      /\ HasTask(req[r]) /\ req[r].pc = "streaming"
  BY DEF StepInv, Inv, TypeOK, AgentChunk, StreamEnds, Timeout
<1>2. req[r].task \in TaskIds
  BY <1>1 DEF HasTask, Awaiting
<1>3. CASE Timeout(r)
  BY <1>1, <1>3, ConcludedSteps DEF Timeout, ConcludingStatuses
<1>4. CASE StreamEnds(r)
  <2>1. Acts(r, req[r], session) /\ ~AgentsConclude
    BY <1>1, <1>4, HonestReady, AfterRunTurns, TurnActs DEF StreamEnds
  <2>2. Ended(session, session)
    BY DEF Ended
  <2> QED BY <1>1, <2>1, <2>2 DEF Steps, Works
<1>5. ASSUME NEW status \in AgentStatuses, AgentChunk(r, status)
      PROVE  Steps(r)
  <2> DEFINE s == Report(session, req[r].task, status)
  <2>1. CASE status \in ConcludingStatuses
    BY <1>1, <1>5, <2>1, ConcludedSteps DEF AgentChunk
  <2>2. CASE status \notin ConcludingStatuses
    <3>1. status \in TaskStatuses /\ status # "none"
      BY AgentsAssumption
         DEF TaskStatuses, ExecutingStatuses, WaitingStatuses, TerminalStatuses
    <3>2. /\ Shape(s) /\ Honest(s)
          /\ s.status = [session.status EXCEPT ![req[r].task] = status]
      BY <1>1, <1>2, <3>1, ReportDoes, ReportMends
    <3>3. session' = s /\ req' = [req EXCEPT ![r] = req[r]]
      BY <1>5, <2>2 DEF AgentChunk, Await
    <3> HIDE DEF s
    <3>4. req'[r] = req[r] /\ Only(r)
      BY <1>1, <3>3 DEF TypeOK, Only
    <3>5. /\ \A t \in TaskIds \ {req[r].task} : s.status[t] = session.status[t]
          /\ s.status[req[r].task] = status
      BY <1>1, <1>2, <3>2 DEF Session
    <3>6. AgentsMoveOn => status \notin {"created", "queued"}
      BY DEF AgentsMoveOn
    <3> QED BY <1>1, <3>1, <3>2, <3>3, <3>4, <3>5, <3>6 DEF Steps, Reads
  <2> QED BY <2>1, <2>2
<1> QED BY <1>3, <1>4, <1>5

(* A dropped stream leaves the tasks as they are.                           *)
LEMMA DisconnectSteps ==
  ASSUME StepInv, NEW r \in Requests, Disconnect(r)
  PROVE  Steps(r)
<1>1. Await(r, Cleared(req[r], "aborted"), session) /\ r \in Abortable
  BY DEF Disconnect
<1>2. Hands(r, session, Cleared(req[r], "aborted"))
  BY ClearedDoes DEF Hands
<1> QED BY <1>1, <1>2, AwaitSteps

-----------------------------------------------------------------------------
(* What the three kinds of steps keep.                                      *)

(* From s to s1 only request r creates tasks, none vanishes, and what has   *)
(* left the queue does not return to it.                                    *)
Goes(r, s, s1) ==
  \A t \in TaskIds :
    /\ s.status[t] = "none" => s1.status[t] = "none" \/ t[1] = r
    /\ s.status[t] # "none" => s1.status[t] # "none"
    /\ AgentsMoveOn /\ s.status[t] \notin {"none", "created", "queued"}
         => s1.status[t] \notin {"created", "queued"}

(* The other handlers have what they work on after such a step.             *)
LEMMA GoesKeepsHands ==
  ASSUME NEW s, NEW s1, NEW r \in Requests, Goes(r, s, s1), NEW x \in Requests \ {r},
         NEW q \in Request, HasTask(q), Hands(x, s, q)
  PROVE  Hands(x, s1, q)
<1>1. q.todo \cup q.drop \subseteq TaskIds
  BY DEF Request
<1>2. q.pc \in {"switching", "cancelling", "streaming"} => q.task \in TaskIds
  BY DEF HasTask, Awaiting
<1>3. \A i \in AllIntents : <<x, i>> \in TaskIds /\ <<x, i>>[1] # r
  BY DEF TaskIds
<1> QED BY <1>1, <1>2, <1>3 DEF Goes, Hands, Fresh

(* What is settled, created or run is all that a working handler does.      *)
LEMMA WorkGoes ==
  ASSUME NEW r \in Requests, NEW s0 \in Session, NEW s, NEW s1, NEW s2,
         NEW new, NEW q, NEW q2,
         Ended(s0, s), Grown(r, s, s1, new), Turned(q, s1, s2, q2)
  PROVE  Goes(r, s0, s2) /\ Hands(r, s2, q2)
<1>1. ASSUME NEW t \in TaskIds
      PROVE  /\ s0.status[t] = "none" => s2.status[t] = "none" \/ t[1] = r
             /\ s0.status[t] # "none" => s2.status[t] # "none"
             /\ s0.status[t] \notin {"none", "created", "queued"}
                  => s2.status[t] \notin {"created", "queued"}
  <2>1. \/ s.status[t] = s0.status[t]
        \/ s0.status[t] # "none" /\ s.status[t] \notin {"none", "created", "queued"}
    BY DEF Ended, ConcludingStatuses, WaitingStatuses
  <2>2. \/ s1.status[t] = s.status[t]
        \/ t[1] = r /\ s.status[t] = "none" /\ s1.status[t] \in {"created", "queued"}
        \/ s.status[t] = "created" /\ s1.status[t] = "queued"
    BY DEF Grown
  <2>3. \/ s2.status[t] = s1.status[t]
        \/ s1.status[t] = "queued" /\ s2.status[t] = "running"
    BY DEF Turned
  <2> QED BY <2>1, <2>2, <2>3
<1>2. Hands(r, s2, q2)
  BY DEF Turned, Hands
<1> QED BY <1>1, <1>2 DEF Goes

(* Every step of a request keeps what its handler and the others need.      *)
LEMMA StepsKeep ==
  ASSUME StepInv, Inv', NEW r \in Requests, Steps(r)
  PROVE  StepInv'
<1>1. /\ session \in Session
      /\ \A x \in Requests : /\ req[x] \in Request /\ HasTask(req[x])
                             /\ Hands(x, session, req[x])
  BY DEF StepInv, Inv, TypeOK
<1>2. ASSUME Goes(r, session, session'), Only(r), Hands(r, session', req'[r]),
             Shape(session'), Honest(session')
      PROVE  StepInv'
  <2>1. \A x \in Requests : Hands(x, session', req'[x])
    BY <1>1, <1>2, GoesKeepsHands DEF Only
  <2> QED BY <1>2, <2>1 DEF StepInv, Hands, Fresh, Shape, Shown, Honest, PlanItems, PlanPending
<1>3. CASE Works(r)
  <2>1. PICK q \in Request, s \in Session, s1 \in Session, new \in SUBSET AllIntents :
          Ended(session, s) /\ Grown(r, s, s1, new) /\ Turns(r, q, s1)
    BY <1>3 DEF Works, Acts
  <2>2. Goes(r, session, session') /\ Hands(r, session', req'[r])
    BY <1>1, <2>1, WorkGoes DEF Turns
  <2> QED BY <1>2, <2>1, <2>2 DEF Turns, Turned
<1>4. CASE Waits(r)
  <2>1. Goes(r, session, session')
    BY <1>4 DEF Waits, Ended, Goes, ConcludingStatuses, WaitingStatuses
  <2> QED BY <1>2, <1>4, <2>1 DEF Waits
<1>5. CASE Reads(r)
  <2>1. Goes(r, session, session')
    BY <1>1, <1>5 DEF Reads, Goes, Hands
  <2>2. Hands(r, session', req'[r])
    <3>1. \A t \in req[r].todo \cup req[r].drop : session'.status[t] # "none"
      BY <1>1, <2>1 DEF Goes, Hands, Request
    <3> QED BY <1>5, <3>1 DEF Reads, Hands
  <2> QED BY <1>2, <1>5, <2>1, <2>2 DEF Reads
<1> QED BY <1>3, <1>4, <1>5 DEF Steps

(* A message's tasks are the only open ones of their intents.               *)
LEMMA WorkOpensNoDuplicate ==
  ASSUME NEW r, NEW s0, NEW s, NEW s1, NEW s2, NEW new, NEW q, NEW q2,
         Ended(s0, s), Grown(r, s, s1, new), Turned(q, s1, s2, q2),
         new \cap OpenIntents(s) = {},
         NEW t \in TaskIds, s0.status[t] = "none", s2.status[t] # "none",
         NEW u \in Open(s2), IntentOf(u) = IntentOf(t)
  PROVE  u = t
<1>1. s.status[t] = "none"
  BY DEF Ended
<1>2. t[1] = r /\ IntentOf(t) \in new
  BY <1>1 DEF Grown, Turned
<1>3. u \in TaskIds /\ s2.status[u] \in TaskStatuses \ TerminalStatuses
  BY DEF Open
<1>4. CASE u[1] = r /\ IntentOf(u) \in new
  BY <1>2, <1>3, <1>4 DEF TaskIds, IntentOf
<1>5. CASE ~(u[1] = r /\ IntentOf(u) \in new)
  <2>1. s1.status[u] \in TaskStatuses \ TerminalStatuses
    BY <1>3 DEF Turned, TaskStatuses, TerminalStatuses
  <2>2. s.status[u] \in TaskStatuses \ TerminalStatuses
    BY <1>3, <1>5, <2>1 DEF Grown, TaskStatuses, TerminalStatuses
  <2>3. IntentOf(u) \in OpenIntents(s)
    BY <1>3, <2>2 DEF OpenIntents, Open
  <2> QED BY <1>2, <2>3
<1> QED BY <1>4, <1>5

(* A working handler runs the head of the queue, or nothing new.            *)
LEMMA WorkKeepsDiscipline ==
  ASSUME NEW r, NEW s0, NEW s, NEW s1, NEW s2, NEW new, NEW q, NEW q2,
         Ended(s0, s), Grown(r, s, s1, new), Turned(q, s1, s2, q2),
         NEW t \in TaskIds, s2.status[t] \in ExecutingStatuses
  PROVE  \/ s0.status[t] = s2.status[t] /\ s.status[t] = s0.status[t]
         \/ Heads(s2, t) /\ q2.pc = "streaming" /\ q2.task = t
<1>1. CASE s2.status[t] = s1.status[t]
  <2>1. s1.status[t] = s.status[t]
    BY <1>1 DEF Grown, ExecutingStatuses
  <2>2. s.status[t] = s0.status[t]
    BY <1>1, <2>1 DEF Ended, ConcludingStatuses, WaitingStatuses, ExecutingStatuses
  <2> QED BY <1>1, <2>1, <2>2
<1>2. CASE q2.task = t /\ Heads(s2, t)
  BY <1>2, NoTaskAssumption DEF Turned
<1> QED BY <1>1, <1>2 DEF Turned

-----------------------------------------------------------------------------
(* The theorems.                                                            *)

(* Every step is one of a request, or leaves the session and the requests   *)
(* alone.                                                                   *)
LEMMA NextSteps ==
  ASSUME StepInv, [Next]_vars
  PROVE  (\E r \in Requests : Steps(r)) \/ UNCHANGED <<session, req>>
<1>1. ASSUME NEW r \in Requests, NEW m \in Messages, HandleUserMessage(r, m)
      PROVE  Steps(r)
  BY <1>1, HandleUserMessageSteps
<1>2. ASSUME NEW r \in Requests, NEW a \in Actions, NEW token \in 0..session.plans,
             HandleAction(r, a, token)
      PROVE  Steps(r)
  BY <1>2, HandleActionSteps
<1>3. ASSUME NEW r \in Requests, Recognized(r)
      PROVE  Steps(r)
  BY <1>3, RecognizedSteps
<1>4. ASSUME NEW r \in Requests, CancelAnswered(r)
      PROVE  Steps(r)
  BY <1>4, CancelAnsweredSteps
<1>5. ASSUME NEW r \in Requests, \/ \E status \in AgentStatuses : AgentChunk(r, status)
                                 \/ StreamEnds(r)
                                 \/ Timeout(r)
      PROVE  Steps(r)
  BY <1>5, AgentSteps
<1>6. ASSUME NEW r \in Requests, Disconnect(r)
      PROVE  Steps(r)
  BY <1>6, DisconnectSteps
<1>7. ASSUME NEW i \in AllIntents, CatalogRefresh(i)
      PROVE  UNCHANGED <<session, req>>
  BY <1>7 DEF CatalogRefresh
<1>8. CASE UNCHANGED vars
  BY <1>8 DEF vars
<1> QED BY <1>1, <1>2, <1>3, <1>4, <1>5, <1>6, <1>7, <1>8 DEF Next

(* The invariant holds of a new session.                                    *)
LEMMA InitStepInv == Init => StepInv
<1> SUFFICES ASSUME Init PROVE StepInv
  OBVIOUS
<1>1. Inv /\ session \in Session
  BY InitInv, EmptySessionType DEF Init
<1>2. session.plan = NoPlan /\ \A t \in TaskIds : session.status[t] = "none"
  BY DEF Init, EmptySession
<1>3. Shape(session) /\ Honest(session)
  BY <1>1, <1>2, NoPlanShape
<1>4. ASSUME NEW r \in Requests
      PROVE  req[r].pc = "idle" /\ req[r].todo = {} /\ req[r].drop = {}
  BY DEF Init, NewRequest
<1>5. \A r \in Requests, i \in AllIntents : <<r, i>> \in TaskIds
  BY DEF TaskIds
<1> QED BY <1>1, <1>2, <1>3, <1>4, <1>5 DEF StepInv, Hands, Fresh

(* Every step keeps the invariant.                                          *)
LEMMA NextStepInv == StepInv /\ [Next]_vars => StepInv'
<1> SUFFICES ASSUME StepInv, [Next]_vars PROVE StepInv'
  OBVIOUS
<1>1. Inv'
  BY NextInv DEF StepInv
<1>2. ASSUME UNCHANGED <<session, req>>
      PROVE  StepInv'
  BY <1>1, <1>2 DEF StepInv, Hands, Fresh, Shape, Shown, Honest, PlanItems, PlanPending
<1> QED BY <1>1, <1>2, NextSteps, StepsKeep

(* The invariant of the steps holds in every state of every behaviour: a    *)
(* handler works on tasks in being, and has created none before it          *)
(* dispatches, whatever other requests do meanwhile.                        *)
THEOREM StepInvariance == Spec => []StepInv
  BY InitStepInv, NextStepInv, PTL DEF Spec

(* However requests overlap, whatever agents report and whichever reads of  *)
(* the catalog fail, the card of a plan under way shows the statuses of its *)
(* tasks, one of which is open.                                             *)
THEOREM CardsAreHonest == Spec => []PlanCardHonest
<1>1. StepInv => PlanCardHonest
  BY DEF StepInv, Honest, Shown, PlanItems, PlanCardHonest
<1> QED BY <1>1, StepInvariance, PTL

(* A message opens no second task of an open intent, although the session   *)
(* changes while the message is being recognized.                           *)
THEOREM MessagesOpenNoDuplicate == Spec => MessageOpensNoDuplicate
<1> DEFINE A == \A t \in TaskIds :
                  (/\ session.status[t] = "none" /\ session'.status[t] # "none"
                   /\ req'[t[1]].verdict # "confirm")
                  => \A u \in Open(session') : IntentOf(u) = IntentOf(t) => u = t
<1>1. ASSUME StepInv, NEW r \in Requests, Steps(r)
      PROVE  A
  <2>1. CASE Works(r)
    <3>1. PICK q \in Request, s \in Session, s1 \in Session, new \in SUBSET AllIntents :
            /\ Ended(session, s) /\ Grown(r, s, s1, new) /\ Turns(r, q, s1)
            /\ q.verdict # "confirm" => new \cap OpenIntents(s) = {}
      BY <2>1 DEF Works, Acts
    <3>2. Turned(q, s1, session', req'[r])
      BY <3>1 DEF Turns
    <3> SUFFICES ASSUME NEW t \in TaskIds,
                        session.status[t] = "none", session'.status[t] # "none",
                        req'[t[1]].verdict # "confirm",
                        NEW u \in Open(session'), IntentOf(u) = IntentOf(t)
                 PROVE  u = t
      OBVIOUS
    <3>3. Goes(r, session, session')
      BY <1>1, <3>1, <3>2, WorkGoes DEF StepInv, Inv, TypeOK
    <3>4. t[1] = r
      BY <3>3 DEF Goes
    <3>5. q.verdict # "confirm"
      BY <3>2, <3>4 DEF Turned
    <3> QED BY <3>1, <3>2, <3>5, WorkOpensNoDuplicate
  <2>2. CASE Waits(r)
    BY <2>2 DEF Waits, Ended
  <2>3. CASE Reads(r)
    BY <1>1, <2>3 DEF Reads, StepInv, Hands
  <2> QED BY <1>1, <2>1, <2>2, <2>3 DEF Steps
<1>2. StepInv /\ [Next]_vars => [A]_vars
  BY <1>1, NextSteps
<1> QED BY <1>2, StepInvariance, PTL DEF MessageOpensNoDuplicate, Spec

(* With agents that report no task they were given as created or queued,    *)
(* only the head of the queue is dispatched, and no queued task overtakes   *)
(* one that waits for the user, however requests overlap.                   *)
THEOREM QueueIsDisciplined ==
  ASSUME AgentsMoveOn
  PROVE  Spec => QueueDiscipline
<1> DEFINE A == \A t \in TaskIds :
                  (/\ session.status[t] \in {"none", "created", "queued"}
                   /\ session'.status[t] \in ExecutingStatuses)
                  => /\ Waiting(session') = {}
                     /\ \A u \in Queued(session') :
                          ~SortsBefore(session', catalog, u, t)
<1>1. ASSUME StepInv, NEW r \in Requests, Steps(r)
      PROVE  A
  <2>1. CASE Works(r)
    <3>1. PICK q \in Request, s \in Session, s1 \in Session, new \in SUBSET AllIntents :
            /\ Ended(session, s) /\ Grown(r, s, s1, new)
            /\ Turned(q, s1, session', req'[r])
      BY <2>1 DEF Works, Acts, Turns
    <3>2. \A t \in TaskIds : session'.status[t] \in ExecutingStatuses =>
            session.status[t] = session'.status[t] \/ Heads(session', t)
      BY <3>1, WorkKeepsDiscipline
    <3>3. \A status \in ExecutingStatuses : status \notin {"none", "created", "queued"}
      BY DEF ExecutingStatuses
    <3> QED BY <3>2, <3>3 DEF Heads
  <2>2. CASE Waits(r)
    BY <2>2 DEF Waits, Ended, ConcludingStatuses, WaitingStatuses, ExecutingStatuses
  <2>3. CASE Reads(r)
    BY <1>1, <2>3 DEF Reads, StepInv, Hands, ExecutingStatuses
  <2> QED BY <1>1, <2>1, <2>2, <2>3 DEF Steps
<1>2. StepInv /\ [Next]_vars => [A]_vars
  BY <1>1, NextSteps DEF ExecutingStatuses
<1> QED BY <1>2, StepInvariance, PTL DEF QueueDiscipline, Spec

(* When agents conclude their streams and clients read them to the end, a   *)
(* task that executes has a request that reads its agent's stream, however  *)
(* requests overlap.                                                        *)
THEOREM ExecutingTasksAreDriven ==
  ASSUME AgentsConclude, Abortable = {}
  PROVE  Spec => []ExecutingIsDriven
<1>1. Init => ExecutingIsDriven
  BY DEF Init, ExecutingIsDriven, Executing, EmptySession, ExecutingStatuses
<1>2. ASSUME StepInv, ExecutingIsDriven, NEW r \in Requests, Steps(r)
      PROVE  ExecutingIsDriven'
  <2> SUFFICES ASSUME NEW t \in TaskIds, session'.status[t] \in ExecutingStatuses
               PROVE  \E x \in Requests : req'[x].pc = "streaming" /\ req'[x].task = t
    BY DEF ExecutingIsDriven, Executing
  <2>1. ASSUME session.status[t] = session'.status[t],
               Only(r), req[r].pc = "streaming" => req[r].task # t
        PROVE  \E x \in Requests : req'[x].pc = "streaming" /\ req'[x].task = t
    <3>1. PICK x \in Requests : req[x].pc = "streaming" /\ req[x].task = t
      BY <1>2, <2>1 DEF ExecutingIsDriven, Executing
    <3>2. x # r
      BY <2>1, <3>1
    <3> QED BY <2>1, <3>1, <3>2 DEF Only
  <2>2. CASE Works(r)
    <3>1. PICK q \in Request, s \in Session, s1 \in Session, new \in SUBSET AllIntents :
            /\ Ended(session, s) /\ Grown(r, s, s1, new) /\ Turns(r, q, s1)
            /\ req[r].pc = "streaming" => s.status[req[r].task] \notin ExecutingStatuses
      BY <2>2 DEF Works, Acts
    <3>2. Turned(q, s1, session', req'[r]) /\ Only(r)
      BY <3>1 DEF Turns
    <3>3. \/ s.status[t] = session.status[t] /\ session.status[t] = session'.status[t]
          \/ req'[r].pc = "streaming" /\ req'[r].task = t
      BY <3>1, <3>2, WorkKeepsDiscipline
    <3> QED BY <2>1, <3>1, <3>2, <3>3
  <2>3. CASE Waits(r)
    <3>1. session.status[t] = session'.status[t]
      BY <2>3 DEF Waits, Ended, ConcludingStatuses, WaitingStatuses, ExecutingStatuses
    <3> QED BY <2>1, <2>3, <3>1 DEF Waits
  <2>4. CASE Reads(r)
    BY <2>1, <2>4 DEF Reads
  <2> QED BY <1>2, <2>2, <2>3, <2>4 DEF Steps
<1>3. ASSUME UNCHANGED <<session, req>>, ExecutingIsDriven
      PROVE  ExecutingIsDriven'
  BY <1>3 DEF ExecutingIsDriven, Executing
<1>4. StepInv /\ ExecutingIsDriven /\ [Next]_vars => ExecutingIsDriven'
  BY <1>2, <1>3, NextSteps
<1> QED BY <1>1, <1>4, StepInvariance, PTL DEF Spec
=============================================================================
