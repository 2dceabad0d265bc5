------------------------- MODULE RouterSessionProofs -------------------------
(***************************************************************************)
(* Lemmas about the operations of module RouterSession: each maps sessions *)
(* to sessions, and none of them but the progress of a plan under way      *)
(* touches the plan.                                                       *)
(***************************************************************************)
EXTENDS RouterSession, TLAPS

-----------------------------------------------------------------------------
(* Types.                                                                   *)

(* The empty plan is a plan.                                                *)
LEMMA NoPlanType == NoPlan \in Plan
  BY DEF NoPlan, Plan, Confidence

(* A new session is a session.                                              *)
LEMMA EmptySessionType == EmptySession \in Session
  BY NoPlanType DEF EmptySession, Session, Confidence

(* Task.touch keeps a session a session, whatever the status.               *)
LEMMA TouchType ==
  ASSUME NEW s \in Session, NEW t \in TaskIds, NEW status \in TaskStatuses
  PROVE  Touch(s, t, status) \in Session
<1> DEFINE st  == [s.status EXCEPT ![t] = status]
           at  == [s.at EXCEPT ![t] = IF status \in WaitingStatuses THEN s.now ELSE 0]
           now == IF status \in WaitingStatuses THEN s.now + 1 ELSE s.now
<1>1. st \in [TaskIds -> TaskStatuses \cup {"none"}]
  BY DEF Session
<1>2. at \in [TaskIds -> Nat] /\ now \in Nat
  BY DEF Session
<1>3. Touch(s, t, status) = [s EXCEPT !.status = st, !.at = at, !.now = now]
  BY DEF Touch
<1> HIDE DEF st, at, now
<1> QED BY <1>1, <1>2, <1>3 DEF Session

(* So does _create_task, for any set of intents.                            *)
LEMMA CreateTasksType ==
  ASSUME NEW s \in Session, NEW r \in Requests, NEW new,
         NEW conf \in [AllIntents -> Confidence]
  PROVE  CreateTasks(s, r, new, conf) \in Session
<1> DEFINE created(t) == t[1] = r /\ IntentOf(t) \in new
           status == [t \in TaskIds |-> IF created(t) THEN "created" ELSE s.status[t]]
           cf     == [t \in TaskIds |-> IF created(t) THEN conf[IntentOf(t)] ELSE s.conf[t]]
           born   == [t \in TaskIds |-> IF created(t) THEN s.now ELSE s.born[t]]
           now    == s.now + 1
<1>1. status \in [TaskIds -> TaskStatuses \cup {"none"}]
  BY DEF Session, TaskStatuses
<1>2. cf \in [TaskIds -> Confidence]
  <2>1. \A t \in TaskIds : IntentOf(t) \in AllIntents
    BY DEF TaskIds, IntentOf
  <2> QED BY <2>1 DEF Session
<1>3. born \in [TaskIds -> Nat] /\ now \in Nat
  BY DEF Session
<1>4. CreateTasks(s, r, new, conf)
        = [s EXCEPT !.status = status, !.conf = cf, !.born = born, !.now = now]
  BY DEF CreateTasks
<1> HIDE DEF status, cf, born, now
<1> QED BY <1>1, <1>2, <1>3, <1>4 DEF Session

(* Every status of a task is the status of an item; "none" stays "none".    *)
LEMMA ItemStatusType ==
  ASSUME NEW status \in TaskStatuses \cup {"none"}
  PROVE  ItemStatusForTask(status) \in ItemStatuses \cup {"none"}
  BY DEF ItemStatusForTask, ItemStatuses, TaskStatuses, ExecutingStatuses,
         WaitingStatuses, TerminalStatuses

(* The refreshed items of a plan are items.                                 *)
LEMMA RefreshedItemsType ==
  ASSUME NEW s \in Session
  PROVE  RefreshedItems(s) \in [AllIntents -> ItemStatuses \cup {"none"}]
<1>1. ASSUME NEW i \in AllIntents, s.plan.task[i] # NoTask
      PROVE  ItemStatusForTask(s.status[s.plan.task[i]]) \in ItemStatuses \cup {"none"}
  <2>1. s.plan.task[i] \in TaskIds
    BY <1>1 DEF Session, Plan
  <2>2. s.status[s.plan.task[i]] \in TaskStatuses \cup {"none"}
    BY <2>1 DEF Session
  <2> QED BY <2>2, ItemStatusType
<1>2. ASSUME NEW i \in AllIntents
      PROVE  s.plan.item[i] \in ItemStatuses \cup {"none"}
  BY DEF Session, Plan
<1> QED BY <1>1, <1>2 DEF RefreshedItems

(* _emit_plan_progress_if_needed keeps a session a session.                 *)
LEMMA EmitPlanProgressType ==
  ASSUME NEW s \in Session
  PROVE  EmitPlanProgress(s) \in Session
<1> DEFINE items  == RefreshedItems(s)
           status == IF \E i \in AllIntents : items[i] = "completed"
                       THEN "partially_completed" ELSE "running"
           plan   == IF AllSettled(items)
                       THEN NoPlan
                       ELSE [s.plan EXCEPT !.item = items, !.status = status]
<1>1. status \in PlanStatuses
  BY DEF PlanStatuses
<1>2. items \in [AllIntents -> ItemStatuses \cup {"none"}]
  BY RefreshedItemsType
<1>3. plan \in Plan
  <2> HIDE DEF items, status
  <2>1. [s.plan EXCEPT !.item = items, !.status = status] \in Plan
    BY <1>1, <1>2 DEF Session, Plan
  <2> QED BY <2>1, NoPlanType
<1>4. EmitPlanProgress(s) = IF s.plan.status \notin ExecutingPlan
                              THEN s ELSE [s EXCEPT !.plan = plan]
  BY DEF EmitPlanProgress
<1> HIDE DEF plan
<1> QED BY <1>3, <1>4 DEF Session

(* A touch that is published keeps a session a session.                     *)
LEMMA ReportType ==
  ASSUME NEW s \in Session, NEW t \in TaskIds, NEW status \in TaskStatuses
  PROVE  Report(s, t, status) \in Session
  BY TouchType, EmitPlanProgressType DEF Report

(* queue_pending_tasks keeps a session a session.                           *)
LEMMA QueuePendingTasksType ==
  ASSUME NEW s \in Session
  PROVE  QueuePendingTasks(s) \in Session
<1> DEFINE st == [t \in TaskIds |-> IF s.status[t] = "created" THEN "queued"
                                                              ELSE s.status[t]]
<1>1. st \in [TaskIds -> TaskStatuses \cup {"none"}]
  BY DEF Session, TaskStatuses
<1>2. QueuePendingTasks(s) = [s EXCEPT !.status = st]
  BY DEF QueuePendingTasks
<1> HIDE DEF st
<1> QED BY <1>1, <1>2 DEF Session

(* So does the change of the active task.                                   *)
LEMMA ActiveType ==
  ASSUME NEW s \in Session, NEW t \in TaskIds \cup {NoTask}
  PROVE  [s EXCEPT !.active = t] \in Session
  BY DEF Session

-----------------------------------------------------------------------------
(* The plan.                                                                *)

(* From s to s1 the plan is left alone, or it was under way and either went *)
(* on or left the session.                                                  *)
KeepsPlan(s, s1) ==
  /\ s1.plans = s.plans
  /\ \/ s1.plan = s.plan
     \/ /\ s.plan.status \in ExecutingPlan
        /\ \/ s1.plan = NoPlan
           \/ s1.plan.id = s.plan.id /\ s1.plan.status \in ExecutingPlan

(* Steps that keep the plan compose.                                        *)
LEMMA KeepsPlanTransitive ==
  ASSUME NEW s, NEW s1, NEW s2, KeepsPlan(s, s1), KeepsPlan(s1, s2)
  PROVE  KeepsPlan(s, s2)
<1>1. NoPlan.status \notin ExecutingPlan
  BY DEF NoPlan, ExecutingPlan
<1> QED BY <1>1 DEF KeepsPlan

(* Task.touch leaves the plan alone.                                        *)
LEMMA TouchKeepsPlan ==
  ASSUME NEW s \in Session, NEW t, NEW status
  PROVE  KeepsPlan(s, Touch(s, t, status))
  BY DEF KeepsPlan, Touch, Session

(* So do the creation of tasks, their queueing and the active task.         *)
LEMMA TasksKeepPlan ==
  ASSUME NEW s \in Session, NEW r, NEW new, NEW conf, NEW t
  PROVE  /\ KeepsPlan(s, CreateTasks(s, r, new, conf))
         /\ KeepsPlan(s, QueuePendingTasks(s))
         /\ KeepsPlan(s, [s EXCEPT !.active = t])
  BY DEF KeepsPlan, CreateTasks, QueuePendingTasks, Session

(* The progress of a plan keeps a pending plan, and the number of one.      *)
LEMMA EmitKeepsPlan ==
  ASSUME NEW s \in Session
  PROVE  KeepsPlan(s, EmitPlanProgress(s))
<1> DEFINE items  == RefreshedItems(s)
           status == IF \E i \in AllIntents : items[i] = "completed"
                       THEN "partially_completed" ELSE "running"
           on     == [s.plan EXCEPT !.item = items, !.status = status]
           plan   == IF AllSettled(items) THEN NoPlan ELSE on
<1>1. status \in ExecutingPlan
  BY DEF ExecutingPlan
<1>2. on.id = s.plan.id /\ on.status = status
  <2> HIDE DEF items, status
  <2> QED BY DEF Session, Plan
<1>3. EmitPlanProgress(s) = IF s.plan.status \notin ExecutingPlan
                              THEN s ELSE [s EXCEPT !.plan = plan]
  BY DEF EmitPlanProgress
<1>4. plan = NoPlan \/ (plan.id = s.plan.id /\ plan.status \in ExecutingPlan)
  BY <1>1, <1>2
<1> HIDE DEF plan
<1>5. /\ [s EXCEPT !.plan = plan].plans = s.plans
      /\ [s EXCEPT !.plan = plan].plan = plan
  BY DEF Session
<1> QED BY <1>3, <1>4, <1>5 DEF KeepsPlan

(* So does a touch that is published.                                       *)
LEMMA ReportKeepsPlan ==
  ASSUME NEW s \in Session, NEW t \in TaskIds, NEW status \in TaskStatuses
  PROVE  KeepsPlan(s, Report(s, t, status))
  BY TouchType, TouchKeepsPlan, EmitKeepsPlan, KeepsPlanTransitive DEF Report
=============================================================================
