-------------------------- MODULE OrchestratorProofs --------------------------
(***************************************************************************)
(* Theorems about module Orchestrator: its type invariant, and that a plan *)
(* is decided once, for any intents, requests, agents and clients.         *)
(*                                                                         *)
(* Both rest on one fact per operator of the handlers (predicate Leads     *)
(* below): whichever way a handler goes from a session s, it ends or       *)
(* awaits with a session that is typed and whose plan is that of s, or the *)
(* progress of it.                                                         *)
(***************************************************************************)
EXTENDS Orchestrator, RouterSessionProofs

(* A request that works on a task has one.                                  *)
HasTask(q) == q.pc \in Awaiting \ {"recognizing"} => q.task \in TaskIds

(* The step of request r, with locals q, from the session s on.             *)
Leads(r, q, s) ==
  \E s1 \in Session, q1 \in Request :
    /\ KeepsPlan(s, s1)
    /\ q1.plan = q.plan /\ q1.token = q.token /\ q1.pc # "idle" /\ HasTask(q1)
    /\ session' = s1
    /\ req' = [req EXCEPT ![r] = q1]

(* A step taken after the plan was kept is a step from before.              *)
LEMMA LeadsFrom ==
  ASSUME NEW r, NEW q, NEW s, NEW s1, KeepsPlan(s, s1), Leads(r, q, s1)
  PROVE  Leads(r, q, s)
  BY KeepsPlanTransitive DEF Leads

(* The locals of a request before it is sent.                               *)
LEMMA NewRequestType == NewRequest \in Request
  BY DEF NewRequest, Request, NoRecognition, Recognition, Confidence

(* Cleared keeps what tells which plan the request decided.                 *)
LEMMA ClearedType ==
  ASSUME NEW q \in Request, NEW pc \in Awaiting \cup {"done", "rejected", "aborted", "raised"}
  PROVE  /\ Cleared(q, pc) \in Request
         /\ Cleared(q, pc).plan = q.plan
         /\ Cleared(q, pc).token = q.token
         /\ Cleared(q, pc).pc = pc
  BY NewRequestType DEF Cleared, Request, NewRequest

(* A handler that returns leaves a typed session, its plan kept.            *)
LEMMA ReturnLeads ==
  ASSUME NEW r \in Requests, NEW q \in Request, NEW s \in Session, Return(r, q, s)
  PROVE  Leads(r, q, s)
<1>1. /\ Cleared(q, "done") \in Request /\ HasTask(Cleared(q, "done"))
      /\ Cleared(q, "done").pc # "idle"
  BY ClearedType DEF HasTask, Awaiting
<1>2. session' \in Session /\ KeepsPlan(s, session')
  BY EmitPlanProgressType, EmitKeepsPlan DEF Return, KeepsPlan
<1> QED BY <1>1, <1>2, ClearedType DEF Return, Leads

(* So does one that awaits.                                                 *)
LEMMA AwaitLeads ==
  ASSUME NEW r \in Requests, NEW q \in Request, NEW q1 \in Request, NEW s \in Session,
         q1.plan = q.plan, q1.token = q.token, q1.pc # "idle",
         HasTask(q1), Await(r, q1, s)
  PROVE  Leads(r, q, s)
  BY DEF Await, Leads, KeepsPlan

(* So does one that a failed read of the catalog ends.                      *)
LEMMA CatalogRaisesLeads ==
  ASSUME NEW r \in Requests, NEW q \in Request, NEW s \in Session, CatalogRaises(r, q, s)
  PROVE  Leads(r, q, s)
<1> DEFINE q1 == Cleared(q, "raised")
<1>1. /\ q1 \in Request /\ q1.plan = q.plan /\ q1.token = q.token
      /\ q1.pc # "idle" /\ HasTask(q1)
  BY ClearedType DEF HasTask, Awaiting
<1>2. Await(r, q1, s)
  BY DEF CatalogRaises
<1> HIDE DEF q1
<1> QED BY <1>1, <1>2, AwaitLeads

(* _run_task up to its first await keeps the plan.                          *)
LEMMA RunTaskLeads ==
  ASSUME NEW r \in Requests, NEW q \in Request, NEW s \in Session,
         NEW t \in TaskIds, NEW resumed \in BOOLEAN,
         RunTask(r, q, s, t, resumed)
  PROVE  Leads(r, q, s)
<1> DEFINE q1 == [Cleared(q, "streaming") EXCEPT !.task = t, !.resumed = resumed]
           s1 == Touch(s, t, "dispatching")
           s2 == Report(s1, t, "running")
<1>1. /\ q1 \in Request /\ q1.plan = q.plan /\ q1.token = q.token
      /\ q1.pc # "idle" /\ HasTask(q1)
  <2>1. Cleared(q, "streaming") \in Request /\ Cleared(q, "streaming").pc = "streaming"
        /\ Cleared(q, "streaming").plan = q.plan
        /\ Cleared(q, "streaming").token = q.token
    BY ClearedType DEF Awaiting
  <2> QED BY <2>1 DEF Request, HasTask
<1>2. "dispatching" \in TaskStatuses /\ "running" \in TaskStatuses
  BY DEF TaskStatuses, ExecutingStatuses
<1>3. s1 \in Session /\ KeepsPlan(s, s1)
  BY <1>2, TouchType, TouchKeepsPlan
<1>4. s2 \in Session /\ KeepsPlan(s1, s2)
  BY <1>2, <1>3, ReportType, ReportKeepsPlan
<1>5. Await(r, q1, s2)
  BY DEF RunTask
<1> HIDE DEF q1, s1, s2
<1>6. Leads(r, q, s2)
  BY <1>1, <1>4, <1>5, AwaitLeads
<1> QED BY <1>3, <1>4, <1>6, KeepsPlanTransitive, LeadsFrom

(* A turn of _drain_queue keeps the plan.                                   *)
LEMMA DrainQueueLeads ==
  ASSUME NEW r \in Requests, NEW q \in Request, NEW s \in Session,
         DrainQueue(r, q, s)
  PROVE  Leads(r, q, s)
<1>1. ASSUME NEW t \in TaskIds \cup {NoTask}, Return(r, q, [s EXCEPT !.active = t])
      PROVE  Leads(r, q, s)
  BY <1>1, ActiveType, TasksKeepPlan, ReturnLeads, LeadsFrom
<1>2. ASSUME NEW t \in TaskIds, RunTask(r, q, [s EXCEPT !.active = t], t, FALSE)
      PROVE  Leads(r, q, s)
  BY <1>2, ActiveType, TasksKeepPlan, RunTaskLeads, LeadsFrom
<1>3. WaitingTask(s) \subseteq TaskIds /\ NextRunnable(s, catalog) \subseteq TaskIds
  BY DEF WaitingTask, Waiting, NextRunnable, Queued
<1> QED BY <1>1, <1>2, <1>3, CatalogRaisesLeads DEF DrainQueue

(* So does what follows _run_task.                                          *)
LEMMA AfterRunLeads ==
  ASSUME NEW r \in Requests, NEW q \in Request, NEW s \in Session,
         AfterRun(r, q, s)
  PROVE  Leads(r, q, s)
  BY DrainQueueLeads, ReturnLeads DEF AfterRun

(* _resume_waiting_task keeps the plan.                                     *)
LEMMA ResumeLeads ==
  ASSUME NEW r \in Requests, NEW q \in Request, NEW s \in Session, NEW t \in TaskIds,
         ResumeWaitingTask(r, q, s, t)
  PROVE  Leads(r, q, s)
<1> DEFINE s1 == Touch(s, t, "resuming")
<1>1. s1 \in Session /\ KeepsPlan(s, s1)
  BY TouchType, TouchKeepsPlan DEF TaskStatuses, ExecutingStatuses
<1>2. RunTask(r, q, [s1 EXCEPT !.active = t], t, TRUE)
  BY DEF ResumeWaitingTask
<1> HIDE DEF s1
<1>3. Leads(r, q, s1)
  BY <1>1, <1>2, ActiveType, TasksKeepPlan, RunTaskLeads, LeadsFrom
<1> QED BY <1>1, <1>3, LeadsFrom

(* _propose_plan gives the session a pending plan with a new number.        *)
LEMMA ProposePlanType ==
  ASSUME NEW s \in Session, NEW planned, NEW conf \in [AllIntents -> Confidence]
  PROVE  /\ ProposePlan(s, planned, conf) \in Session
         /\ ProposePlan(s, planned, conf).plans = s.plans + 1
         /\ ProposePlan(s, planned, conf).plan.id = s.plans + 1
         /\ ProposePlan(s, planned, conf).plan.status = "waiting_confirmation"
<1> DEFINE item == [i \in AllIntents |-> IF i \in planned THEN "pending" ELSE "none"]
           cf   == [i \in AllIntents |-> IF i \in planned THEN conf[i] ELSE 0]
           id   == s.plans + 1
           plan == [NoPlan EXCEPT !.id = id, !.status = "waiting_confirmation",
                                  !.item = item, !.conf = cf]
<1>1. item \in [AllIntents -> ItemStatuses \cup {"none"}]
  BY DEF ItemStatuses
<1>2. cf \in [AllIntents -> Confidence]
  BY DEF Confidence
<1>3. id \in Nat
  BY DEF Session
<1>4. ProposePlan(s, planned, conf)
        = [s EXCEPT !.plans = id, !.active = NoTask, !.plan = plan]
  BY DEF ProposePlan
<1> HIDE DEF item, cf, id
<1>5. plan \in Plan /\ plan.id = id /\ plan.status = "waiting_confirmation"
  BY <1>1, <1>2, <1>3, NoPlanType DEF Plan, PlanStatuses
<1> HIDE DEF plan
<1>6. [s EXCEPT !.plans = id, !.active = NoTask, !.plan = plan] \in Session
  BY <1>3, <1>5 DEF Session
<1>7. /\ [s EXCEPT !.plans = id, !.active = NoTask, !.plan = plan].plans = id
      /\ [s EXCEPT !.plans = id, !.active = NoTask, !.plan = plan].plan = plan
  BY DEF Session
<1> QED BY <1>4, <1>5, <1>6, <1>7 DEF id

(* A confirmed plan is under way, and keeps its number.                     *)
LEMMA ConfirmItemsType ==
  ASSUME NEW s \in Session, NEW r \in Requests
  PROVE  /\ ConfirmItems(s, r) \in Session
         /\ ConfirmItems(s, r).plans = s.plans
         /\ ConfirmItems(s, r).plan.id = s.plan.id
         /\ ConfirmItems(s, r).plan.status = "running"
<1> DEFINE items == {i \in AllIntents : s.plan.item[i] # "none"}
           run   == items \cap ListActive
           s1    == CreateTasks(s, r, run, s.plan.conf)
           item  == [i \in AllIntents |-> IF i \in items \ run
                                            THEN "skipped" ELSE s1.plan.item[i]]
           task  == [i \in AllIntents |-> IF i \in run THEN <<r, i>> ELSE s1.plan.task[i]]
           plan  == [s1.plan EXCEPT !.status = "running", !.item = item, !.task = task]
<1>1. s1 \in Session
  BY CreateTasksType DEF Session, Plan
<1>2. s1.plans = s.plans /\ s1.plan = s.plan
  BY DEF CreateTasks, Session
<1>3. ConfirmItems(s, r) = [s1 EXCEPT !.plan = plan]
  <2>1. ConfirmItems(s, r) = [s1 EXCEPT !.plan.status = "running", !.plan.item = item,
                                        !.plan.task = task]
    BY <1>1, <1>2 DEF ConfirmItems
  <2> HIDE DEF s1, item, task
  <2> QED BY <1>1, <2>1 DEF Session, Plan
<1> HIDE DEF s1
<1>4. item \in [AllIntents -> ItemStatuses \cup {"none"}]
  BY <1>1 DEF ItemStatuses, Session, Plan
<1>5. task \in [AllIntents -> TaskIds \cup {NoTask}]
  BY <1>1 DEF TaskIds, Session, Plan
<1> HIDE DEF item, task
<1>6. plan \in Plan /\ plan.id = s1.plan.id /\ plan.status = "running"
  BY <1>1, <1>4, <1>5 DEF Session, Plan, PlanStatuses
<1> HIDE DEF plan
<1>7. /\ [s1 EXCEPT !.plan = plan] \in Session
      /\ [s1 EXCEPT !.plan = plan].plans = s1.plans
      /\ [s1 EXCEPT !.plan = plan].plan = plan
  BY <1>1, <1>6 DEF Session
<1> QED BY <1>2, <1>3, <1>6, <1>7

(* Cancelling queued tasks keeps the plan.                                  *)
LEMMA CancelAllType ==
  ASSUME NEW s \in Session, NEW tasks
  PROVE  CancelAll(s, tasks) \in Session /\ KeepsPlan(s, CancelAll(s, tasks))
<1> DEFINE gone(t) == t \in tasks /\ s.status[t] \notin TerminalStatuses
           st == [t \in TaskIds |-> IF gone(t) THEN "cancelled" ELSE s.status[t]]
           at == [t \in TaskIds |-> IF gone(t) THEN 0 ELSE s.at[t]]
           s1 == [s EXCEPT !.status = st, !.at = at]
<1>1. st \in [TaskIds -> TaskStatuses \cup {"none"}]
  BY DEF Session, TaskStatuses, TerminalStatuses
<1>2. at \in [TaskIds -> Nat]
  BY DEF Session
<1>3. CancelAll(s, tasks) = IF \E t \in tasks : gone(t) THEN EmitPlanProgress(s1) ELSE s
  BY DEF CancelAll
<1> HIDE DEF st, at, gone
<1>4. s1 \in Session /\ KeepsPlan(s, s1)
  BY <1>1, <1>2 DEF Session, KeepsPlan
<1>5. KeepsPlan(s, s)
  BY DEF KeepsPlan
<1> HIDE DEF s1
<1> QED BY <1>3, <1>4, <1>5, EmitPlanProgressType, EmitKeepsPlan, KeepsPlanTransitive

(* As Leads, or a plan is proposed on the way.                              *)
Moves(r, q, s) ==
  \/ Leads(r, q, s)
  \/ \E s1 \in Session, planned \in SUBSET AllIntents, conf \in [AllIntents -> Confidence] :
       KeepsPlan(s, s1) /\ Leads(r, q, ProposePlan(s1, planned, conf))

(* As LeadsFrom.                                                            *)
LEMMA MovesFrom ==
  ASSUME NEW r, NEW q, NEW s, NEW s1, KeepsPlan(s, s1), Moves(r, q, s1)
  PROVE  Moves(r, q, s)
  BY KeepsPlanTransitive, LeadsFrom DEF Moves

(* _dispatch_recognition keeps the plan or proposes one.                    *)
LEMMA DispatchMoves ==
  ASSUME NEW r \in Requests, NEW q \in Request, NEW s \in Session, NEW rec \in Recognition,
         DispatchRecognition(r, q, s, rec)
  PROVE  Moves(r, q, s)
<1> DEFINE planned == Planned(s, rec.primary)
           new     == planned \cup (IF FallbackDue(s, rec.primary)
                                      THEN {Fallback} ELSE {})
           s1      == CreateTasks(s, r, new, rec.conf)
           s2      == QueuePendingTasks(s1)
<1>1. rec.conf \in [AllIntents -> Confidence] /\ rec.primary \in SUBSET AllIntents
  BY DEF Recognition
<1>2. CASE Return(r, q, ProposePlan(s, planned, rec.conf))
  <2>2. planned \in SUBSET AllIntents
    BY <1>1 DEF Planned
  <2>3. Leads(r, q, ProposePlan(s, planned, rec.conf))
    BY <1>1, <1>2, ProposePlanType, ReturnLeads
  <2>4. KeepsPlan(s, s)
    BY DEF KeepsPlan
  <2> HIDE DEF planned
  <2> QED BY <1>1, <2>2, <2>3, <2>4 DEF Moves
<1>3. CASE CatalogRaises(r, q, s1) \/ DrainQueue(r, q, s2)
  <2> HIDE DEF new
  <2>2. s1 \in Session /\ KeepsPlan(s, s1)
    BY <1>1, CreateTasksType, TasksKeepPlan
  <2>1. CASE CatalogRaises(r, q, s1)
    BY <2>1, <2>2, CatalogRaisesLeads, LeadsFrom DEF Moves
  <2> HIDE DEF s1
  <2>3. s2 \in Session /\ KeepsPlan(s1, s2)
    BY <2>2, QueuePendingTasksType, TasksKeepPlan
  <2>4. CASE DrainQueue(r, q, s2)
    <3> HIDE DEF s2
    <3> QED BY <2>2, <2>3, <2>4, DrainQueueLeads, LeadsFrom DEF Moves
  <2> QED BY <1>3, <2>1, <2>4
<1>4. CASE CatalogRaises(r, q, s)
  BY <1>4, CatalogRaisesLeads DEF Moves
<1> QED BY <1>2, <1>3, <1>4 DEF DispatchRecognition

(* So does the rest of a switch, once a waiting task is cancelled.          *)
LEMMA CancelTasksMoves ==
  ASSUME NEW r \in Requests, NEW q \in Request, NEW s \in Session, NEW todo \in SUBSET TaskIds,
         CancelTasks(r, q, s, todo)
  PROVE  Moves(r, q, s)
<1>1. ASSUME NEW t \in NextToCancel(s, todo),
             Await(r, [q EXCEPT !.pc = "cancelling", !.task = t,
                                !.todo = {u \in todo \ {t} : s.born[u] >= s.born[t]}], s)
      PROVE  Leads(r, q, s)
  <2> DEFINE left == {u \in todo \ {t} : s.born[u] >= s.born[t]}
             q1   == [q EXCEPT !.pc = "cancelling", !.task = t, !.todo = left]
  <2>1. t \in TaskIds /\ left \in SUBSET TaskIds
    BY DEF NextToCancel
  <2> HIDE DEF left
  <2>2. /\ q1 \in Request /\ q1.plan = q.plan /\ q1.token = q.token
        /\ q1.pc # "idle" /\ HasTask(q1)
    BY <2>1 DEF Request, Awaiting, HasTask
  <2>3. Await(r, q1, s)
    BY <1>1 DEF left
  <2> HIDE DEF q1
  <2> QED BY <2>2, <2>3, AwaitLeads
<1>2. ASSUME NEW s1 \in Session, s1 = [CancelAll(s, q.drop) EXCEPT !.active = NoTask],
             IF q.idle THEN Return(r, q, s1) ELSE DispatchRecognition(r, q, s1, q.rec)
      PROVE  Moves(r, q, s)
  <2>1. KeepsPlan(s, s1)
    BY <1>2, CancelAllType, TasksKeepPlan, KeepsPlanTransitive
  <2>2. q.rec \in Recognition
    BY DEF Request
  <2>3. Moves(r, q, s1)
    BY <1>2, <2>2, ReturnLeads, DispatchMoves DEF Moves
  <2> QED BY <2>1, <2>3, MovesFrom
<1>3. [CancelAll(s, q.drop) EXCEPT !.active = NoTask] \in Session
  BY CancelAllType, ActiveType
<1> QED BY <1>1, <1>2, <1>3 DEF CancelTasks, Moves

(* A promoted match leaves a recognition a recognition.                     *)
LEMMA PromotedType ==
  ASSUME NEW rec \in Recognition, NEW t, NEW promoted \in Promoted(rec, t)
  PROVE  promoted \in Recognition
<1>1. BestSwitch(rec, t) \subseteq AllIntents
  BY DEF BestSwitch, SwitchMatches, Recognition
<1>2. ASSUME NEW i \in AllIntents
      PROVE  [rec EXCEPT !.primary = @ \cup {i}, !.candidates = @ \ {i}] \in Recognition
  BY DEF Recognition
<1> QED BY <1>1, <1>2 DEF Promoted

(* A message to a waiting task keeps the plan or proposes one.              *)
LEMMA SwitchOrResumeMoves ==
  ASSUME TypeOK, NEW r \in Requests, NEW q \in Request, NEW rec \in Recognition,
         q.task \in TaskIds, SwitchOrResume(r, q, rec)
  PROVE  Moves(r, q, session)
<1>1. session \in Session
  BY DEF TypeOK
<1>2. CASE ResumeWaitingTask(r, q, session, q.task)
  BY <1>1, <1>2, ResumeLeads DEF Moves
<1>3. ASSUME NEW promoted \in Promoted(rec, q.task), NEW idle \in BOOLEAN,
             CancelTasks(r, [q EXCEPT !.rec = promoted, !.drop = Queued(session), !.idle = idle],
                         session, Waiting(session))
      PROVE  Moves(r, q, session)
  <2> DEFINE q1 == [q EXCEPT !.rec = promoted, !.drop = Queued(session), !.idle = idle]
  <2>1. promoted \in Recognition
    BY PromotedType
  <2>2. Queued(session) \in SUBSET TaskIds /\ Waiting(session) \in SUBSET TaskIds
    BY DEF Queued, Waiting
  <2>3. q1 \in Request /\ q1.plan = q.plan /\ q1.token = q.token
    BY <2>1, <2>2 DEF Request
  <2>4. CancelTasks(r, q1, session, Waiting(session))
    BY <1>3
  <2> HIDE DEF q1
  <2>5. Moves(r, q1, session)
    BY <1>1, <2>2, <2>3, <2>4, CancelTasksMoves
  <2> QED BY <2>3, <2>5 DEF Moves, Leads
<1> QED BY <1>2, <1>3 DEF SwitchOrResume

-----------------------------------------------------------------------------
(* The inductive invariant. That a request decides a plan nobody decided    *)
(* before needs the numbering of plans; that a switch has a task to switch  *)
(* from needs HasTask; that a button names one plan needs that a request    *)
(* carries no token before it is sent.                                      *)

(* With the session s and the requests rq, plans are numbered as they are   *)
(* proposed, and each was decided by one request at most: a pending plan by *)
(* none.                                                                    *)
OneDecision(s, rq) ==
  /\ s.plan.id <= s.plans
  /\ \A r \in Requests :
       /\ rq[r].plan <= s.plans
       /\ rq[r].plan # 0 =>
            /\ rq[r].token \in {0, rq[r].plan}
            /\ s.plan.id = rq[r].plan => s.plan.status \in ExecutingPlan
            /\ \A q \in Requests \ {r} : rq[q].plan # rq[r].plan

Inv ==
  /\ TypeOK
  /\ OneDecision(session, req)
  /\ \A r \in Requests : /\ HasTask(req[r])
                         /\ req[r].pc = "idle" => req[r].token = 0

(* A kept plan keeps its decisions.                                         *)
LEMMA OneDecisionKept ==
  ASSUME NEW s \in Session, NEW s1 \in Session, KeepsPlan(s, s1),
         NEW rq \in [Requests -> Request], NEW rq1 \in [Requests -> Request],
         \A x \in Requests : rq1[x].plan = rq[x].plan /\ rq1[x].token = rq[x].token,
         OneDecision(s, rq)
  PROVE  OneDecision(s1, rq1)
<1>1. s1.plan.id <= s1.plans
  BY DEF OneDecision, KeepsPlan, NoPlan, Session
<1>2. ASSUME NEW r \in Requests, rq[r].plan # 0, s1.plan.id = rq[r].plan
      PROVE  s1.plan.status \in ExecutingPlan
  BY <1>2 DEF OneDecision, KeepsPlan, NoPlan
<1>3. s1.plans = s.plans
  BY DEF KeepsPlan
<1> QED BY <1>1, <1>2, <1>3 DEF OneDecision

(* A proposed plan is new to every request: none has decided it.            *)
LEMMA OneDecisionProposed ==
  ASSUME NEW s \in Session, NEW rq \in [Requests -> Request], OneDecision(s, rq),
         NEW planned, NEW conf \in [AllIntents -> Confidence]
  PROVE  OneDecision(ProposePlan(s, planned, conf), rq)
<1> DEFINE s1 == ProposePlan(s, planned, conf)
<1>1. s1.plans = s.plans + 1 /\ s1.plan.id = s.plans + 1
  BY ProposePlanType
<1>2. s.plans \in Nat /\ \A r \in Requests : rq[r].plan \in Nat /\ rq[r].plan <= s.plans
  BY DEF Session, Request, OneDecision
<1> HIDE DEF s1
<1> SUFFICES OneDecision(s1, rq)
  BY DEF s1
<1> QED BY <1>1, <1>2 DEF OneDecision

(* A step with the decisions in order keeps the invariant.                  *)
LEMMA LeadsKeepInv ==
  ASSUME Inv, NEW r \in Requests, NEW q \in Request, NEW s \in Session,
         OneDecision(s, [req EXCEPT ![r] = q]), Leads(r, q, s),
         UNCHANGED <<catalog, refreshes>>
  PROVE  Inv'
<1>1. PICK s1 \in Session, q1 \in Request :
        /\ KeepsPlan(s, s1)
        /\ q1.plan = q.plan /\ q1.token = q.token /\ q1.pc # "idle" /\ HasTask(q1)
        /\ session' = s1
        /\ req' = [req EXCEPT ![r] = q1]
  BY DEF Leads
<1>2. req \in [Requests -> Request]
  BY DEF Inv, TypeOK
<1>3. TypeOK'
  BY <1>1, <1>2 DEF Inv, TypeOK
<1>4. OneDecision(session', req')
  <2> DEFINE rq  == [req EXCEPT ![r] = q]
             rq1 == [req EXCEPT ![r] = q1]
  <2>1. \A x \in Requests : rq1[x].plan = rq[x].plan /\ rq1[x].token = rq[x].token
    BY <1>1, <1>2
  <2>2. rq \in [Requests -> Request] /\ rq1 \in [Requests -> Request]
    BY <1>2
  <2>3. OneDecision(s, rq)
    OBVIOUS
  <2> HIDE DEF rq, rq1
  <2>4. OneDecision(s1, rq1)
    BY <1>1, <2>1, <2>2, <2>3, OneDecisionKept
  <2> QED BY <1>1, <2>4 DEF rq1
<1>5. \A x \in Requests : HasTask(req'[x]) /\ (req'[x].pc = "idle" => req'[x].token = 0)
  BY <1>1, <1>2 DEF Inv
<1> QED BY <1>3, <1>4, <1>5 DEF Inv, OneDecision, HasTask

(* A step that leaves the decisions alone.                                  *)
LEMMA MovesKeepInv ==
  ASSUME Inv, NEW r \in Requests, NEW q \in Request,
         q.plan = req[r].plan, q.token = req[r].token,
         Moves(r, q, session), UNCHANGED <<catalog, refreshes>>
  PROVE  Inv'
<1>1. session \in Session /\ req \in [Requests -> Request] /\ OneDecision(session, req)
  BY DEF Inv, TypeOK
<1> DEFINE rq == [req EXCEPT ![r] = q]
<1>2. /\ rq \in [Requests -> Request]
      /\ \A x \in Requests : rq[x].plan = req[x].plan /\ rq[x].token = req[x].token
  BY <1>1
<1>3. ASSUME NEW s1 \in Session, KeepsPlan(session, s1)
      PROVE  OneDecision(s1, rq)
  BY <1>1, <1>2, <1>3, OneDecisionKept
<1>4. CASE Leads(r, q, session)
  BY <1>1, <1>3, <1>4, LeadsKeepInv DEF KeepsPlan
<1>5. ASSUME NEW s1 \in Session, NEW planned \in SUBSET AllIntents,
             NEW conf \in [AllIntents -> Confidence],
             KeepsPlan(session, s1), Leads(r, q, ProposePlan(s1, planned, conf))
      PROVE  Inv'
  <2>1. OneDecision(ProposePlan(s1, planned, conf), rq)
    BY <1>2, <1>3, <1>5, OneDecisionProposed
  <2> QED BY <1>5, <2>1, ProposePlanType, LeadsKeepInv
<1> QED BY <1>4, <1>5 DEF Moves

(* A step that decides the pending plan.                                    *)
LEMMA DecisionKeepsInv ==
  ASSUME Inv, NEW r \in Requests, NEW q \in Request, NEW s \in Session,
         PlanPending(session), q.plan = session.plan.id,
         q.token \in {0, session.plan.id},
         s.plans = session.plans,
         \/ s.plan = NoPlan
         \/ s.plan.id = session.plan.id /\ s.plan.status = "running",
         Leads(r, q, s), UNCHANGED <<catalog, refreshes>>
  PROVE  Inv'
<1>1. session \in Session /\ req \in [Requests -> Request] /\ OneDecision(session, req)
  BY DEF Inv, TypeOK
<1>2. session.plan.status \notin ExecutingPlan /\ "running" \in ExecutingPlan
  BY DEF PlanPending, ExecutingPlan
<1>3. \A x \in Requests : req[x].plan # 0 => req[x].plan # session.plan.id
  BY <1>1, <1>2 DEF OneDecision
<1>4. /\ session.plan.id \in Nat /\ session.plans \in Nat
      /\ session.plan.id <= session.plans
  BY <1>1 DEF OneDecision, Session, Plan
<1>5. s.plan.id <= s.plans
  BY <1>4 DEF NoPlan
<1>6. s.plan.id # 0 => s.plan.status \in ExecutingPlan
  BY <1>2 DEF NoPlan
<1> DEFINE rq == [req EXCEPT ![r] = q]
<1>7. /\ rq[r] = q
      /\ \A x \in Requests \ {r} : rq[x] = req[x]
  BY <1>1
<1>8. ASSUME NEW x \in Requests
      PROVE  /\ rq[x].plan <= s.plans
             /\ rq[x].plan # 0 =>
                  /\ rq[x].token \in {0, rq[x].plan}
                  /\ s.plan.id = rq[x].plan => s.plan.status \in ExecutingPlan
                  /\ \A y \in Requests \ {x} : rq[y].plan # rq[x].plan
  <2> HIDE DEF rq
  <2>1. CASE x = r
    BY <1>3, <1>4, <1>6, <1>7, <2>1
  <2>2. CASE x # r
    <3>1. req[x].plan <= session.plans
      BY <1>1 DEF OneDecision
    <3>2. ASSUME req[x].plan # 0
          PROVE  /\ req[x].token \in {0, req[x].plan}
                 /\ \A y \in Requests \ {x} : req[y].plan # req[x].plan
      BY <1>1, <3>2 DEF OneDecision
    <3> QED BY <1>3, <1>6, <1>7, <2>2, <3>1, <3>2
  <2> QED BY <2>1, <2>2
<1>9. OneDecision(s, rq)
  BY <1>5, <1>8 DEF OneDecision
<1> QED BY <1>9, LeadsKeepInv

-----------------------------------------------------------------------------
(* Each action preserves the invariant.                                     *)

(* _confirm_pending_plan, by a message or a button.                         *)
LEMMA ConfirmKeepsInv ==
  ASSUME Inv, NEW r \in Requests, NEW q \in Request, PlanPending(session),
         q.token \in {0, session.plan.id}, ConfirmPendingPlan(r, q),
         UNCHANGED <<catalog, refreshes>>
  PROVE  Inv'
<1> DEFINE q1 == [q EXCEPT !.plan = session.plan.id, !.verdict = "confirm"]
           s1 == ConfirmItems(session, r)
           s2 == QueuePendingTasks(s1)
<1>1. session \in Session
  BY DEF Inv, TypeOK
<1>2. q1 \in Request /\ q1.plan = session.plan.id /\ q1.token = q.token
  BY <1>1 DEF Request, Session, Plan
<1>3. /\ s1 \in Session /\ s1.plans = session.plans
      /\ s1.plan.id = session.plan.id /\ s1.plan.status = "running"
  BY <1>1, ConfirmItemsType
<1>4. \/ CatalogRaises(r, req[r], session)
      \/ CatalogRaises(r, q1, s1)
      \/ DrainQueue(r, q1, s2)
  BY DEF ConfirmPendingPlan
<1>5. CASE CatalogRaises(r, req[r], session)
  <2>1. req[r] \in Request
    BY DEF Inv, TypeOK
  <2> QED BY <1>1, <1>5, <2>1, CatalogRaisesLeads, MovesKeepInv DEF Moves
<1> HIDE DEF q1, s1
<1>6. s2 \in Session /\ KeepsPlan(s1, s2)
  BY <1>3, QueuePendingTasksType, TasksKeepPlan
<1>7. CASE CatalogRaises(r, q1, s1) \/ DrainQueue(r, q1, s2)
  <2>1. Leads(r, q1, s1)
    BY <1>2, <1>3, <1>6, <1>7, CatalogRaisesLeads, DrainQueueLeads, LeadsFrom
  <2> QED BY <1>2, <1>3, <2>1, DecisionKeepsInv
<1> QED BY <1>4, <1>5, <1>7

(* _cancel_pending_plan, by a message or a button.                          *)
LEMMA CancelPlanKeepsInv ==
  ASSUME Inv, NEW r \in Requests, NEW q \in Request, PlanPending(session),
         q.token \in {0, session.plan.id}, CancelPendingPlan(r, q),
         UNCHANGED <<catalog, refreshes>>
  PROVE  Inv'
<1> DEFINE q1 == [q EXCEPT !.plan = session.plan.id, !.verdict = "cancel"]
           s1 == [session EXCEPT !.plan = NoPlan]
<1>1. session \in Session
  BY DEF Inv, TypeOK
<1>2. q1 \in Request /\ q1.plan = session.plan.id /\ q1.token = q.token
  BY <1>1 DEF Request, Session, Plan
<1>3. s1 \in Session /\ s1.plans = session.plans /\ s1.plan = NoPlan
  BY <1>1, NoPlanType DEF Session
<1>4. Return(r, q1, s1)
  BY DEF CancelPendingPlan
<1> HIDE DEF q1, s1
<1> QED BY <1>2, <1>3, <1>4, ReturnLeads, DecisionKeepsInv

(* handle_user_message.                                                     *)
LEMMA HandleUserMessageKeepsInv ==
  ASSUME Inv, NEW r \in Requests, NEW m \in Messages, HandleUserMessage(r, m)
  PROVE  Inv'
<1> DEFINE q == [req[r] EXCEPT !.message = m]
           asked(pc, t) == [q EXCEPT !.pc = pc, !.task = t, !.known = ListActive]
<1>1. /\ session \in Session /\ req[r] \in Request
      /\ req[r].pc = "idle" /\ req[r].token = 0
      /\ UNCHANGED <<catalog, refreshes>>
  BY DEF Inv, TypeOK, HandleUserMessage, MaySend
<1>2. q \in Request /\ q.plan = req[r].plan /\ q.token = 0
  BY <1>1 DEF Request
<1>3. ASSUME NEW pc \in {"switching", "recognizing"}, NEW t \in TaskIds \cup {NoTask},
             pc = "switching" => t \in TaskIds, Await(r, asked(pc, t), session)
      PROVE  Inv'
  <2> HIDE DEF q
  <2>1. ListActive \in SUBSET AllIntents
    BY DEF ListActive, AllIntents
  <2>2. /\ asked(pc, t) \in Request /\ HasTask(asked(pc, t))
        /\ asked(pc, t).plan = q.plan /\ asked(pc, t).token = q.token
        /\ asked(pc, t).pc # "idle"
    BY <1>2, <1>3, <2>1 DEF Request, Awaiting, HasTask
  <2> HIDE DEF asked
  <2> QED BY <1>1, <1>2, <1>3, <2>2, AwaitLeads, MovesKeepInv DEF Moves
<1>4. CASE Return(r, q, session)
  BY <1>1, <1>2, <1>4, ReturnLeads, MovesKeepInv DEF Moves
<1>8. CASE CatalogRaises(r, q, session)
  BY <1>1, <1>2, <1>8, CatalogRaisesLeads, MovesKeepInv DEF Moves
<1>5. CASE PlanPending(session) /\ ConfirmPendingPlan(r, q)
  BY <1>1, <1>2, <1>5, ConfirmKeepsInv
<1>6. CASE PlanPending(session) /\ CancelPendingPlan(r, q)
  BY <1>1, <1>2, <1>6, CancelPlanKeepsInv
<1>7. WaitingTask(session) \subseteq TaskIds
  BY DEF WaitingTask, Waiting
<1> QED BY <1>3, <1>4, <1>5, <1>6, <1>7, <1>8 DEF HandleUserMessage

(* handle_action: the token makes the decision that of its own plan.        *)
LEMMA HandleActionKeepsInv ==
  ASSUME Inv, NEW r \in Requests, NEW a, NEW token \in 0..session.plans,
         HandleAction(r, a, token)
  PROVE  Inv'
<1> DEFINE q == [req[r] EXCEPT !.token = token]
<1>1. /\ session \in Session /\ req[r] \in Request
      /\ UNCHANGED <<catalog, refreshes>>
  BY DEF Inv, TypeOK, HandleAction
<1>2. q \in Request /\ q.token = token
  BY <1>1 DEF Request, Session
<1>3. CASE PlanPending(session) /\ TokenAccepted(token) /\ ConfirmPendingPlan(r, q)
  BY <1>1, <1>2, <1>3, ConfirmKeepsInv DEF TokenAccepted
<1>4. CASE PlanPending(session) /\ TokenAccepted(token) /\ CancelPendingPlan(r, q)
  BY <1>1, <1>2, <1>4, CancelPlanKeepsInv DEF TokenAccepted
<1>5. CASE Await(r, Cleared(req[r], "rejected"), session)
  <2> DEFINE q1 == Cleared(req[r], "rejected")
  <2>1. /\ q1 \in Request /\ q1.plan = req[r].plan /\ q1.token = req[r].token
        /\ q1.pc # "idle" /\ HasTask(q1)
    BY <1>1, ClearedType DEF HasTask, Awaiting
  <2> HIDE DEF q1
  <2>2. Await(r, q1, session)
    BY <1>5 DEF q1
  <2> QED BY <1>1, <2>1, <2>2, AwaitLeads, MovesKeepInv DEF Moves
<1> QED BY <1>3, <1>4, <1>5 DEF HandleAction

(* The recognizer's answer.                                                 *)
LEMMA RecognizedKeepsInv ==
  ASSUME Inv, NEW r \in Requests, Recognized(r)
  PROVE  Inv'
<1>1. TypeOK /\ session \in Session /\ req[r] \in Request /\ HasTask(req[r])
  BY DEF Inv, TypeOK
<1>2. PICK rec \in Recognitions(req[r].known) :
        \/ DispatchRecognition(r, [req[r] EXCEPT !.known = {}, !.message = "none"],
                               session, rec)
        \/ req[r].pc = "switching" /\ SwitchOrResume(r, [req[r] EXCEPT !.known = {}], rec)
  BY DEF Recognized
<1>3. rec \in Recognition
  BY DEF Recognitions, Recognition
<1>4. CASE DispatchRecognition(r, [req[r] EXCEPT !.known = {}, !.message = "none"],
                               session, rec)
  <2> DEFINE q == [req[r] EXCEPT !.known = {}, !.message = "none"]
  <2>1. q \in Request /\ q.plan = req[r].plan /\ q.token = req[r].token
    BY <1>1 DEF Request
  <2>2. DispatchRecognition(r, q, session, rec)
    BY <1>4
  <2> HIDE DEF q
  <2> QED BY <1>1, <1>3, <2>1, <2>2, DispatchMoves, MovesKeepInv DEF Recognized
<1>5. CASE req[r].pc = "switching" /\ SwitchOrResume(r, [req[r] EXCEPT !.known = {}], rec)
  <2> DEFINE q == [req[r] EXCEPT !.known = {}]
  <2>1. q \in Request /\ q.plan = req[r].plan /\ q.token = req[r].token /\ q.task = req[r].task
    BY <1>1 DEF Request
  <2>2. q.task \in TaskIds
    BY <1>1, <1>5, <2>1 DEF HasTask, Awaiting
  <2>3. SwitchOrResume(r, q, rec)
    BY <1>5
  <2> HIDE DEF q
  <2> QED BY <1>1, <1>3, <2>1, <2>2, <2>3, SwitchOrResumeMoves, MovesKeepInv DEF Recognized
<1> QED BY <1>2, <1>4, <1>5

(* The answer of a cancelled agent.                                         *)
LEMMA CancelAnsweredKeepsInv ==
  ASSUME Inv, NEW r \in Requests, CancelAnswered(r)
  PROVE  Inv'
<1>1. /\ session \in Session /\ req[r] \in Request /\ req[r].task \in TaskIds
      /\ req[r].todo \in SUBSET TaskIds
  BY DEF Inv, TypeOK, HasTask, Awaiting, CancelAnswered, Request
<1> DEFINE s1 == Report(session, req[r].task, "cancelled")
<1>2. s1 \in Session /\ KeepsPlan(session, s1)
  BY <1>1, ReportType, ReportKeepsPlan DEF TaskStatuses, TerminalStatuses
<1>3. CancelTasks(r, req[r], s1, req[r].todo)
  BY DEF CancelAnswered
<1> HIDE DEF s1
<1>4. Moves(r, req[r], session)
  BY <1>1, <1>2, <1>3, CancelTasksMoves, MovesFrom
<1> QED BY <1>1, <1>4, MovesKeepInv DEF CancelAnswered

(* What an agent's stream does to its task, and the queue after it.         *)
LEMMA StreamKeepsInv ==
  ASSUME Inv, NEW r \in Requests, req[r].pc = "streaming",
         NEW s \in Session, KeepsPlan(session, s),
         AfterRun(r, req[r], s) \/ Await(r, req[r], s),
         UNCHANGED <<catalog, refreshes>>
  PROVE  Inv'
<1>1. req[r] \in Request /\ HasTask(req[r])
  BY DEF Inv, TypeOK
<1>2. Leads(r, req[r], s)
  BY <1>1, AfterRunLeads, AwaitLeads
<1> QED BY <1>1, <1>2, LeadsFrom, MovesKeepInv DEF Moves

(* The three ways a stream goes on.                                         *)
LEMMA AgentKeepsInv ==
  ASSUME Inv, NEW r \in Requests,
         \/ \E status \in AgentStatuses : AgentChunk(r, status)
         \/ StreamEnds(r)
         \/ Timeout(r)
  PROVE  Inv'
<1>1. session \in Session
  BY DEF Inv, TypeOK
<1>2. ASSUME req[r].pc = "streaming", NEW status \in TaskStatuses
      PROVE  /\ Report(session, req[r].task, status) \in Session
             /\ KeepsPlan(session, Report(session, req[r].task, status))
  <2>1. req[r].task \in TaskIds
    BY <1>2 DEF Inv, HasTask, Awaiting
  <2> QED BY <1>1, <2>1, ReportType, ReportKeepsPlan
<1>3. ASSUME NEW status \in AgentStatuses, AgentChunk(r, status)
      PROVE  Inv'
  <2>1. status \in TaskStatuses
    BY AgentsAssumption
  <2> QED BY <1>2, <1>3, <2>1, StreamKeepsInv DEF AgentChunk
<1>4. CASE StreamEnds(r)
  BY <1>1, <1>4, StreamKeepsInv DEF StreamEnds, KeepsPlan
<1>5. CASE Timeout(r)
  <2>1. "failed" \in TaskStatuses
    BY DEF TaskStatuses, TerminalStatuses
  <2> QED BY <1>2, <1>5, <2>1, StreamKeepsInv DEF Timeout
<1> QED BY <1>3, <1>4, <1>5

(* A dropped stream decides nothing.                                        *)
LEMMA DisconnectKeepsInv ==
  ASSUME Inv, NEW r \in Requests, Disconnect(r)
  PROVE  Inv'
<1> DEFINE q1 == Cleared(req[r], "aborted")
<1>1. session \in Session /\ req[r] \in Request
  BY DEF Inv, TypeOK
<1>2. /\ q1 \in Request /\ q1.plan = req[r].plan /\ q1.token = req[r].token
      /\ q1.pc # "idle" /\ HasTask(q1)
  BY <1>1, ClearedType DEF HasTask, Awaiting
<1>3. Await(r, q1, session)
  BY DEF Disconnect
<1> HIDE DEF q1
<1>4. Moves(r, req[r], session)
  BY <1>1, <1>2, <1>3, AwaitLeads DEF Moves
<1> QED BY <1>1, <1>4, MovesKeepInv DEF Disconnect

(* A refresh of the catalog touches no session.                             *)
LEMMA CatalogRefreshKeepsInv ==
  ASSUME Inv, NEW i \in AllIntents, CatalogRefresh(i)
  PROVE  Inv'
<1>1. TypeOK'
  BY DEF Inv, TypeOK, CatalogRefresh
<1>2. session' = session /\ req' = req
  BY DEF CatalogRefresh
<1> QED BY <1>1, <1>2 DEF Inv, OneDecision, HasTask

(* The invariant holds of a new session.                                    *)
LEMMA InitInv == Init => Inv
<1> SUFFICES ASSUME Init PROVE Inv
  OBVIOUS
<1>1. TypeOK
  BY EmptySessionType, NewRequestType DEF Init, TypeOK
<1>2. session.plan.id = 0 /\ session.plans = 0
  BY DEF Init, EmptySession, NoPlan
<1>3. \A r \in Requests : req[r].pc = "idle" /\ req[r].plan = 0 /\ req[r].token = 0
  BY DEF Init, NewRequest
<1> QED BY <1>1, <1>2, <1>3 DEF Inv, OneDecision, HasTask, Awaiting

(* Every step preserves the invariant, whichever action takes it.           *)
LEMMA NextInv == Inv /\ [Next]_vars => Inv'
<1> SUFFICES ASSUME Inv, [Next]_vars PROVE Inv'
  OBVIOUS
<1>1. ASSUME NEW r \in Requests, NEW m \in Messages, HandleUserMessage(r, m)
      PROVE  Inv'
  BY <1>1, HandleUserMessageKeepsInv
<1>2. ASSUME NEW r \in Requests, NEW a \in Actions, NEW token \in 0..session.plans,
             HandleAction(r, a, token)
      PROVE  Inv'
  BY <1>2, HandleActionKeepsInv
<1>3. ASSUME NEW r \in Requests, Recognized(r)
      PROVE  Inv'
  BY <1>3, RecognizedKeepsInv
<1>4. ASSUME NEW r \in Requests, CancelAnswered(r)
      PROVE  Inv'
  BY <1>4, CancelAnsweredKeepsInv
<1>5. ASSUME NEW r \in Requests, \/ \E status \in AgentStatuses : AgentChunk(r, status)
                                 \/ StreamEnds(r)
                                 \/ Timeout(r)
      PROVE  Inv'
  BY <1>5, AgentKeepsInv
<1>6. ASSUME NEW r \in Requests, Disconnect(r)
      PROVE  Inv'
  BY <1>6, DisconnectKeepsInv
<1>7. ASSUME NEW i \in AllIntents, CatalogRefresh(i)
      PROVE  Inv'
  BY <1>7, CatalogRefreshKeepsInv
<1>8. CASE UNCHANGED vars
  BY <1>8 DEF Inv, TypeOK, OneDecision, HasTask, vars
<1> QED BY <1>1, <1>2, <1>3, <1>4, <1>5, <1>6, <1>7, <1>8 DEF Next

-----------------------------------------------------------------------------
(* The theorems.                                                            *)

(* The strengthened invariant holds in every state of every behaviour.      *)
THEOREM Invariance == Spec => []Inv
  BY InitInv, NextInv, PTL DEF Spec

(* The session, the requests' locals and the catalog keep to the values the *)
(* code can give them, for any number of requests, of any clients.          *)
THEOREM TypeCorrect == Spec => []TypeOK
<1>1. Inv => TypeOK
  BY DEF Inv
<1> QED BY <1>1, Invariance, PTL

(* However requests interleave, are dropped or time out, a plan is decided  *)
(* by one of them at most, and a confirm_token decides no plan but its own. *)
THEOREM PlansDecidedOnce == Spec => []PlanDecidedOnce
<1>1. Inv => PlanDecidedOnce
  BY DEF Inv, OneDecision, PlanDecidedOnce
<1> QED BY <1>1, Invariance, PTL
=============================================================================
