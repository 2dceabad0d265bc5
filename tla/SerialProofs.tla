----------------------------- MODULE SerialProofs ------------------------------
(***************************************************************************)
(* Theorems about module Orchestrator for clients that send one request    *)
(* after the other and read every answer to its end, and for agents that   *)
(* conclude: tasks run one at a time and stay closed and, if no read of    *)
(* the catalog fails, nothing is stranded between two requests.            *)
(***************************************************************************)
EXTENDS OverlapProofs

(* What the theorems suppose of clients and agents.                         *)
Serial ==
  /\ ~Concurrent /\ Abortable = {} /\ AgentsConclude
  /\ AgentStatuses \subseteq ExecutingStatuses \cup ConcludingStatuses

(* What two of them suppose besides: no read of the catalog fails.          *)
RepositoryAnswers == CatalogFailsFor = {}

-----------------------------------------------------------------------------
(* The inductive invariant.                                                 *)

(* No two open tasks are of one intent, and a plan that waits for its       *)
(* decision has no item of an open one. If the repository answers, no task  *)
(* was left unqueued, and under a plan the open tasks are the plan's.       *)
Orderly(s) ==
  /\ \A t, u \in Open(s) : IntentOf(t) = IntentOf(u) => t = u
  /\ PlanPending(s) =>
       \A t \in Open(s) : s.plan.item[IntentOf(t)] = "none"
  /\ s.plan.status = "none" => s.plan.id = 0
  /\ RepositoryAnswers =>
       /\ \A t \in TaskIds : s.status[t] # "created"
       /\ s.plan.status \in ExecutingPlan =>
            \A t \in Open(s) : \E i \in AllIntents : s.plan.task[i] = t

(* Nothing executes, and at most one task waits.                            *)
Idle(s) ==
  /\ Executing(s) = {}
  /\ \A t, u \in Waiting(s) : t = u

(* active_task_id is the waiting task, what is queued waits for it, and     *)
(* nothing is open under a plan that waits for its decision.                *)
Settled(s) ==
  /\ IF Waiting(s) = {} THEN s.active = NoTask ELSE s.active \in WaitingTask(s)
  /\ Queued(s) # {} => Waiting(s) # {}
  /\ PlanPending(s) => Open(s) = {}

(* A session between two requests.                                          *)
Rests(s) ==
  /\ Idle(s)
  /\ PlanPending(s) => Waiting(s) = {}
  /\ RepositoryAnswers => Settled(s)

(* A session while its one request in flight has locals q.                  *)
InHand(s, q) ==
  /\ ~PlanPending(s)
  /\ q.pc = "recognizing" =>
       /\ Waiting(s) = {} /\ Executing(s) = {}
       /\ RepositoryAnswers => Open(s) = {}
  /\ q.pc \in {"switching", "cancelling"} => Waiting(s) = {q.task} /\ Executing(s) = {}
  /\ q.pc = "cancelling" => q.todo = {} /\ q.drop = Queued(s)
  /\ q.pc = "streaming" =>
       Waiting(s) = {} /\ Executing(s) = {q.task} /\ s.active = q.task

Placed(s, q) == IF q.pc \in Awaiting THEN InHand(s, q) ELSE Rests(s)

SerialInv ==
  /\ StepInv
  /\ Orderly(session)
  /\ \A r, q \in Requests : InFlight(r) /\ InFlight(q) => r = q
  /\ \A r \in Requests : InFlight(r) => InHand(session, req[r])
  /\ (\A r \in Requests : ~InFlight(r)) => Rests(session)

-----------------------------------------------------------------------------
(* What every operation of a handler does in such a session.                *)

(* From s to s1 closed tasks stay closed.                                   *)
Closes(s, s1) ==
  \A t \in TaskIds : s.status[t] \in TerminalStatuses => s1.status[t] = s.status[t]

(* And the plan stays, or it was under way and goes on, or leaves with all  *)
(* its tasks closed.                                                        *)
Carries(s, s1) ==
  /\ Closes(s, s1)
  /\ \/ s1.plan = s.plan
     \/ /\ s.plan.status \in ExecutingPlan /\ s1.plan.status \in ExecutingPlan
        /\ s1.plan.id = s.plan.id /\ s1.plan.task = s.plan.task
     \/ /\ s.plan.status \in ExecutingPlan /\ s1.plan = NoPlan
        /\ \A i \in PlanItems(s) : s1.status[s.plan.task[i]] \in TerminalStatuses

(* No plan is not under way.                                                *)
LEMMA NoPlanRests == NoPlan.status = "none" /\ NoPlan.id = 0 /\ "none" \notin ExecutingPlan
  BY DEF NoPlan, ExecutingPlan

(* What carries tasks and plan composes.                                    *)
LEMMA CarriesTransitive ==
  ASSUME NEW s \in Session, NEW s1, NEW s2, Carries(s, s1), Carries(s1, s2)
  PROVE  Carries(s, s2)
<1>1. \A i \in PlanItems(s) : s.plan.task[i] \in TaskIds
  BY DEF PlanItems, Session, Plan
<1>2. Closes(s, s2)
  BY DEF Carries, Closes
<1>3. CASE s1.plan = s.plan
  BY <1>2, <1>3 DEF Carries, PlanItems
<1>4. CASE /\ s.plan.status \in ExecutingPlan /\ s1.plan.status \in ExecutingPlan
           /\ s1.plan.id = s.plan.id /\ s1.plan.task = s.plan.task
  <2>1. PlanItems(s1) = PlanItems(s)
    BY <1>4 DEF PlanItems
  <2> QED BY <1>2, <1>4, <2>1 DEF Carries
<1>5. CASE /\ s.plan.status \in ExecutingPlan /\ s1.plan = NoPlan
           /\ \A i \in PlanItems(s) : s1.status[s.plan.task[i]] \in TerminalStatuses
  <2>1. s2.plan = NoPlan
    BY <1>5, NoPlanRests DEF Carries
  <2> QED BY <1>1, <1>2, <1>5, <2>1 DEF Carries, Closes
<1> QED BY <1>3, <1>4, <1>5 DEF Carries

(* A plan that waits for its decision is carried as it is.                  *)
LEMMA CarriesPending ==
  ASSUME NEW s, NEW s1, Carries(s, s1), PlanPending(s) \/ PlanPending(s1)
  PROVE  s1.plan = s.plan
  BY NoPlanRests DEF Carries, PlanPending, ExecutingPlan

(* Opening no task keeps a session orderly.                                 *)
LEMMA OrderlyKept ==
  ASSUME NEW s \in Session, NEW s1 \in Session, Orderly(s), Carries(s, s1),
         \A t \in TaskIds : s1.status[t] = "created" => s.status[t] = "created",
         Open(s1) \subseteq Open(s)
  PROVE  Orderly(s1)
<1>1. s1.plan.status \in ExecutingPlan =>
        s.plan.status \in ExecutingPlan /\ s1.plan.task = s.plan.task
  BY NoPlanRests DEF Carries
<1>2. s1.plan.status = "none" => s1.plan.id = 0
  BY NoPlanRests DEF Carries, Orderly
<1>3. PlanPending(s1) => PlanPending(s) /\ s1.plan = s.plan
  BY CarriesPending DEF PlanPending
<1> QED BY <1>1, <1>2, <1>3 DEF Orderly

(* The progress of a plan under way ends it with its last task only.        *)
LEMMA EmitCarries ==
  ASSUME NEW s \in Session, Shape(s)
  PROVE  Carries(s, EmitPlanProgress(s))
<1> DEFINE items  == RefreshedItems(s)
           status == IF \E i \in AllIntents : items[i] = "completed"
                       THEN "partially_completed" ELSE "running"
           on     == [s.plan EXCEPT !.item = items, !.status = status]
           s1     == EmitPlanProgress(s)
<1>1. s1 \in Session /\ Closes(s, s1)
  BY EmitPlanProgressType, EmitDoes DEF SameTasks, Closes
<1>2. CASE s.plan.status \notin ExecutingPlan
  BY <1>1, <1>2, EmitDoes DEF Carries
<1>3. CASE s.plan.status \in ExecutingPlan /\ AllSettled(items)
  <2>1. s1.plan = NoPlan
    BY <1>3 DEF EmitPlanProgress, Session
  <2>2. ASSUME NEW i \in PlanItems(s)
        PROVE  s.status[s.plan.task[i]] \in TerminalStatuses
    <3>1. /\ s.status[s.plan.task[i]] \in TaskStatuses /\ i \in AllIntents
          /\ s.plan.task[i] # NoTask /\ items[i] = ItemStatusForTask(s.status[s.plan.task[i]])
      BY <2>2 DEF PlanItems, Shape, Session, Plan, RefreshedItems
    <3> HIDE DEF items
    <3> QED BY <1>3, <3>1, ItemTells DEF AllSettled
  <2>3. s1.status = s.status
    BY EmitDoes DEF SameTasks
  <2> HIDE DEF s1, items
  <2> QED BY <1>1, <1>3, <2>1, <2>2, <2>3 DEF Carries, s1
<1>4. CASE s.plan.status \in ExecutingPlan /\ ~AllSettled(items)
  <2>1. s1.plan = on
    BY <1>4 DEF EmitPlanProgress, Session
  <2>2. status \in ExecutingPlan
    BY DEF ExecutingPlan
  <2> HIDE DEF items, status
  <2>3. on.task = s.plan.task /\ on.id = s.plan.id /\ on.status = status
    BY DEF Session, Plan
  <2> HIDE DEF on, s1
  <2> QED BY <1>1, <1>4, <2>1, <2>2, <2>3 DEF Carries, s1
<1> QED BY <1>2, <1>3, <1>4

(* So does a touch of an open task.                                         *)
LEMMA TouchCarries ==
  ASSUME NEW s \in Session, NEW t \in Open(s), NEW status \in TaskStatuses
  PROVE  Carries(s, Touch(s, t, status))
<1>1. t \in TaskIds /\ s.status[t] \notin TerminalStatuses
  BY DEF Open
<1>2. /\ Touch(s, t, status).plan = s.plan
      /\ Touch(s, t, status).status = [s.status EXCEPT ![t] = status]
  BY <1>1, TouchDoes
<1> QED BY <1>1, <1>2 DEF Carries, Closes, Session

(* And a touch that is published.                                           *)
LEMMA ReportCarries ==
  ASSUME NEW s \in Session, Shape(s), NEW t \in Open(s), NEW status \in TaskStatuses
  PROVE  Carries(s, Report(s, t, status))
<1> DEFINE s1 == Touch(s, t, status)
<1>1. t \in TaskIds /\ status # "none"
  BY DEF Open, TaskStatuses, ExecutingStatuses, WaitingStatuses, TerminalStatuses
<1>2. /\ s1 \in Session /\ Carries(s, s1) /\ s1.plan = s.plan
      /\ s1.status = [s.status EXCEPT ![t] = status]
  BY <1>1, TouchType, TouchDoes, TouchCarries
<1> HIDE DEF s1
<1>3. Shape(s1)
  BY <1>1, <1>2, ShapeKept DEF Session
<1>4. Carries(s1, EmitPlanProgress(s1))
  BY <1>2, <1>3, EmitCarries
<1> QED BY <1>2, <1>4, CarriesTransitive DEF Report, s1

(* What leaves tasks and active task alone keeps a session as it rests.     *)
LEMMA RestsKept ==
  ASSUME NEW s \in Session, NEW s1 \in Session, Carries(s, s1),
         s1.status = s.status, s1.at = s.at, s1.active = s.active
  PROVE  /\ Orderly(s) => Orderly(s1)
         /\ Rests(s) => Rests(s1)
<1>1. /\ Open(s1) = Open(s) /\ Waiting(s1) = Waiting(s)
      /\ Queued(s1) = Queued(s) /\ Executing(s1) = Executing(s)
  BY DEF Open, Waiting, Queued, Executing
<1>2. WaitingTask(s1) = WaitingTask(s)
  BY <1>1 DEF WaitingTask
<1>3. PlanPending(s1) => PlanPending(s)
  BY CarriesPending DEF PlanPending
<1> QED BY <1>1, <1>2, <1>3, OrderlyKept DEF Rests, Settled, Idle

(* Another active task is nothing to the tasks and the plan.                *)
LEMMA ActiveCarries ==
  ASSUME NEW s \in Session, NEW t \in TaskIds \cup {NoTask}, Shape(s), Orderly(s)
  PROVE  LET s1 == [s EXCEPT !.active = t]
         IN  /\ s1 \in Session /\ s1.active = t /\ Carries(s, s1)
             /\ Shape(s1) /\ Orderly(s1)
             /\ Open(s1) = Open(s) /\ Waiting(s1) = Waiting(s)
             /\ Queued(s1) = Queued(s) /\ Executing(s1) = Executing(s)
             /\ WaitingTask(s1) = WaitingTask(s)
             /\ PlanPending(s1) <=> PlanPending(s)
<1> DEFINE s1 == [s EXCEPT !.active = t]
<1>1. /\ s1 \in Session /\ s1.active = t /\ s1.status = s.status
      /\ s1.at = s.at /\ s1.plan = s.plan /\ Shape(s1)
  BY ActiveKeeps DEF SameTasks
<1> HIDE DEF s1
<1>2. Carries(s, s1)
  BY <1>1 DEF Carries, Closes
<1>3. Open(s1) = Open(s)
  BY <1>1 DEF Open
<1>4. Orderly(s1)
  BY <1>1, <1>2, <1>3, OrderlyKept
<1>5. /\ Waiting(s1) = Waiting(s) /\ Queued(s1) = Queued(s)
      /\ Executing(s1) = Executing(s)
      /\ PlanPending(s1) <=> PlanPending(s)
  BY <1>1 DEF Waiting, Queued, Executing, PlanPending
<1>6. WaitingTask(s1) = WaitingTask(s)
  BY <1>1, <1>5 DEF WaitingTask
<1> QED BY <1>1, <1>2, <1>3, <1>4, <1>5, <1>6 DEF s1

(* Cancelling the queued tasks closes those that are open.                  *)
LEMMA CancelAllCarries ==
  ASSUME NEW s \in Session, NEW tasks \in SUBSET TaskIds, Shape(s),
         \A t \in tasks : s.status[t] # "none"
  PROVE  Carries(s, CancelAll(s, tasks))
<1> DEFINE gone(t) == t \in tasks /\ s.status[t] \notin TerminalStatuses
           st == [t \in TaskIds |-> IF gone(t) THEN "cancelled" ELSE s.status[t]]
           at == [t \in TaskIds |-> IF gone(t) THEN 0 ELSE s.at[t]]
           s0 == [s EXCEPT !.status = st, !.at = at]
           s1 == CancelAll(s, tasks)
<1>1. st \in [TaskIds -> TaskStatuses \cup {"none"}] /\ at \in [TaskIds -> Nat]
  BY DEF Session, TaskStatuses, TerminalStatuses
<1>2. s1 = IF \E t \in tasks : gone(t) THEN EmitPlanProgress(s0) ELSE s
  BY DEF CancelAll
<1>3. \A t \in TaskIds : /\ s.status[t] # "none" => st[t] # "none"
                         /\ s.status[t] \in TerminalStatuses => st[t] = s.status[t]
  OBVIOUS
<1> HIDE DEF st, at, gone, s1
<1>4. s0 \in Session /\ s0.status = st /\ s0.plan = s.plan
  BY <1>1 DEF Session
<1> HIDE DEF s0
<1>5. Shape(s0)
  BY <1>3, <1>4, ShapeKept
<1>6. Carries(s, s0) /\ Carries(s, s)
  BY <1>3, <1>4 DEF Carries, Closes
<1>7. Carries(s, EmitPlanProgress(s0))
  BY <1>4, <1>5, <1>6, EmitCarries, CarriesTransitive
<1> QED BY <1>2, <1>6, <1>7 DEF s1

-----------------------------------------------------------------------------
(* How a handler ends.                                                      *)

(* From s on, the handler of r leaves a session that rests, or that it has  *)
(* in hand.                                                                 *)
Leaves(r) == Only(r) /\ Orderly(session') /\ Placed(session', req'[r])

Ends(r, s) == Leaves(r) /\ Carries(s, session')

(* A handler that returns from a session that rests.                        *)
LEMMA ReturnEnds ==
  ASSUME TypeOK, NEW r \in Requests, NEW q, NEW s \in Session, Shape(s),
         Orderly(s), Rests(s), Return(r, q, s)
  PROVE  Ends(r, s)
<1>1. req'[r] = Cleared(q, "done") /\ Only(r)
  BY DEF TypeOK, Return, Only
<1>2. req'[r].pc \notin Awaiting
  BY <1>1, ClearedDoes DEF Awaiting
<1>3. CASE q.verdict = "confirm"
  <2>1. session' = EmitPlanProgress(s)
    BY <1>3 DEF Return
  <2>2. /\ session' \in Session /\ session'.status = s.status
        /\ session'.at = s.at /\ session'.active = s.active
    BY <2>1, EmitPlanProgressType, EmitDoes DEF SameTasks
  <2>3. Carries(s, session')
    BY <2>1, EmitCarries
  <2> QED BY <1>1, <1>2, <2>2, <2>3, RestsKept DEF Ends, Leaves, Placed
<1>4. CASE q.verdict # "confirm"
  <2>1. session' = s
    BY <1>4 DEF Return
  <2>2. Carries(s, s)
    BY DEF Carries, Closes
  <2> QED BY <1>1, <1>2, <2>1, <2>2 DEF Ends, Leaves, Placed
<1> QED BY <1>3, <1>4

(* Or whose read of the catalog fails there.                                *)
LEMMA RaiseEnds ==
  ASSUME TypeOK, NEW r \in Requests, NEW q, NEW s \in Session, Orderly(s),
         Idle(s), PlanPending(s) => Waiting(s) = {}, CatalogRaises(r, q, s)
  PROVE  Ends(r, s) /\ ~RepositoryAnswers
<1>1. /\ session' = s /\ req'[r] = Cleared(q, "raised") /\ Only(r)
      /\ ~RepositoryAnswers
  BY DEF TypeOK, CatalogRaises, Await, Only, RepositoryAnswers
<1>2. req'[r].pc \notin Awaiting
  BY <1>1, ClearedDoes DEF Awaiting
<1>3. Rests(s) /\ Carries(s, s)
  BY <1>1 DEF Rests, Carries, Closes
<1> QED BY <1>1, <1>2, <1>3 DEF Ends, Leaves, Placed

(* A handler that runs the only task that executes or waits.                *)
LEMMA RunEnds ==
  ASSUME TypeOK, NEW r \in Requests, NEW q, NEW s \in Session, NEW t \in Open(s),
         Shape(s), Orderly(s), ~PlanPending(s), s.active = t,
         Executing(s) \subseteq {t}, Waiting(s) \subseteq {t},
         \E resumed \in BOOLEAN : RunTask(r, q, s, t, resumed)
  PROVE  Ends(r, s)
<1> DEFINE s1 == Touch(s, t, "dispatching")
<1>1. {"dispatching", "running"} \subseteq TaskStatuses /\ t \in TaskIds
  BY DEF TaskStatuses, ExecutingStatuses, Open
<1>2. Runs(q, s, t, session', req'[r]) /\ Only(r)
  BY <1>1, RunTaskDoes
<1>3. session' = Report(s1, t, "running")
  BY DEF RunTask, Await
<1>4. /\ s1 \in Session /\ s1.plan = s.plan /\ Carries(s, s1)
      /\ s1.status = [s.status EXCEPT ![t] = "dispatching"]
  BY <1>1, TouchType, TouchDoes, TouchCarries
<1> HIDE DEF s1
<1>5. t \in Open(s1) /\ Shape(s1)
  <2>1. s1.status[t] = "dispatching"
    BY <1>1, <1>4 DEF Session
  <2>2. \A u \in TaskIds : s.status[u] # "none" => s1.status[u] # "none"
    BY <1>4 DEF Session
  <2> QED BY <1>1, <1>4, <2>1, <2>2, ShapeKept DEF Open, TerminalStatuses
<1>6. session' \in Session /\ Carries(s1, session')
  BY <1>1, <1>3, <1>4, <1>5, ReportType, ReportCarries
<1>7. Carries(s, session')
  BY <1>4, <1>6, CarriesTransitive
<1>8. \A u \in TaskIds :
        session'.status[u] = IF u = t THEN "running" ELSE s.status[u]
  BY <1>2 DEF Runs
<1>9. Open(session') \subseteq Open(s)
  BY <1>8 DEF Open
<1>10. Orderly(session')
  BY <1>6, <1>7, <1>8, <1>9, OrderlyKept
<1>11. Waiting(session') = {} /\ Executing(session') = {t}
  BY <1>1, <1>8 DEF Waiting, Executing, WaitingStatuses, ExecutingStatuses
<1>12. ~PlanPending(session')
  BY <1>7, CarriesPending DEF PlanPending
<1>13. req'[r].pc = "streaming" /\ req'[r].task = t /\ session'.active = t
  BY <1>2 DEF Runs
<1>14. Placed(session', req'[r])
  BY <1>11, <1>12, <1>13 DEF Placed, InHand, Awaiting
<1> QED BY <1>2, <1>7, <1>10, <1>14 DEF Ends, Leaves

(* A handler that turns the queue of a session in which nothing executes.   *)
LEMMA DrainEnds ==
  ASSUME TypeOK, NEW r \in Requests, NEW q, NEW s \in Session, Shape(s),
         Orderly(s), Idle(s), ~PlanPending(s), DrainQueue(r, q, s)
  PROVE  Ends(r, s)
<1>1. ASSUME NEW t \in TaskIds \cup {NoTask}, Ends(r, [s EXCEPT !.active = t])
      PROVE  Ends(r, s)
  <2> DEFINE s1 == [s EXCEPT !.active = t]
  <2>1. s1 \in Session /\ Carries(s, s1)
    BY ActiveCarries
  <2>2. Carries(s1, session')
    BY <1>1 DEF Ends
  <2> HIDE DEF s1
  <2>3. Carries(s, session')
    BY <2>1, <2>2, CarriesTransitive
  <2> QED BY <1>1, <2>3 DEF Ends
<1>2. ASSUME NEW t \in TaskIds \cup {NoTask}, Return(r, q, [s EXCEPT !.active = t]),
             IF Waiting(s) = {} THEN t = NoTask /\ Queued(s) = {}
                                ELSE t \in WaitingTask(s)
      PROVE  Ends(r, s)
  <2> DEFINE s1 == [s EXCEPT !.active = t]
  <2>1. /\ s1 \in Session /\ s1.active = t /\ Shape(s1) /\ Orderly(s1)
        /\ Waiting(s1) = Waiting(s) /\ Queued(s1) = Queued(s)
        /\ Executing(s1) = Executing(s) /\ WaitingTask(s1) = WaitingTask(s)
        /\ PlanPending(s1) <=> PlanPending(s)
    BY ActiveCarries
  <2>2. Return(r, q, s1)
    BY <1>2
  <2> HIDE DEF s1
  <2>3. Rests(s1)
    BY <1>2, <2>1 DEF Rests, Settled, Idle
  <2>4. Ends(r, s1)
    BY <2>1, <2>2, <2>3, ReturnEnds
  <2> QED BY <1>1, <2>4 DEF s1
<1>3. ASSUME Waiting(s) = {}, NEW t \in NextRunnable(s, catalog),
             RunTask(r, q, [s EXCEPT !.active = t], t, FALSE)
      PROVE  Ends(r, s)
  <2> DEFINE s1 == [s EXCEPT !.active = t]
  <2>1. t \in TaskIds /\ t \in Open(s)
    BY <1>3 DEF NextRunnable, Queued, Open, TaskStatuses, TerminalStatuses
  <2>2. /\ s1 \in Session /\ s1.active = t /\ Shape(s1) /\ Orderly(s1)
        /\ Open(s1) = Open(s) /\ Waiting(s1) = Waiting(s)
        /\ Executing(s1) = Executing(s)
        /\ PlanPending(s1) <=> PlanPending(s)
    BY <2>1, ActiveCarries
  <2>3. \E resumed \in BOOLEAN : RunTask(r, q, s1, t, resumed)
    BY <1>3
  <2> HIDE DEF s1
  <2>4. Ends(r, s1)
    BY <1>3, <2>1, <2>2, <2>3, RunEnds DEF Idle
  <2> QED BY <1>1, <2>1, <2>4 DEF s1
<1>4. CASE CatalogRaises(r, q, s)
  BY <1>4, RaiseEnds
<1>5. ASSUME NEW t \in WaitingTask(s)
      PROVE  t \in TaskIds /\ Waiting(s) # {}
  BY DEF WaitingTask, Waiting
<1> QED BY <1>2, <1>3, <1>4, <1>5 DEF DrainQueue

(* What follows a run that concluded.                                       *)
LEMMA AfterRunEnds ==
  ASSUME TypeOK, NEW r \in Requests, NEW q, NEW s \in Session,
         Shape(s), Orderly(s), ~PlanPending(s), q.task \in TaskIds, s.active = q.task,
         Executing(s) = {}, Waiting(s) \subseteq {q.task},
         s.status[q.task] \in ConcludingStatuses, AfterRun(r, q, s)
  PROVE  Ends(r, s)
<1>1. Idle(s)
  BY DEF Idle
<1>2. CASE DrainQueue(r, q, s)
  BY <1>1, <1>2, DrainEnds
<1>3. CASE Return(r, q, s) /\ s.status[q.task] \notin TerminalStatuses
  <2>1. q.task \in Waiting(s)
    BY <1>3 DEF ConcludingStatuses, TerminalStatuses, Waiting
  <2>2. q.task \in WaitingTask(s)
    BY <2>1 DEF WaitingTask, Session
  <2>3. Rests(s)
    BY <1>1, <2>1, <2>2 DEF Rests, Settled
  <2> QED BY <1>3, <2>3, ReturnEnds
<1> QED BY <1>2, <1>3 DEF AfterRun

-----------------------------------------------------------------------------
(* A handler's step seen from the session it started from.                  *)

(* Closed tasks stay closed and, if the repository answers, a plan leaves   *)
(* settled.                                                                 *)
Settles(r) ==
  /\ Closes(session, session')
  /\ RepositoryAnswers /\ session.plan.id \notin {0, session'.plan.id} =>
       IF PlanPending(session)
         THEN req'[r].plan = session.plan.id
         ELSE \A i \in PlanItems(session) :
                session'.status[session.plan.task[i]] \in TerminalStatuses

Serves(r) == Leaves(r) /\ Settles(r)

(* A session without open tasks has no plan under way.                      *)
LEMMA NothingOpen ==
  ASSUME RepositoryAnswers, NEW s \in Session, Shape(s), Honest(s), Open(s) = {},
         ~PlanPending(s)
  PROVE  s.plan.status = "none"
<1>1. \A i \in PlanItems(s) : /\ s.plan.task[i] \in TaskIds
                              /\ s.status[s.plan.task[i]] \in TaskStatuses
  BY DEF PlanItems, Shape, Session, Plan
<1>2. s.plan.status \notin ExecutingPlan
  BY <1>1 DEF RepositoryAnswers, Honest, Shown, Open
<1> QED BY <1>2 DEF Session, Plan, PlanStatuses, ExecutingPlan, PlanPending

(* Whoever carries the plan settles it.                                     *)
LEMMA CarriesSettles ==
  ASSUME NEW r, Carries(session, session')
  PROVE  Settles(r)
  BY DEF Carries, Settles, PlanPending, ExecutingPlan, Closes

(* So does a handler that carries it until it has left, and works on.       *)
LEMMA LeftSettles ==
  ASSUME session \in Session, Orderly(session),
         NEW r, NEW s, Carries(session, s), Closes(s, session'),
         RepositoryAnswers => s.plan.status = "none"
  PROVE  Settles(r)
<1>1. Closes(session, session')
  BY DEF Carries, Closes
<1>2. \A i \in PlanItems(session) : session.plan.task[i] \in TaskIds
  BY DEF PlanItems, Session, Plan
<1>3. CASE s.plan = session.plan
  BY <1>1, <1>3 DEF Settles, Orderly
<1>4. CASE /\ session.plan.status \in ExecutingPlan
           /\ \A i \in PlanItems(session) :
                s.status[session.plan.task[i]] \in TerminalStatuses
  BY <1>1, <1>2, <1>4 DEF Settles, Closes, PlanPending, ExecutingPlan
<1>5. CASE ~RepositoryAnswers
  BY <1>1, <1>5 DEF Settles
<1> QED BY <1>3, <1>4, <1>5, NoPlanRests DEF Carries

(* New tasks, of intents that are not open, where nothing executes or waits *)
(* leave a session orderly.                                                 *)
LEMMA GrownOrderly ==
  ASSUME NEW s \in Session, NEW s1 \in Session, Orderly(s), Executing(s) = {},
         Waiting(s) = {}, NEW r, NEW new, Grown(r, s, s1, new),
         new \cap OpenIntents(s) = {}, ~PlanPending(s1),
         s1.plan.status = "none" => s1.plan.id = 0,
         RepositoryAnswers =>
           /\ \A t \in TaskIds : s1.status[t] # "created"
           /\ s1.plan.status \in ExecutingPlan =>
                \A t \in Open(s1) : \E i \in AllIntents : s1.plan.task[i] = t
  PROVE  Orderly(s1) /\ Idle(s1) /\ Closes(s, s1)
<1>1. \A t \in TaskIds : \/ s1.status[t] = s.status[t]
                         \/ s.status[t] = "created" /\ s1.status[t] = "queued"
                         \/ /\ t[1] = r /\ IntentOf(t) \in new /\ s.status[t] = "none"
                            /\ s1.status[t] \in {"created", "queued"}
  BY DEF Grown
<1>2. \A t \in Open(s1) : \/ t \in Open(s)
                          \/ t \in TaskIds /\ t[1] = r /\ IntentOf(t) \in new
  BY <1>1 DEF Open, TaskStatuses, TerminalStatuses
<1>3. \A t, u \in Open(s1) : IntentOf(t) = IntentOf(u) => t = u
  <2> SUFFICES ASSUME NEW t \in Open(s1), NEW u \in Open(s1), IntentOf(t) = IntentOf(u)
               PROVE  t = u
    OBVIOUS
  <2>1. CASE t \in Open(s) /\ u \in Open(s)
    BY <2>1 DEF Orderly
  <2>2. CASE t \notin Open(s) /\ u \notin Open(s)
    BY <1>2, <2>2 DEF TaskIds, IntentOf
  <2>3. \A x \in Open(s) : IntentOf(x) \notin new
    BY DEF OpenIntents
  <2> QED BY <1>2, <2>1, <2>2, <2>3
<1>4. Executing(s1) = {} /\ Waiting(s1) = {}
  BY <1>1 DEF Executing, Waiting, ExecutingStatuses, WaitingStatuses
<1>5. Closes(s, s1)
  BY <1>1 DEF Closes, TerminalStatuses
<1> QED BY <1>3, <1>4, <1>5 DEF Orderly, Idle

(* What is created is queued.                                               *)
LEMMA QueueLeavesNoneCreated ==
  ASSUME NEW s \in Session
  PROVE  \A t \in TaskIds : QueuePendingTasks(s).status[t] # "created"
<1> DEFINE st == [t \in TaskIds |-> IF s.status[t] = "created" THEN "queued"
                                                             ELSE s.status[t]]
<1>1. QueuePendingTasks(s).status = st
  BY QueueDoes
<1>2. \A t \in TaskIds : st[t] # "created"
  OBVIOUS
<1> QED BY <1>1, <1>2

(* A handler that dispatches when nothing executes or waits any more.       *)
LEMMA DispatchServes ==
  ASSUME TypeOK, Orderly(session), NEW r \in Requests, NEW q,
         NEW s \in Session, NEW rec \in Recognition, Fresh(r, s), Shape(s), Honest(s),
         Orderly(s), Executing(s) = {}, Waiting(s) = {}, RepositoryAnswers => Open(s) = {},
         ~PlanPending(s), Carries(session, s), DispatchRecognition(r, q, s, rec)
  PROVE  Serves(r)
<1> DEFINE planned == Planned(s, rec.primary)
           new     == planned \cup (IF FallbackDue(s, rec.primary)
                                      THEN {Fallback} ELSE {})
           s1      == CreateTasks(s, r, new, rec.conf)
           s2      == QueuePendingTasks(s1)
<1>1. /\ rec.conf \in [AllIntents -> Confidence] /\ rec.primary \in SUBSET AllIntents
      /\ session \in Session /\ Idle(s)
  BY DEF Recognition, TypeOK, Idle
<1>2. /\ new \in SUBSET AllIntents /\ new \cap OpenIntents(s) = {}
      /\ planned \cap OpenIntents(s) = {}
  BY <1>1 DEF Planned, FallbackDue, AllIntents
<1>3. RepositoryAnswers => s.plan.status = "none"
  BY NothingOpen
<1>4. ASSUME NEW s3 \in Session, Closes(s, s3), Ends(r, s3)
      PROVE  Serves(r)
  <2>1. Closes(s, session')
    BY <1>4 DEF Ends, Carries, Closes
  <2> QED BY <1>1, <1>3, <1>4, <2>1, LeftSettles DEF Ends, Serves
<1>5. CASE CatalogRaises(r, q, s)
  BY <1>1, <1>4, <1>5, RaiseEnds DEF Closes
<1>6. CASE Return(r, q, ProposePlan(s, planned, rec.conf))
  <2> DEFINE s3 == ProposePlan(s, planned, rec.conf)
  <2> HIDE DEF planned
  <2>1. /\ s3 \in Session /\ SameTasks(s, s3) /\ s3.active = NoTask
        /\ PlanPending(s3) /\ Shape(s3)
        /\ \A i \in AllIntents : s3.plan.item[i] # "none" => i \in planned
    BY <1>1, ProposePlanType, ProposeDoes
  <2>2. Return(r, q, s3)
    BY <1>6
  <2> HIDE DEF s3
  <2>3. /\ Open(s3) = Open(s) /\ Queued(s3) = Queued(s) /\ Waiting(s3) = Waiting(s)
        /\ Executing(s3) = Executing(s) /\ Closes(s, s3)
        /\ \A t \in TaskIds : s3.status[t] = s.status[t]
    BY <2>1 DEF SameTasks, Open, Queued, Waiting, Executing, Closes
  <2>4. \A t \in Open(s3) : s3.plan.item[IntentOf(t)] = "none"
    <3>1. \A t \in Open(s) : IntentOf(t) \in AllIntents /\ IntentOf(t) \notin planned
      BY <1>2 DEF OpenIntents, Open, TaskIds, IntentOf
    <3> QED BY <2>1, <2>3, <3>1
  <2>5. Orderly(s3)
    BY <2>1, <2>3, <2>4 DEF Orderly, PlanPending, ExecutingPlan
  <2>6. RepositoryAnswers => Queued(s) = {}
    BY DEF Open, Queued, TaskStatuses, TerminalStatuses
  <2>7. Rests(s3)
    BY <2>1, <2>3, <2>6 DEF Rests, Settled, Idle
  <2> QED BY <1>1, <1>4, <2>1, <2>2, <2>3, <2>5, <2>7, ReturnEnds
<1>7. CASE CatalogRaises(r, q, s1) \/ DrainQueue(r, q, s2)
  <2> HIDE DEF new
  <2>1. /\ s1 \in Session /\ s1.plan = s.plan /\ Grown(r, s, s1, new)
        /\ s2 \in Session /\ s2.plan = s.plan /\ Grown(r, s, s2, new)
    BY <1>1, <1>2, CreateGrows
  <2>2. \A t \in TaskIds : s2.status[t] # "created"
    BY <2>1, QueueLeavesNoneCreated
  <2>3. CatalogRaises(r, q, s1) => ~RepositoryAnswers
    BY DEF CatalogRaises, RepositoryAnswers
  <2> HIDE DEF s1, s2
  <2>4. ~PlanPending(s1) /\ ~PlanPending(s2) /\ (s.plan.status = "none" => s.plan.id = 0)
    BY <2>1 DEF PlanPending, Orderly
  <2>5. RepositoryAnswers => s.plan.status \notin ExecutingPlan
    BY <1>3, NoPlanRests
  <2>6. CASE CatalogRaises(r, q, s1)
    <3>1. Orderly(s1) /\ Idle(s1) /\ Closes(s, s1)
      BY <1>2, <2>1, <2>3, <2>4, <2>6, GrownOrderly
    <3> QED BY <1>4, <2>1, <2>4, <2>6, <3>1, RaiseEnds
  <2>7. CASE DrainQueue(r, q, s2)
    <3>1. Orderly(s2) /\ Idle(s2) /\ Closes(s, s2)
      BY <1>2, <2>1, <2>2, <2>4, <2>5, GrownOrderly
    <3>2. Shape(s2)
      BY <2>1, GrownKeepsCard
    <3> QED BY <1>4, <2>1, <2>4, <2>7, <3>1, <3>2, DrainEnds
  <2> QED BY <1>7, <2>6, <2>7
<1> QED BY <1>5, <1>6, <1>7 DEF DispatchRecognition

(* A handler that confirms the pending plan.                                *)
LEMMA ConfirmServes ==
  ASSUME TypeOK, NEW r \in Requests, NEW q \in Request,
         Fresh(r, session), Shape(session), Orderly(session), Rests(session),
         PlanPending(session), ConfirmPendingPlan(r, q)
  PROVE  Serves(r)
<1> DEFINE q1 == [q EXCEPT !.plan = session.plan.id, !.verdict = "confirm"]
           s1 == ConfirmItems(session, r)
           s2 == QueuePendingTasks(s1)
<1>1. /\ session \in Session /\ Executing(session) = {} /\ Waiting(session) = {}
      /\ RepositoryAnswers => Open(session) = {}
  BY DEF TypeOK, Rests, Settled, Idle
<1>2. q1.plan = session.plan.id /\ q1.verdict = "confirm"
  BY DEF Request
<1>3. /\ s1 \in Session /\ Shape(s1) /\ Shown(s1) /\ s1.plan.status = "running"
      /\ \E new \in SUBSET AllIntents :
           Grown(r, session, s1, new) /\ \A i \in new : session.plan.item[i] # "none"
      /\ \A t \in TaskIds : s1.status[t] # session.status[t] =>
           \E i \in AllIntents : s1.plan.task[i] = t
  BY <1>1, ConfirmItemsType, ConfirmItemsDoes
<1>4. \/ CatalogRaises(r, req[r], session)
      \/ CatalogRaises(r, q1, s1)
      \/ DrainQueue(r, q1, s2)
  BY DEF ConfirmPendingPlan
<1>5. CASE CatalogRaises(r, req[r], session)
  <2>1. Ends(r, session) /\ Carries(session, session)
    BY <1>1, <1>5, RaiseEnds DEF Rests, Carries, Closes
  <2> QED BY <1>1, <2>1, CarriesSettles DEF Ends, Serves
<1> HIDE DEF q1, s1
<1>6. /\ s2 \in Session /\ s2.plan = s1.plan
      /\ \A t \in TaskIds : s2.status[t] = IF s1.status[t] = "created" THEN "queued"
                                                                       ELSE s1.status[t]
  <2>1. s1 \in Session
    BY <1>3
  <2> QED BY <2>1, QueuePendingTasksType, QueueDoes
<1> HIDE DEF s2
<1>7. PICK new \in SUBSET AllIntents :
        /\ Grown(r, session, s1, new) /\ Grown(r, session, s2, new)
        /\ \A i \in new : session.plan.item[i] # "none"
  BY <1>3, <1>6 DEF Grown
<1>8. new \cap OpenIntents(session) = {}
  BY <1>7 DEF Orderly, OpenIntents
<1>9. /\ ~PlanPending(s1) /\ ~PlanPending(s2)
      /\ s1.plan.status # "none" /\ s2.plan.status # "none"
  BY <1>3, <1>6 DEF PlanPending
<1>10. CASE CatalogRaises(r, q1, s1)
  <2>1. ~RepositoryAnswers
    BY <1>10 DEF CatalogRaises, RepositoryAnswers
  <2>2. Orderly(s1) /\ Idle(s1) /\ Closes(session, s1)
    BY <1>1, <1>3, <1>7, <1>8, <1>9, <2>1, GrownOrderly
  <2>3. Ends(r, s1)
    BY <1>3, <1>9, <1>10, <2>2, RaiseEnds
  <2>4. Closes(session, session')
    BY <2>2, <2>3 DEF Ends, Carries, Closes
  <2> QED BY <2>1, <2>3, <2>4 DEF Serves, Ends, Settles
<1>11. CASE DrainQueue(r, q1, s2)
  <2>1. ASSUME RepositoryAnswers
        PROVE  /\ \A t \in TaskIds : s2.status[t] # "created"
               /\ \A t \in Open(s2) : \E i \in AllIntents : s2.plan.task[i] = t
    <3> SUFFICES ASSUME NEW t \in Open(s2)
                 PROVE  s1.status[t] # session.status[t] /\ t \in TaskIds
      BY <1>3, <1>6
    <3> QED BY <1>1, <1>6, <2>1 DEF Open, Orderly, TaskStatuses, TerminalStatuses
  <2>2. Orderly(s2) /\ Idle(s2) /\ Closes(session, s2)
    BY <1>1, <1>6, <1>7, <1>8, <1>9, <2>1, GrownOrderly
  <2>3. Shape(s2) /\ Shown(s2)
    BY <1>3, <1>6, CardKept
  <2>4. Ends(r, s2)
    BY <1>6, <1>9, <1>11, <2>2, <2>3, DrainEnds
  <2>5. Ready(q1, s2)
    BY <1>2, <1>3, <1>6, <2>3 DEF Ready
  <2>6. req'[r].plan = session.plan.id
    BY <1>2, <1>11, <2>5, DrainQueueTurns DEF Turns, Turned
  <2>7. Closes(session, session')
    BY <2>2, <2>4 DEF Ends, Carries, Closes
  <2> QED BY <2>4, <2>6, <2>7 DEF Serves, Ends, Settles
<1> QED BY <1>4, <1>5, <1>10, <1>11

(* Or that drops it.                                                        *)
LEMMA CancelPlanServes ==
  ASSUME TypeOK, NEW r \in Requests, NEW q \in Request,
         Orderly(session), Rests(session), PlanPending(session),
         CancelPendingPlan(r, q)
  PROVE  Serves(r)
<1> DEFINE q1 == [q EXCEPT !.plan = session.plan.id, !.verdict = "cancel"]
           s1 == [session EXCEPT !.plan = NoPlan]
<1>1. session \in Session /\ q1.plan = session.plan.id
  BY DEF TypeOK, Request
<1>2. /\ s1 \in Session /\ s1.plan = NoPlan /\ s1.status = session.status
      /\ s1.at = session.at /\ s1.active = session.active
  BY <1>1, NoPlanType DEF Session
<1>3. Return(r, q1, s1)
  BY DEF CancelPendingPlan
<1> HIDE DEF q1, s1
<1>4. /\ Open(s1) = Open(session) /\ Waiting(s1) = Waiting(session)
      /\ Queued(s1) = Queued(session) /\ Executing(s1) = Executing(session)
  BY <1>2 DEF Open, Waiting, Queued, Executing
<1>5. WaitingTask(s1) = WaitingTask(session)
  BY <1>2, <1>4 DEF WaitingTask
<1>6. Orderly(s1) /\ Rests(s1)
  BY <1>2, <1>4, <1>5, NoPlanRests
     DEF Orderly, Rests, Settled, Idle, PlanPending
<1>7. Shape(s1) /\ Honest(s1)
  BY <1>2, NoPlanShape
<1>8. Ends(r, s1)
  BY <1>2, <1>3, <1>6, <1>7, ReturnEnds
<1>9. req'[r].plan = session.plan.id
  BY <1>1, <1>2, <1>3, <1>7, HonestReady, ReturnTurns DEF Turns, Turned
<1>10. Closes(session, session')
  BY <1>2, <1>8 DEF Ends, Carries, Closes
<1> QED BY <1>8, <1>9, <1>10 DEF Serves, Ends, Settles

-----------------------------------------------------------------------------
(* The actions.                                                             *)

(* No other request is in flight.                                           *)
Alone(r) == \A x \in Requests \ {r} : ~InFlight(x)

(* What the handler that acts can rely on.                                  *)
LEMMA Known ==
  ASSUME SerialInv, NEW r \in Requests
  PROVE  /\ TypeOK /\ session \in Session /\ req[r] \in Request /\ HasTask(req[r])
         /\ Shape(session) /\ Honest(session) /\ Hands(r, session, req[r])
         /\ Orderly(session)
         /\ InFlight(r) => InHand(session, req[r]) /\ Alone(r)
         /\ MaySend(r) /\ ~Concurrent =>
              Rests(session) /\ Alone(r) /\ Fresh(r, session)
  BY DEF SerialInv, StepInv, Inv, TypeOK, Alone, MaySend, Hands

(* A handler that awaits, or ends, and leaves the session as it is.         *)
LEMMA AwaitServes ==
  ASSUME TypeOK, Orderly(session), NEW r \in Requests, NEW q,
         Await(r, q, session), Placed(session, q)
  PROVE  Serves(r)
<1>1. session' = session /\ req'[r] = q /\ Only(r)
  BY DEF TypeOK, Await, Only
<1>2. Settles(r)
  BY <1>1 DEF Settles, Closes
<1> QED BY <1>1, <1>2 DEF Serves, Leaves

(* A handler that ends, or runs a task, where it leaves the plan.           *)
LEMMA EndsServes ==
  ASSUME session \in Session, NEW r, NEW s, Carries(session, s), Ends(r, s)
  PROVE  Serves(r)
  BY CarriesTransitive, CarriesSettles DEF Ends, Serves

(* In a session that rests without waiting tasks, nothing is open.          *)
LEMMA NothingWaits ==
  ASSUME RepositoryAnswers, NEW s \in Session, Orderly(s), Executing(s) = {},
         Waiting(s) = {}, Queued(s) = {}
  PROVE  Open(s) = {}
  BY DEF Orderly, Open, Executing, Waiting, Queued, TaskStatuses, TerminalStatuses

(* handle_user_message.                                                     *)
LEMMA HandleUserMessageServes ==
  ASSUME Serial, SerialInv, NEW r \in Requests, NEW m \in Messages,
         HandleUserMessage(r, m)
  PROVE  Serves(r) /\ Alone(r)
<1> DEFINE q == [req[r] EXCEPT !.message = m]
           asked(pc, t) == [q EXCEPT !.pc = pc, !.task = t, !.known = ListActive]
<1>1. /\ TypeOK /\ session \in Session /\ req[r] \in Request
      /\ Shape(session) /\ Honest(session) /\ Fresh(r, session) /\ Orderly(session)
      /\ Rests(session) /\ Alone(r)
  BY Known DEF Serial, HandleUserMessage
<1>2. q \in Request
  BY <1>1 DEF Request
<1>3. ASSUME ~PlanPending(session), NEW t \in WaitingTask(session),
             Await(r, asked("switching", t), session)
      PROVE  Serves(r)
  <2> HIDE DEF q
  <2>1. asked("switching", t).pc = "switching" /\ asked("switching", t).task = t
    BY <1>2 DEF Request
  <2>2. Waiting(session) = {t} /\ Executing(session) = {}
    BY <1>1 DEF Rests, Idle, WaitingTask
  <2> HIDE DEF asked
  <2>3. Placed(session, asked("switching", t))
    BY <1>3, <2>1, <2>2 DEF Placed, InHand, Awaiting
  <2> QED BY <1>1, <1>3, <2>3, AwaitServes
<1>4. ASSUME ~PlanPending(session), Waiting(session) = {},
             Await(r, asked("recognizing", NoTask), session)
      PROVE  Serves(r)
  <2> HIDE DEF q
  <2>1. asked("recognizing", NoTask).pc = "recognizing"
    BY <1>2 DEF Request
  <2>2. Executing(session) = {} /\ (RepositoryAnswers => Open(session) = {})
    BY <1>1, <1>4, NothingWaits DEF Rests, Settled, Idle
  <2> HIDE DEF asked
  <2>3. Placed(session, asked("recognizing", NoTask))
    BY <1>4, <2>1, <2>2 DEF Placed, InHand, Awaiting
  <2> QED BY <1>1, <1>4, <2>3, AwaitServes
<1> HIDE DEF q
<1>5. CASE Return(r, q, session)
  <2>1. Carries(session, session)
    BY DEF Carries, Closes
  <2> QED BY <1>1, <1>5, <2>1, ReturnEnds, EndsServes
<1>6. CASE PlanPending(session) /\ (ConfirmPendingPlan(r, q) \/ CancelPendingPlan(r, q))
  BY <1>1, <1>2, <1>6, ConfirmServes, CancelPlanServes
<1>7. CASE CatalogRaises(r, q, session)
  <2>1. Ends(r, session) /\ Carries(session, session)
    BY <1>1, <1>7, RaiseEnds DEF Rests, Carries, Closes
  <2> QED BY <1>1, <2>1, EndsServes
<1> QED BY <1>1, <1>3, <1>4, <1>5, <1>6, <1>7 DEF HandleUserMessage, q

(* handle_action.                                                           *)
LEMMA HandleActionServes ==
  ASSUME Serial, SerialInv, NEW r \in Requests, NEW a, NEW token \in 0..session.plans,
         HandleAction(r, a, token)
  PROVE  Serves(r) /\ Alone(r)
<1> DEFINE q == [req[r] EXCEPT !.token = token]
<1>1. /\ TypeOK /\ session \in Session /\ req[r] \in Request
      /\ Shape(session) /\ Fresh(r, session) /\ Orderly(session)
      /\ Rests(session) /\ Alone(r)
  BY Known DEF Serial, HandleAction
<1>2. q \in Request
  BY <1>1 DEF Request, Session
<1> HIDE DEF q
<1>3. CASE PlanPending(session) /\ (ConfirmPendingPlan(r, q) \/ CancelPendingPlan(r, q))
  BY <1>1, <1>2, <1>3, ConfirmServes, CancelPlanServes
<1>4. CASE Await(r, Cleared(req[r], "rejected"), session)
  <2>1. Placed(session, Cleared(req[r], "rejected"))
    BY <1>1, ClearedDoes DEF Placed, Awaiting
  <2> QED BY <1>1, <1>4, <2>1, AwaitServes
<1> QED BY <1>1, <1>3, <1>4 DEF HandleAction, q

(* The rest of a switch once its one waiting task is cancelled.             *)
LEMMA CancelAnsweredServes ==
  ASSUME Serial, SerialInv, NEW r \in Requests, CancelAnswered(r)
  PROVE  Serves(r) /\ Alone(r)
<1> DEFINE s  == Report(session, req[r].task, "cancelled")
           s0 == CancelAll(s, req[r].drop)
           s1 == [s0 EXCEPT !.active = NoTask]
<1>1. InFlight(r) /\ req[r].pc = "cancelling"
  BY DEF CancelAnswered, InFlight, Awaiting
<1>2. /\ TypeOK /\ session \in Session /\ req[r] \in Request /\ Fresh(r, session)
      /\ Shape(session) /\ Orderly(session) /\ Alone(r) /\ InHand(session, req[r])
  BY <1>1, Known DEF Hands
<1>3. /\ ~PlanPending(session) /\ Waiting(session) = {req[r].task}
      /\ Executing(session) = {} /\ req[r].todo = {} /\ req[r].drop = Queued(session)
      /\ req[r].rec \in Recognition
  BY <1>1, <1>2 DEF InHand, Request
<1>4. /\ req[r].task \in Open(session) /\ req[r].task \in TaskIds
      /\ "cancelled" \in TaskStatuses /\ req[r].drop \in SUBSET TaskIds
  BY <1>3 DEF Waiting, Queued, Open, TaskStatuses, TerminalStatuses, WaitingStatuses
<1>5. /\ s \in Session /\ Carries(session, s) /\ Shape(s) /\ Honest(s)
      /\ \A t \in TaskIds :
           s.status[t] = IF t = req[r].task THEN "cancelled" ELSE session.status[t]
  <2>1. s.status = [session.status EXCEPT ![req[r].task] = "cancelled"]
    BY <1>2, <1>4, ReportDoes
  <2> QED BY <1>2, <1>4, <2>1, ReportType, ReportCarries, ReportMends DEF Session
<1>6. CancelTasks(r, req[r], s, req[r].todo)
  BY DEF CancelAnswered
<1>7. IF req[r].idle THEN Return(r, req[r], s1)
                     ELSE DispatchRecognition(r, req[r], s1, req[r].rec)
  BY <1>3, <1>6 DEF CancelTasks, NextToCancel
<1> HIDE DEF s
<1>8. \A t \in req[r].drop : s.status[t] # "none"
  BY <1>3, <1>4, <1>5 DEF Queued
<1>9. /\ s0 \in Session /\ Carries(s, s0) /\ Ended(s, s0) /\ Shape(s0) /\ Honest(s0)
  BY <1>4, <1>5, <1>8, CancelAllCarries, CancelAllEnds
<1>10. \A t \in TaskIds :
         s0.status[t] = IF t \in req[r].drop /\ s.status[t] \notin TerminalStatuses
                          THEN "cancelled" ELSE s.status[t]
  BY <1>4, <1>5, CancelAllDoes
<1> HIDE DEF s0
<1>11. /\ s1 \in Session /\ SameTasks(s0, s1) /\ Shape(s1) /\ Honest(s1)
       /\ s1.active = NoTask /\ s1.plan = s0.plan
  BY <1>9, ActiveKeeps
<1> HIDE DEF s1
<1>12. ASSUME NEW t \in TaskIds
       PROVE  /\ s1.status[t] \in {"none", "created"} \cup TerminalStatuses
              /\ s1.status[t] \notin TerminalStatuses => s1.status[t] = session.status[t]
              /\ session.status[t] = "none" => s1.status[t] = "none"
  <2>1. \/ t = req[r].task \/ t \in req[r].drop
        \/ session.status[t] \in TerminalStatuses \cup {"none", "created"}
    BY <1>2, <1>3 DEF Waiting, Queued, Executing, Session, TaskStatuses
  <2>2. session.status[t] = "none" => t # req[r].task /\ t \notin req[r].drop
    BY <1>3, <1>4, <1>5, <1>8 DEF Open, TaskStatuses, ExecutingStatuses,
                                   WaitingStatuses, TerminalStatuses
  <2> QED BY <1>5, <1>10, <1>11, <2>1, <2>2
          DEF SameTasks, TaskStatuses, ExecutingStatuses, WaitingStatuses, TerminalStatuses
<1>13. Open(s1) \subseteq Open(session)
  BY <1>12 DEF Open, TaskStatuses
<1>14. /\ Queued(s1) = {} /\ Waiting(s1) = {} /\ Executing(s1) = {}
       /\ RepositoryAnswers => Open(s1) = {}
  <2>1. Queued(s1) = {} /\ Waiting(s1) = {} /\ Executing(s1) = {}
    BY <1>12 DEF Queued, Waiting, Executing, TaskStatuses, WaitingStatuses,
                 ExecutingStatuses, TerminalStatuses
  <2>2. ASSUME RepositoryAnswers
        PROVE  \A t \in TaskIds : s1.status[t] # "created"
    BY <1>2, <1>12, <2>2 DEF Orderly, TerminalStatuses
  <2>3. RepositoryAnswers => Open(s1) = {}
    BY <1>12, <2>2 DEF Open, TaskStatuses, WaitingStatuses, ExecutingStatuses,
                       TerminalStatuses
  <2> QED BY <2>1, <2>3
<1>15. Carries(session, s1)
  <2>1. Carries(s0, s1)
    BY <1>11 DEF Carries, Closes, SameTasks
  <2> QED BY <1>2, <1>5, <1>9, <2>1, CarriesTransitive
<1>16. Orderly(s1) /\ Rests(s1) /\ ~PlanPending(s1) /\ Fresh(r, s1)
  <2>1. Orderly(s1)
    <3>1. \A t \in TaskIds : s1.status[t] = "created" => session.status[t] = "created"
      BY <1>12 DEF TerminalStatuses
    <3> QED BY <1>2, <1>11, <1>13, <1>15, <3>1, OrderlyKept
  <2>2. ~PlanPending(s1)
    BY <1>3, <1>15, CarriesPending DEF PlanPending
  <2>3. Fresh(r, s1)
    BY <1>2, <1>12 DEF Fresh, TaskIds
  <2> QED BY <1>11, <1>14, <2>1, <2>2, <2>3 DEF Rests, Settled, Idle
<1>17. CASE Return(r, req[r], s1)
  BY <1>2, <1>11, <1>15, <1>16, <1>17, ReturnEnds, EndsServes
<1>18. CASE DispatchRecognition(r, req[r], s1, req[r].rec)
  BY <1>2, <1>3, <1>11, <1>14, <1>15, <1>16, <1>18, DispatchServes
<1> QED BY <1>2, <1>7, <1>17, <1>18 DEF s1

(* A message that resumes the task it found waiting.                        *)
LEMMA ResumeServes ==
  ASSUME TypeOK, NEW r \in Requests, NEW q, NEW t \in TaskIds,
         Shape(session), Orderly(session), ~PlanPending(session),
         Waiting(session) = {t}, Executing(session) = {},
         ResumeWaitingTask(r, q, session, t)
  PROVE  Serves(r)
<1> DEFINE s0 == Touch(session, t, "resuming")
           s1 == [s0 EXCEPT !.active = t]
<1>1. session \in Session /\ "resuming" \in TaskStatuses /\ t \in Open(session)
  BY DEF TypeOK, Waiting, Open, TaskStatuses, ExecutingStatuses, WaitingStatuses,
         TerminalStatuses
<1>2. /\ s0 \in Session /\ s0.plan = session.plan /\ Carries(session, s0)
      /\ s0.status = [session.status EXCEPT ![t] = "resuming"]
  BY <1>1, TouchType, TouchDoes, TouchCarries
<1>3. \E resumed \in BOOLEAN : RunTask(r, q, s1, t, resumed)
  BY DEF ResumeWaitingTask
<1> HIDE DEF s0
<1>4. \A u \in TaskIds :
        s0.status[u] = IF u = t THEN "resuming" ELSE session.status[u]
  BY <1>1, <1>2 DEF Session
<1>5. t \in Open(s0) /\ Open(s0) \subseteq Open(session)
  BY <1>1, <1>4 DEF Open, TerminalStatuses
<1>6. Executing(s0) = {t} /\ Waiting(s0) = {}
  BY <1>4 DEF Executing, Waiting, ExecutingStatuses, WaitingStatuses
<1>7. Shape(s0) /\ Orderly(s0) /\ ~PlanPending(s0)
  <2>1. \A u \in TaskIds : s0.status[u] = "created" => session.status[u] = "created"
    BY <1>4
  <2>2. \A u \in TaskIds : session.status[u] # "none" => s0.status[u] # "none"
    BY <1>4
  <2> QED BY <1>1, <1>2, <1>5, <2>1, <2>2, OrderlyKept, ShapeKept DEF PlanPending
<1>8. /\ s1 \in Session /\ s1.active = t /\ Carries(s0, s1)
      /\ Shape(s1) /\ Orderly(s1) /\ Open(s1) = Open(s0)
      /\ Waiting(s1) = Waiting(s0) /\ Executing(s1) = Executing(s0)
      /\ PlanPending(s1) <=> PlanPending(s0)
  BY <1>2, <1>7, ActiveCarries
<1> HIDE DEF s1
<1>9. Ends(r, s1)
  BY <1>3, <1>5, <1>6, <1>7, <1>8, RunEnds
<1>10. Carries(session, s1)
  BY <1>1, <1>2, <1>8, CarriesTransitive
<1> QED BY <1>1, <1>9, <1>10, EndsServes

(* The recognizer's answer.                                                 *)
LEMMA RecognizedServes ==
  ASSUME Serial, SerialInv, NEW r \in Requests, Recognized(r)
  PROVE  Serves(r) /\ Alone(r)
<1>1. InFlight(r)
  BY DEF Recognized, InFlight, Awaiting
<1>2. /\ TypeOK /\ session \in Session /\ req[r] \in Request /\ HasTask(req[r])
      /\ Shape(session) /\ Honest(session) /\ Orderly(session) /\ Alone(r)
      /\ InHand(session, req[r]) /\ Hands(r, session, req[r])
  BY <1>1, Known
<1>3. PICK rec \in Recognitions(req[r].known) :
        \/ /\ req[r].pc = "recognizing"
           /\ DispatchRecognition(r, [req[r] EXCEPT !.known = {}, !.message = "none"],
                                  session, rec)
        \/ req[r].pc = "switching" /\ SwitchOrResume(r, [req[r] EXCEPT !.known = {}], rec)
  BY DEF Recognized
<1>4. rec \in Recognition
  BY DEF Recognitions, Recognition
<1>5. CASE /\ req[r].pc = "recognizing"
           /\ DispatchRecognition(r, [req[r] EXCEPT !.known = {}, !.message = "none"],
                                  session, rec)
  <2> DEFINE q == [req[r] EXCEPT !.known = {}, !.message = "none"]
  <2>1. DispatchRecognition(r, q, session, rec)
    BY <1>5
  <2>2. /\ Executing(session) = {} /\ Waiting(session) = {}
        /\ RepositoryAnswers => Open(session) = {}
        /\ ~PlanPending(session) /\ Fresh(r, session)
    BY <1>2, <1>5 DEF InHand, Hands
  <2>3. Carries(session, session)
    BY DEF Carries, Closes
  <2> HIDE DEF q
  <2> QED BY <1>2, <1>4, <2>1, <2>2, <2>3, DispatchServes
<1>6. CASE req[r].pc = "switching" /\ SwitchOrResume(r, [req[r] EXCEPT !.known = {}], rec)
  <2> DEFINE q == [req[r] EXCEPT !.known = {}]
  <2>1. q \in Request /\ q.task = req[r].task
    BY <1>2 DEF Request
  <2>2. /\ q.task \in TaskIds /\ Waiting(session) = {q.task}
        /\ Executing(session) = {} /\ ~PlanPending(session)
    BY <1>2, <1>6, <2>1 DEF HasTask, Awaiting, InHand
  <2>3. SwitchOrResume(r, q, rec)
    BY <1>6
  <2> HIDE DEF q
  <2>4. CASE ResumeWaitingTask(r, q, session, q.task)
    BY <1>2, <2>2, <2>4, ResumeServes
  <2>5. ASSUME NEW promoted \in Promoted(rec, q.task), NEW idle \in BOOLEAN,
               CancelTasks(r, [q EXCEPT !.rec = promoted, !.drop = Queued(session),
                                        !.idle = idle], session, Waiting(session))
        PROVE  Serves(r)
    <3> DEFINE q1 == [q EXCEPT !.rec = promoted, !.drop = Queued(session), !.idle = idle]
               q2 == [q1 EXCEPT !.pc = "cancelling", !.task = q.task, !.todo = {}]
    <3>1. promoted \in Recognition /\ Queued(session) \in SUBSET TaskIds
      BY <1>4, PromotedType DEF Queued
    <3>2. q1 \in Request /\ q1.drop = Queued(session)
      BY <2>1, <3>1 DEF Request
    <3>3. NextToCancel(session, Waiting(session)) = {q.task}
      <4>1. session.status[q.task] \notin TerminalStatuses
        BY <2>2 DEF Waiting, WaitingStatuses, TerminalStatuses
      <4>2. ~(session.born[q.task] < session.born[q.task])
        BY <1>2, <2>2 DEF Session
      <4> QED BY <2>2, <4>1, <4>2 DEF NextToCancel
    <3>4. CancelTasks(r, q1, session, {q.task})
      BY <2>2, <2>5
    <3> HIDE DEF q1
    <3>5. Await(r, q2, session)
      <4>1. {u \in {q.task} \ {q.task} : session.born[u] >= session.born[q.task]} = {}
        OBVIOUS
      <4> QED BY <2>2, <3>3, <3>4, <4>1 DEF CancelTasks
    <3>6. q2.pc = "cancelling" /\ q2.task = q.task /\ q2.todo = {} /\ q2.drop = q1.drop
      BY <3>2 DEF Request
    <3> HIDE DEF q2
    <3>7. Placed(session, q2)
      BY <2>2, <3>2, <3>6 DEF Placed, InHand, Awaiting
    <3> QED BY <1>2, <3>5, <3>7, AwaitServes
  <2>6. Serves(r)
    BY <2>3, <2>4, <2>5 DEF SwitchOrResume
  <2> QED BY <1>2, <2>6
<1> QED BY <1>2, <1>3, <1>5, <1>6

(* The last chunk of a stream, or its timeout, and the others.              *)
LEMMA AgentServes ==
  ASSUME Serial, SerialInv, NEW r \in Requests,
         \/ \E status \in AgentStatuses : AgentChunk(r, status)
         \/ StreamEnds(r)
         \/ Timeout(r)
  PROVE  Serves(r) /\ Alone(r)
<1>1. InFlight(r) /\ req[r].pc = "streaming"
  BY DEF AgentChunk, StreamEnds, Timeout, InFlight, Awaiting
<1>2. /\ TypeOK /\ session \in Session /\ req[r] \in Request /\ HasTask(req[r])
      /\ Shape(session) /\ Orderly(session) /\ Alone(r) /\ InHand(session, req[r])
  BY <1>1, Known
<1>3. /\ ~PlanPending(session) /\ Waiting(session) = {}
      /\ Executing(session) = {req[r].task} /\ session.active = req[r].task
      /\ req[r].task \in TaskIds /\ req[r].task \in Open(session)
  BY <1>1, <1>2 DEF InHand, HasTask, Awaiting, Executing, Open, TaskStatuses,
                    ExecutingStatuses, TerminalStatuses
<1>4. ASSUME NEW status \in TaskStatuses, status # "created"
      PROVE  LET s == Report(session, req[r].task, status)
             IN  /\ s \in Session /\ Shape(s) /\ Orderly(s) /\ Carries(session, s)
                 /\ ~PlanPending(s) /\ s.active = req[r].task
                 /\ s.status[req[r].task] = status
                 /\ Waiting(s) \subseteq {req[r].task}
                 /\ Executing(s) = {req[r].task} \cap {t \in TaskIds : status \in ExecutingStatuses}
                 /\ status \in ExecutingStatuses => Waiting(s) = {}
  <2> DEFINE s == Report(session, req[r].task, status)
  <2>1. /\ s \in Session /\ Shape(s) /\ Carries(session, s) /\ s.active = req[r].task
        /\ s.status = [session.status EXCEPT ![req[r].task] = status]
    BY <1>2, <1>3, ReportType, ReportDoes, ReportMends, ReportCarries
  <2> HIDE DEF s
  <2>2. \A t \in TaskIds : s.status[t] = IF t = req[r].task THEN status
                                                             ELSE session.status[t]
    BY <1>2, <1>3, <2>1 DEF Session
  <2>3. Open(s) \subseteq Open(session)
    BY <1>3, <2>2 DEF Open
  <2>4. Orderly(s)
    <3>1. \A t \in TaskIds : s.status[t] = "created" => session.status[t] = "created"
      BY <1>4, <2>2
    <3> QED BY <1>2, <2>1, <2>3, <3>1, OrderlyKept
  <2>5. ~PlanPending(s)
    BY <1>3, <2>1, CarriesPending DEF PlanPending
  <2>6. /\ Waiting(s) \subseteq {req[r].task}
        /\ status \in ExecutingStatuses => Waiting(s) = {}
    BY <1>3, <2>2 DEF Waiting, WaitingStatuses, ExecutingStatuses
  <2>7. Executing(s) = {req[r].task} \cap {t \in TaskIds : status \in ExecutingStatuses}
    BY <1>3, <2>2 DEF Executing
  <2> QED BY <1>3, <2>1, <2>2, <2>4, <2>5, <2>6, <2>7 DEF s
<1>5. ASSUME NEW status \in ConcludingStatuses,
             AfterRun(r, req[r], Report(session, req[r].task, status))
      PROVE  Serves(r)
  <2> DEFINE s == Report(session, req[r].task, status)
  <2>1. status \in TaskStatuses /\ status # "created" /\ status \notin ExecutingStatuses
    BY DEF ConcludingStatuses, TaskStatuses, WaitingStatuses, TerminalStatuses,
           ExecutingStatuses
  <2>2. /\ s \in Session /\ Shape(s) /\ Orderly(s) /\ Carries(session, s)
        /\ ~PlanPending(s) /\ s.active = req[r].task
        /\ s.status[req[r].task] = status
        /\ Waiting(s) \subseteq {req[r].task} /\ Executing(s) = {}
    BY <1>4, <2>1
  <2>3. AfterRun(r, req[r], s)
    BY <1>5
  <2> HIDE DEF s
  <2>4. Ends(r, s)
    BY <1>2, <1>3, <2>2, <2>3, AfterRunEnds
  <2> QED BY <1>2, <2>2, <2>4, EndsServes
<1>6. ASSUME NEW status \in AgentStatuses, status \notin ConcludingStatuses,
             Await(r, req[r], Report(session, req[r].task, status))
      PROVE  Serves(r)
  <2> DEFINE s == Report(session, req[r].task, status)
  <2>1. status \in TaskStatuses /\ status # "created" /\ status \in ExecutingStatuses
    BY <1>6 DEF Serial, TaskStatuses, ExecutingStatuses
  <2>2. /\ s \in Session /\ Orderly(s) /\ Carries(session, s)
        /\ ~PlanPending(s) /\ s.active = req[r].task
        /\ Waiting(s) = {} /\ Executing(s) = {req[r].task}
    BY <1>3, <1>4, <2>1
  <2>3. session' = s /\ req'[r] = req[r] /\ Only(r)
    BY <1>2, <1>6 DEF TypeOK, Await, Only
  <2> HIDE DEF s
  <2>4. Placed(session', req'[r])
    BY <1>1, <2>2, <2>3 DEF Placed, InHand, Awaiting
  <2> QED BY <1>2, <2>2, <2>3, <2>4, CarriesSettles DEF Serves, Leaves
<1>7. "failed" \in ConcludingStatuses /\ ~StreamEnds(r)
  BY DEF ConcludingStatuses, StreamEnds, Serial
<1> QED BY <1>2, <1>5, <1>6, <1>7 DEF AgentChunk, Timeout

-----------------------------------------------------------------------------
(* The theorems.                                                            *)

(* Every step serves the one request that takes it, or changes nothing of   *)
(* the session and the requests.                                            *)
LEMMA NextServes ==
  ASSUME Serial, SerialInv, [Next]_vars
  PROVE  \/ \E r \in Requests : Serves(r) /\ Alone(r)
         \/ UNCHANGED <<session, req>>
<1>1. ASSUME NEW r \in Requests, NEW m \in Messages, HandleUserMessage(r, m)
      PROVE  Serves(r) /\ Alone(r)
  BY <1>1, HandleUserMessageServes
<1>2. ASSUME NEW r \in Requests, NEW a \in Actions, NEW token \in 0..session.plans,
             HandleAction(r, a, token)
      PROVE  Serves(r) /\ Alone(r)
  BY <1>2, HandleActionServes
<1>3. ASSUME NEW r \in Requests, Recognized(r)
      PROVE  Serves(r) /\ Alone(r)
  BY <1>3, RecognizedServes
<1>4. ASSUME NEW r \in Requests, CancelAnswered(r)
      PROVE  Serves(r) /\ Alone(r)
  BY <1>4, CancelAnsweredServes
<1>5. ASSUME NEW r \in Requests, \/ \E status \in AgentStatuses : AgentChunk(r, status)
                                 \/ StreamEnds(r)
                                 \/ Timeout(r)
      PROVE  Serves(r) /\ Alone(r)
  BY <1>5, AgentServes
<1>6. \A r \in Requests : ~Disconnect(r)
  BY DEF Serial, Disconnect
<1>7. ASSUME NEW i \in AllIntents, CatalogRefresh(i)
      PROVE  UNCHANGED <<session, req>>
  BY <1>7 DEF CatalogRefresh
<1>8. CASE UNCHANGED vars
  BY <1>8 DEF vars
<1> QED BY <1>1, <1>2, <1>3, <1>4, <1>5, <1>6, <1>7, <1>8 DEF Next

(* The invariant holds of a new session.                                    *)
LEMMA InitSerialInv == Init => SerialInv
<1> SUFFICES ASSUME Init PROVE SerialInv
  OBVIOUS
<1>1. StepInv /\ session = EmptySession
  BY InitStepInv DEF Init
<1>2. /\ session.plan = NoPlan /\ session.active = NoTask
      /\ \A t \in TaskIds : session.status[t] = "none"
  BY <1>1 DEF EmptySession
<1>3. /\ Open(session) = {} /\ Waiting(session) = {}
      /\ Queued(session) = {} /\ Executing(session) = {}
  BY <1>2 DEF Open, Waiting, Queued, Executing, TaskStatuses, WaitingStatuses,
              ExecutingStatuses, TerminalStatuses
<1>4. Orderly(session) /\ Rests(session)
  BY <1>2, <1>3, NoPlanRests DEF Orderly, Rests, Settled, Idle
<1>5. \A r \in Requests : ~InFlight(r)
  BY DEF Init, NewRequest, InFlight, Awaiting
<1> QED BY <1>1, <1>4, <1>5 DEF SerialInv

(* Every step keeps the invariant.                                          *)
LEMMA NextSerialInv ==
  ASSUME Serial, SerialInv, [Next]_vars
  PROVE  SerialInv'
<1>1. StepInv'
  BY NextStepInv DEF SerialInv
<1>2. ASSUME NEW r \in Requests, Serves(r), Alone(r)
      PROVE  SerialInv'
  <2>1. \A x \in Requests \ {r} : ~InFlight(x)'
    BY <1>2 DEF Serves, Leaves, Only, Alone, InFlight
  <2>2. InFlight(r)' <=> req'[r].pc \in Awaiting
    BY DEF InFlight
  <2>3. IF InFlight(r)' THEN InHand(session', req'[r]) ELSE Rests(session')
    BY <1>2, <2>2 DEF Serves, Leaves, Placed
  <2>4. Orderly(session)'
    BY <1>2 DEF Serves, Leaves, Orderly, Open, PlanPending, RepositoryAnswers
  <2>5. \A x \in Requests : InFlight(x)' => InHand(session, req[x])'
    BY <2>1, <2>3
       DEF InHand, PlanPending, Open, Waiting, Executing, Queued, RepositoryAnswers
  <2>6. (\A x \in Requests : ~InFlight(x))' => Rests(session)'
    BY <2>3 DEF Rests, Settled, Idle, PlanPending, Open, Waiting, WaitingTask, Executing,
                Queued, RepositoryAnswers
  <2> QED BY <1>1, <2>1, <2>4, <2>5, <2>6 DEF SerialInv
<1>3. ASSUME UNCHANGED <<session, req>>
      PROVE  SerialInv'
  <2>1. \A x \in Requests : InFlight(x)' <=> InFlight(x)
    BY <1>3 DEF InFlight
  <2> QED BY <1>1, <1>3, <2>1
          DEF SerialInv, Orderly, InHand, Rests, Settled, Idle, PlanPending,
              Open, Waiting, WaitingTask, Executing, Queued, RepositoryAnswers
<1> QED BY <1>2, <1>3, NextServes

(* One client after the other finds a session at rest, and while a request  *)
(* is in flight its handler alone works on the session.                     *)
THEOREM SerialInvariance ==
  ASSUME Serial
  PROVE  Spec => []SerialInv
<1>1. SerialInv /\ [Next]_vars => SerialInv'
  BY NextSerialInv
<1> QED BY <1>1, InitSerialInv, PTL DEF Spec

(* Tasks of a session run one at a time: whatever the queue, a plan or a    *)
(* switch starts, at most one executes or waits for the user.               *)
THEOREM TasksRunOneAtATime ==
  ASSUME Serial
  PROVE  Spec => []OneTaskAtATime
<1>1. ASSUME SerialInv
      PROVE  OneTaskAtATime
  <2>1. CASE \A r \in Requests : ~InFlight(r)
    BY <1>1, <2>1 DEF SerialInv, Rests, Idle, OneTaskAtATime
  <2>2. ASSUME NEW r \in Requests, InHand(session, req[r]), req[r].pc \in Awaiting
        PROVE  OneTaskAtATime
    BY <2>2 DEF InHand, Awaiting, OneTaskAtATime
  <2> QED BY <1>1, <2>1, <2>2 DEF SerialInv, InFlight
<1> QED BY <1>1, SerialInvariance, PTL

(* No two open tasks are of one intent, although a plan's tasks are created *)
(* without looking at the open ones.                                        *)
THEOREM OpenIntentsAreUnique ==
  ASSUME Serial
  PROVE  Spec => []OpenIntentsUnique
<1>1. SerialInv => OpenIntentsUnique
  BY DEF SerialInv, Orderly, OpenIntentsUnique
<1> QED BY <1>1, SerialInvariance, PTL

(* Between two requests nothing executes, a queued task is held back by a   *)
(* waiting one, a plan under way waits for the user and active_task_id      *)
(* names the waiting task: no handler strands what it leaves.               *)
THEOREM SessionsRest ==
  ASSUME Serial, RepositoryAnswers
  PROVE  Spec => []AtRest
<1>1. ASSUME SerialInv
      PROVE  AtRest
  <2> SUFFICES ASSUME \A r \in Requests : ~InFlight(r)
               PROVE  /\ Executing(session) = {}
                      /\ Queued(session) # {} => Waiting(session) # {}
                      /\ session.plan.status \in ExecutingPlan =>
                           \E i \in AllIntents : session.plan.task[i] \in Waiting(session)
                      /\ IF Waiting(session) = {}
                           THEN session.active = NoTask
                           ELSE session.active \in WaitingTask(session)
    BY DEF AtRest
  <2>1. /\ session \in Session /\ Shape(session) /\ Honest(session)
        /\ Orderly(session) /\ Rests(session)
    BY <1>1 DEF SerialInv, StepInv, Inv, TypeOK
  <2>2. ASSUME session.plan.status \in ExecutingPlan
        PROVE  \E i \in AllIntents : session.plan.task[i] \in Waiting(session)
    <3>1. ~PlanPending(session) /\ session.plan.status # "none"
      BY <2>2 DEF PlanPending, ExecutingPlan
    <3>2. Open(session) # {}
      BY <2>1, <3>1, NothingOpen
    <3>3. PICK t \in TaskIds : session.status[t] \in WaitingStatuses
      BY <2>1, <3>2, NothingWaits DEF Rests, Settled, Idle, Waiting
    <3>4. t \in Open(session) /\ t \in Waiting(session)
      BY <3>3 DEF Open, Waiting, TaskStatuses, WaitingStatuses, TerminalStatuses
    <3> QED BY <2>1, <2>2, <3>4 DEF Orderly
  <2> QED BY <2>1, <2>2 DEF Rests, Settled, Idle
<1> QED BY <1>1, SerialInvariance, PTL

(* A task that is closed stays closed, in its status.                       *)
THEOREM ClosedTasksStayClosed ==
  ASSUME Serial
  PROVE  Spec => ClosedStaysClosed
<1> DEFINE A == \A t \in TaskIds : session.status[t] \in TerminalStatuses
                                    => session'.status[t] = session.status[t]
<1>1. SerialInv /\ [Next]_vars => [A]_vars
  BY NextServes DEF Serves, Settles, Closes
<1> QED BY <1>1, SerialInvariance, PTL DEF ClosedStaysClosed, Spec

(* No message's dispatch overwrites a plan: it leaves because a request     *)
(* decided it or, under way, with all its tasks closed.                     *)
THEOREM PlansLeaveSettled ==
  ASSUME Serial, RepositoryAnswers
  PROVE  Spec => PlanLeavesSettled
<1> DEFINE A == session.plan.id \notin {0, session'.plan.id} =>
                  IF PlanPending(session)
                    THEN \E r \in Requests : req'[r].plan = session.plan.id
                    ELSE \A i \in AllIntents :
                           session.plan.task[i] # NoTask =>
                             session'.status[session.plan.task[i]] \in TerminalStatuses
<1>1. SerialInv /\ [Next]_vars => [A]_vars
  BY NextServes DEF Serves, Settles, PlanItems
<1> QED BY <1>1, SerialInvariance, PTL DEF PlanLeavesSettled, Spec
=============================================================================
