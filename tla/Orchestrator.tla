----------------------------- MODULE Orchestrator -----------------------------
(***************************************************************************)
(* The handlers of one router session (router_core/orchestrator.py).       *)
(*                                                                         *)
(* Every request is a coroutine on the router's one event loop. It keeps   *)
(* the loop until it awaits something outside the process: the recognizer  *)
(* (an LLM), an agent's stream, an agent's answer to a cancellation.       *)
(* There is no lock on the session, so other requests run meanwhile. An    *)
(* action below is what one request does between two such awaits: all of   *)
(* the handler's code from the answer it was waiting for to the next await *)
(* or to its return. Publishing an event puts it on unbounded queues and   *)
(* never yields.                                                           *)
(***************************************************************************)
EXTENDS RouterSession

CONSTANTS
  PrimaryThreshold, \* least confidence of a primary match
  SwitchThreshold,  \* intent_switch_threshold
  AgentStatuses,    \* the statuses an agent's chunk may carry
  AgentsConclude,   \* agents end a stream only after a concluding chunk
  Concurrent,       \* clients send a request while another is in flight
  Abortable,        \* requests whose client may drop the event stream
  CatalogFailsFor,  \* requests for which a read of the catalog may fail
  MaxRefreshes      \* changes of the intent catalog; bounds the model

ASSUME ThresholdsAssumption  == PrimaryThreshold \in Nat /\ SwitchThreshold \in Nat
ASSUME AgentsAssumption      == AgentStatuses \subseteq TaskStatuses
ASSUME SwitchesAssumption    == AgentsConclude \in BOOLEAN /\ Concurrent \in BOOLEAN
ASSUME AbortableAssumption   == Abortable \subseteq Requests
ASSUME CatalogFailsAssumption == CatalogFailsFor \subseteq Requests
ASSUME MaxRefreshesAssumption == MaxRefreshes \in Nat

VARIABLES
  session,   \* the SessionState
  req,       \* each request's place in its handler and its locals
  catalog,   \* intent codes in the catalog's snapshot
  refreshes  \* catalog changes so far

vars == <<session, req, catalog, refreshes>>

-----------------------------------------------------------------------------
(* Messages. What the handler asks of the text of a message:                *)
(*   plain        none of the below, or an explicit switch of intent        *)
(*   confirm      one of the words that confirm a plan                      *)
(*   cancel       nothing but a cancelling term                             *)
(*   cancel_more  a cancelling term and a further request                   *)
(*   slot         looks like the value of a slot, no explicit switch        *)
(*   cancel_slot  a cancelling term and the value of a slot                 *)

Messages == {"plain", "confirm", "cancel", "cancel_more", "slot", "cancel_slot"}
Actions  == {"confirm_plan", "cancel_plan", "malformed"}

HasCancel(m)    == m \in {"cancel", "cancel_more", "cancel_slot"}
IsPureCancel(m) == m = "cancel"
IsSlotOnly(m)   == m \in {"slot", "cancel_slot"}

(* RecognitionResult for the intents a request showed the recognizer: each  *)
(* matched with some confidence or not at all (confidence 0).               *)
Recognition == [primary    : SUBSET AllIntents,
                candidates : SUBSET AllIntents,
                conf       : [AllIntents -> Confidence]]

Recognitions(known) ==
  {[primary    |-> {i \in AllIntents : c[i] > 0 /\ c[i] >= PrimaryThreshold},
    candidates |-> {i \in AllIntents : c[i] > 0 /\ c[i] < PrimaryThreshold},
    conf       |-> c] :
      c \in {f \in [AllIntents -> Confidence] :
               \A i \in AllIntents : f[i] > 0 => i \in known}}

NoRecognition == [primary    |-> {},
                  candidates |-> {},
                  conf       |-> [i \in AllIntents |-> 0]]

-----------------------------------------------------------------------------
(* Requests.                                                                *)

Awaiting == {"recognizing", "switching", "cancelling", "streaming"}

Request ==
  [pc      : Awaiting \cup {"idle", "done", "rejected", "aborted", "raised"},
   message : Messages \cup {"none"},
   known   : SUBSET AllIntents,       \* intents shown to the recognizer
   task    : TaskIds \cup {NoTask},   \* the task it resumes, cancels or runs
   rec     : Recognition,             \* kept while tasks are cancelled
   idle    : BOOLEAN,                 \* only to cancel: nothing to dispatch
   todo    : SUBSET TaskIds,          \* waiting tasks still to be cancelled
   drop    : SUBSET TaskIds,          \* queued tasks still to be cancelled
   resumed : BOOLEAN,                 \* _run_task was called by a resume
   plan    : Nat,                     \* id of the plan it decided
   verdict : {"none", "confirm", "cancel"},
   token   : Nat]                     \* confirm_token of the action; 0: none

NewRequest == [pc      |-> "idle", message |-> "none",  known   |-> {},
               task    |-> NoTask, rec     |-> NoRecognition,
               idle    |-> FALSE,  todo    |-> {}, drop |-> {},
               resumed |-> FALSE,  plan    |-> 0,
               verdict |-> "none", token   |-> 0]

InFlight(r) == req[r].pc \in Awaiting

(* The catalog offers the fallback intent apart from the routable ones.     *)
ListActive == catalog \cap Intents

(* Requests are numbered in the order they arrive.                          *)
MaySend(r) ==
  /\ req[r].pc = "idle"
  /\ \A q \in Requests : q < r => req[q].pc # "idle"
  /\ Concurrent \/ \A q \in Requests : ~InFlight(q)

(* Locals q once they are no longer needed, but for what a confirmation's   *)
(* handler still needs and what tells which plan it decided.                *)
Cleared(q, pc) == [NewRequest EXCEPT !.pc      = pc,     !.plan  = q.plan,
                                     !.verdict = q.verdict, !.token = q.token]

(* The handler of r, with locals q, leaves the session as s and returns.    *)
Return(r, q, s) ==
  /\ session' = IF q.verdict = "confirm" THEN EmitPlanProgress(s) ELSE s
  /\ req' = [req EXCEPT ![r] = Cleared(q, "done")]

(* The handler of r, with locals q, leaves the session as s and awaits.     *)
Await(r, q, s) ==
  /\ session' = s
  /\ req' = [req EXCEPT ![r] = q]

(* A read of the catalog that is due for a refresh meets a repository that  *)
(* fails: the exception ends the handler of r, and the session stays as s.  *)
CatalogRaises(r, q, s) ==
  /\ r \in CatalogFailsFor
  /\ Await(r, Cleared(q, "raised"), s)

-----------------------------------------------------------------------------
(* Running the queue.                                                       *)

(* Mutant of ConcludingStatuses: the first chunk is taken for the last.     *)
EveryStatus == TaskStatuses

(* The statuses of a chunk after which _run_task stops reading.             *)
ConcludingStatuses == WaitingStatuses \cup {"completed", "failed"}

(* _run_task up to the agent's first chunk. The task is dispatching, then   *)
(* running, with no await between.                                          *)
RunTask(r, q, s, t, resumed) ==
  Await(r,
        [Cleared(q, "streaming") EXCEPT !.task = t, !.resumed = resumed],
        Report(Touch(s, t, "dispatching"), t, "running"))

(* Mutant of DrainQueue: a task that waits does not hold back the queue.    *)
DrainPastWaiting(r, q, s) ==
  \/ /\ Queued(s) = {}
     /\ Return(r, q, [s EXCEPT !.active = NoTask])
  \/ \E t \in NextRunnable(s, catalog) :
       RunTask(r, q, [s EXCEPT !.active = t], t, FALSE)

(* One turn of _drain_queue: it ends the handler or runs the next task.     *)
DrainQueue(r, q, s) ==
  \/ \E t \in WaitingTask(s) :
       Return(r, q, [s EXCEPT !.active = t])
  \/ /\ Waiting(s) = {} /\ Queued(s) = {}
     /\ Return(r, q, [s EXCEPT !.active = NoTask])
  \/ /\ Waiting(s) = {}
     /\ \E t \in NextRunnable(s, catalog) :
          RunTask(r, q, [s EXCEPT !.active = t], t, FALSE)
  \/ /\ Waiting(s) = {}
     /\ CatalogRaises(r, q, s)

(* Mutant of AfterRun: a failed task ends the drain of the queue.           *)
StopAfterFailure(r, q, s) ==
  IF q.resumed \/ s.status[q.task] \in {"completed", "cancelled"}
    THEN DrainQueue(r, q, s)
    ELSE Return(r, q, s)

(* Mutant of AfterRun: a failed task is queued again behind the others.     *)
RetryAfterOthers(r, q, s) ==
  IF s.status[q.task] = "failed"
    THEN \/ Queued(s) = {} /\ DrainQueue(r, q, s)
         \/ \E t \in NextRunnable(s, catalog) :
              RunTask(r, q, [s EXCEPT !.status[q.task] = "queued"], t, FALSE)
    ELSE IF q.resumed \/ s.status[q.task] \in TerminalStatuses
           THEN DrainQueue(r, q, s)
           ELSE Return(r, q, s)

(* What follows _run_task. After a resume the queue is drained whatever     *)
(* became of the task; within _drain_queue only if it is closed.            *)
AfterRun(r, q, s) ==
  IF q.resumed \/ s.status[q.task] \in TerminalStatuses
    THEN DrainQueue(r, q, s)
    ELSE Return(r, q, s)

-----------------------------------------------------------------------------
(* Plans.                                                                   *)

(* Mutant of PlanPending: any plan will do, whatever its status.            *)
AnyPlan(s) == s.plan.status # "none"

PlanPending(s) == s.plan.status = "waiting_confirmation"

(* _propose_plan: replaces whatever plan the session had.                   *)
ProposePlan(s, planned, conf) ==
  [s EXCEPT
     !.plans  = @ + 1,
     !.active = NoTask,
     !.plan   = [NoPlan EXCEPT
                   !.id     = s.plans + 1,
                   !.status = "waiting_confirmation",
                   !.item   = [i \in AllIntents |->
                                 IF i \in planned THEN "pending" ELSE "none"],
                   !.conf   = [i \in AllIntents |->
                                 IF i \in planned THEN conf[i] ELSE 0]]]

(* _confirm_pending_plan, first part: a task for each item whose intent is  *)
(* still in the catalog.                                                    *)
ConfirmItems(s, r) ==
  LET items == {i \in AllIntents : s.plan.item[i] # "none"}
      run   == items \cap ListActive
      s1    == CreateTasks(s, r, run, s.plan.conf)
  IN  [s1 EXCEPT
         !.plan.status = "running",
         !.plan.item   = [i \in AllIntents |-> IF i \in items \ run
                                                 THEN "skipped" ELSE @[i]],
         !.plan.task   = [i \in AllIntents |-> IF i \in run
                                                 THEN <<r, i>> ELSE @[i]]]

(* _confirm_pending_plan: create the tasks, queue them and run the queue.   *)
(* The catalog is read before the first and before the second.              *)
ConfirmPendingPlan(r, q) ==
  LET q1 == [q EXCEPT !.plan = session.plan.id, !.verdict = "confirm"]
      s1 == ConfirmItems(session, r)
  IN  \/ CatalogRaises(r, req[r], session)
      \/ CatalogRaises(r, q1, s1)
      \/ DrainQueue(r, q1, QueuePendingTasks(s1))

(* _cancel_pending_plan.                                                    *)
CancelPendingPlan(r, q) ==
  Return(r,
         [q EXCEPT !.plan = session.plan.id, !.verdict = "cancel"],
         [session EXCEPT !.plan = NoPlan])

-----------------------------------------------------------------------------
(* Dispatching what was recognized.                                         *)

(* Mutant of Planned: the open tasks are not looked at.                     *)
PlannedAgain(s, primary) == primary \cap ListActive

(* The matches worth a task: not open already, and still in the catalog.    *)
Planned(s, primary) == (primary \ OpenIntents(s)) \cap ListActive

(* should_dispatch_fallback.                                                *)
FallbackDue(s, primary) ==
  primary = {} /\ Fallback \in catalog \ OpenIntents(s)

(* _dispatch_recognition, and the drain that follows it unless it proposed  *)
(* a plan.                                                                  *)
DispatchRecognition(r, q, s, rec) ==
  LET planned == Planned(s, rec.primary)
      new     == planned \cup (IF FallbackDue(s, rec.primary)
                                 THEN {Fallback} ELSE {})
      several == \E i, j \in planned : i # j
      s1      == CreateTasks(s, r, new, rec.conf)
  IN  \/ CatalogRaises(r, q, s)
      \/ several  /\ Return(r, q, ProposePlan(s, planned, rec.conf))
      \/ ~several /\ CatalogRaises(r, q, s1)
      \/ ~several /\ DrainQueue(r, q, QueuePendingTasks(s1))

-----------------------------------------------------------------------------
(* A message while a task waits for the user.                               *)

(* _resume_waiting_task: the task is not looked at again.                   *)
ResumeWaitingTask(r, q, s, t) ==
  RunTask(r, q, [Touch(s, t, "resuming") EXCEPT !.active = t], t, TRUE)

(* _intent_switch_match: the matches that may replace the waiting task t.   *)
SwitchMatches(rec, t) ==
  {i \in (rec.primary \cup rec.candidates) \ {IntentOf(t)} :
     rec.conf[i] >= SwitchThreshold}

(* The best of them. A primary match precedes an equally sure candidate.    *)
BestSwitch(rec, t) ==
  LET most == {i \in SwitchMatches(rec, t) :
                 \A j \in SwitchMatches(rec, t) : rec.conf[j] <= rec.conf[i]}
  IN  IF most \cap rec.primary # {} THEN most \cap rec.primary ELSE most

(* _promote_switch_match: if the best is a candidate, it becomes primary.   *)
Promoted(rec, t) ==
  LET best == BestSwitch(rec, t)
  IN  IF best \subseteq rec.primary
        THEN {rec}
        ELSE {[rec EXCEPT !.primary    = @ \cup {i},
                          !.candidates = @ \ {i}] : i \in best}

(* The queued tasks are cancelled without an await, one after the other;    *)
(* with none of them waiting, the order does not matter.                    *)
CancelAll(s, tasks) ==
  LET gone(t) == t \in tasks /\ s.status[t] \notin TerminalStatuses
      s1 == [s EXCEPT
               !.status = [t \in TaskIds |-> IF gone(t) THEN "cancelled" ELSE @[t]],
               !.at     = [t \in TaskIds |-> IF gone(t) THEN 0 ELSE @[t]]]
  IN  IF \E t \in tasks : gone(t) THEN EmitPlanProgress(s1) ELSE s

(* The waiting tasks are cancelled first, in the order of session.tasks; a  *)
(* task is skipped if it is closed when its turn comes.                     *)
NextToCancel(s, todo) ==
  {t \in todo : /\ s.status[t] \notin TerminalStatuses
                /\ \A u \in todo : s.born[u] < s.born[t]
                                     => s.status[u] \in TerminalStatuses}

(* _cancel_waiting_and_queued_tasks from the waiting tasks todo on, and     *)
(* the rest of _maybe_switch_waiting_task.                                  *)
CancelTasks(r, q, s, todo) ==
  \/ \E t \in NextToCancel(s, todo) :
       Await(r,
             [q EXCEPT !.pc = "cancelling", !.task = t,
                       !.todo = {u \in todo \ {t} : s.born[u] >= s.born[t]}],
             s)
  \/ /\ NextToCancel(s, todo) = {}
     /\ LET s1 == [CancelAll(s, q.drop) EXCEPT !.active = NoTask]
        IN  IF q.idle
              THEN Return(r, q, s1)
              ELSE DispatchRecognition(r, q, s1, q.rec)

(* _maybe_switch_waiting_task once the message is recognized as rec.        *)
SwitchOrResume(r, q, rec) ==
  LET s      == session
      switch == SwitchMatches(rec, q.task)
  IN  IF IF switch # {} THEN IsSlotOnly(q.message) ELSE ~HasCancel(q.message)
        THEN ResumeWaitingTask(r, q, s, q.task)
        ELSE \E promoted \in Promoted(rec, q.task) :
               CancelTasks(r,
                 [q EXCEPT !.rec  = promoted,
                           !.drop = Queued(s),
                           !.idle = switch = {} /\ IsPureCancel(q.message)],
                 s, Waiting(s))

-----------------------------------------------------------------------------
(* The actions. First the arrival of a request.                             *)

(* handle_user_message up to its first await.                               *)
HandleUserMessage(r, m) ==
  LET q == [req[r] EXCEPT !.message = m]
      asked(pc, t) == [q EXCEPT !.pc = pc, !.task = t, !.known = ListActive]
  IN  /\ MaySend(r)
      /\ \/ /\ PlanPending(session)
            /\ \/ m = "confirm" /\ ConfirmPendingPlan(r, q)
               \/ HasCancel(m)  /\ CancelPendingPlan(r, q)
               \/ m # "confirm" /\ ~HasCancel(m) /\ Return(r, q, session)
         \/ /\ ~PlanPending(session)
            /\ \E t \in WaitingTask(session) :
                 Await(r, asked("switching", t), session)
         \/ /\ ~PlanPending(session) /\ Waiting(session) = {}
            /\ Await(r, asked("recognizing", NoTask), session)
         \/ /\ ~PlanPending(session)
            /\ CatalogRaises(r, q, session)
      /\ UNCHANGED <<catalog, refreshes>>

(* Mutant of TokenAccepted: the token is not compared.                      *)
AnyToken(token) == TRUE

(* The confirm_token a plan's action may carry: none, or the pending plan's.*)
TokenAccepted(token) == token \in {0, session.plan.id}

(* handle_action: a press of a button of a plan's card. The action may name *)
(* any card shown so far by its confirm_token, or none (0).                 *)
HandleAction(r, a, token) ==
  LET q  == [req[r] EXCEPT !.token = token]
      ok == /\ PlanPending(session)
            /\ TokenAccepted(token)
  IN  /\ MaySend(r)
      /\ \/ a = "confirm_plan" /\ ok /\ ConfirmPendingPlan(r, q)
         \/ a = "cancel_plan"  /\ ok /\ CancelPendingPlan(r, q)
         \/ /\ a = "malformed" \/ ~ok
            /\ Await(r, Cleared(req[r], "rejected"), session)
      /\ UNCHANGED <<catalog, refreshes>>

(* Then the answers the handlers wait for.                                  *)

Recognized(r) ==
  /\ \E rec \in Recognitions(req[r].known) :
       \/ /\ req[r].pc = "recognizing"
          /\ DispatchRecognition(r, [req[r] EXCEPT !.known = {}, !.message = "none"],
                                 session, rec)
       \/ /\ req[r].pc = "switching"
          /\ SwitchOrResume(r, [req[r] EXCEPT !.known = {}], rec)
  /\ UNCHANGED <<catalog, refreshes>>

(* The agent acknowledged a cancellation, or failed to: both are the same.  *)
CancelAnswered(r) ==
  /\ req[r].pc = "cancelling"
  /\ CancelTasks(r, req[r], Report(session, req[r].task, "cancelled"), req[r].todo)
  /\ UNCHANGED <<catalog, refreshes>>

(* _handle_agent_chunk, and the end of _run_task if the chunk concludes.    *)
AgentChunk(r, status) ==
  LET s == Report(session, req[r].task, status)
  IN  /\ req[r].pc = "streaming"
      /\ \/ /\ status \in ConcludingStatuses
            /\ AfterRun(r, req[r], s)
         \/ /\ status \notin ConcludingStatuses
            /\ Await(r, req[r], s)
      /\ UNCHANGED <<catalog, refreshes>>

(* The stream ends with no chunk that concluded, or with no chunk at all: a *)
(* JSON body may hold an empty list of events. (Only of an empty event      *)
(* stream the agent client makes a failed chunk.)                           *)
StreamEnds(r) ==
  /\ ~AgentsConclude
  /\ req[r].pc = "streaming"
  /\ AfterRun(r, req[r], session)
  /\ UNCHANGED <<catalog, refreshes>>

(* The agent did not conclude within agent_timeout_seconds.                 *)
Timeout(r) ==
  /\ req[r].pc = "streaming"
  /\ AfterRun(r, req[r], Report(session, req[r].task, "failed"))
  /\ UNCHANGED <<catalog, refreshes>>

(* The client of a streaming endpoint disconnects, and the handler is       *)
(* cancelled where it waits.                                                *)
Disconnect(r) ==
  /\ r \in Abortable /\ InFlight(r)
  /\ Await(r, Cleared(req[r], "aborted"), session)
  /\ UNCHANGED <<catalog, refreshes>>

(* The catalog's snapshot is replaced after an administrator activated or   *)
(* deactivated an intent; two changes in one refresh are two of these steps *)
(* in a row.                                                                *)
CatalogRefresh(i) ==
  /\ refreshes < MaxRefreshes
  /\ catalog' = IF i \in catalog THEN catalog \ {i} ELSE catalog \cup {i}
  /\ refreshes' = refreshes + 1
  /\ UNCHANGED <<session, req>>

-----------------------------------------------------------------------------
Init ==
  /\ session = EmptySession
  /\ req = [r \in Requests |-> NewRequest]
  /\ catalog = AllIntents
  /\ refreshes = 0

Next ==
  \/ \E r \in Requests :
       \/ \E m \in Messages : HandleUserMessage(r, m)
       \/ \E a \in Actions, token \in 0..session.plans : HandleAction(r, a, token)
       \/ Recognized(r)
       \/ CancelAnswered(r)
       \/ \E status \in AgentStatuses : AgentChunk(r, status)
       \/ StreamEnds(r)
       \/ Timeout(r)
       \/ Disconnect(r)
  \/ \E i \in AllIntents : CatalogRefresh(i)

Spec == Init /\ [][Next]_vars

(* The answers a handler waits for. The LLM client and the HTTP client time *)
(* out, and so does _run_task: each await of a handler ends. Nothing        *)
(* obliges a user to send a request.                                        *)
(* This is WF_vars(Answered(r)) with ENABLED written as InFlight(r): the    *)
(* recognizer has an answer for every message, a cancellation is always     *)
(* answered and a stream may always time out.                               *)
Answered(r) == Recognized(r) \/ CancelAnswered(r) \/ Timeout(r)

Fairness == \A r \in Requests : []<>~InFlight(r) \/ []<><<Answered(r)>>_vars

FairSpec == Spec /\ Fairness

-----------------------------------------------------------------------------
(* Properties.                                                              *)

(* Every variable keeps to the values the code can give it.                 *)
TypeOK ==
  /\ session \in Session
  /\ req \in [Requests -> Request]
  /\ catalog \in SUBSET AllIntents
  /\ refreshes \in Nat

(* V1 runs tasks serially: at most one task of a session is executing or    *)
(* waits for the user, whatever the queue, a plan or a switch started.      *)
OneTaskAtATime ==
  \A t, u \in Executing(session) \cup Waiting(session) : t = u

(* A completed, failed or cancelled task is closed for good: no answer that *)
(* arrives later, of its agent or to another request, reopens it.           *)
ClosedStaysClosed ==
  [][\A t \in TaskIds : session.status[t] \in TerminalStatuses
                           => session'.status[t] = session.status[t]]_vars

(* The user never has two open tasks of one intent, although a plan's tasks *)
(* are created without looking at the open ones.                            *)
OpenIntentsUnique ==
  \A t, u \in Open(session) : IntentOf(t) = IntentOf(u) => t = u

(* Once every request is answered, nothing executes, a queued task is held  *)
(* back by a waiting one only, a plan under way waits for the user, and     *)
(* active_task_id names the waiting task.                                   *)
AtRest ==
  (\A r \in Requests : ~InFlight(r)) =>
     /\ Executing(session) = {}
     /\ Queued(session) # {} => Waiting(session) # {}
     /\ session.plan.status \in ExecutingPlan =>
          \E i \in AllIntents : session.plan.task[i] \in Waiting(session)
     /\ IF Waiting(session) = {} THEN session.active = NoTask
                                ELSE session.active \in WaitingTask(session)

(* A plan leaves the session only because a request cancelled or confirmed  *)
(* it, or, under way, with all its tasks closed: no message's dispatch      *)
(* overwrites it.                                                           *)
PlanLeavesSettled ==
  [][session.plan.id \notin {0, session'.plan.id} =>
       IF PlanPending(session)
         THEN \E r \in Requests : req'[r].plan = session.plan.id
         ELSE \A i \in AllIntents :
                session.plan.task[i] # NoTask =>
                  session'.status[session.plan.task[i]] \in TerminalStatuses]_vars

(* Every request is answered, whatever agents and recognizer reply.         *)
EveryRequestAnswered ==
  \A r \in Requests : InFlight(r) ~> ~InFlight(r)

(* However requests interleave, a plan is decided by one of them at most,   *)
(* and a button of a card decides no other plan than the one it shows.      *)
PlanDecidedOnce ==
  \A r \in Requests : req[r].plan # 0 =>
    /\ req[r].token \in {0, req[r].plan}
    /\ session.plan.id = req[r].plan => session.plan.status \in ExecutingPlan
    /\ \A q \in Requests \ {r} : req[q].plan # req[r].plan

(* A message never opens a second task of an open intent, although the      *)
(* session changes while the message is being recognized.                   *)
MessageOpensNoDuplicate ==
  [][\A t \in TaskIds :
       (/\ session.status[t] = "none" /\ session'.status[t] # "none"
        /\ req'[t[1]].verdict # "confirm")
       => \A u \in Open(session') : IntentOf(u) = IntentOf(t) => u = t]_vars

(* Only the head of the queue is dispatched, and no queued task overtakes   *)
(* one that waits for the user.                                             *)
QueueDiscipline ==
  [][\A t \in TaskIds :
       (/\ session.status[t] \in {"none", "created", "queued"}
        /\ session'.status[t] \in ExecutingStatuses)
       => /\ Waiting(session') = {}
          /\ \A u \in Queued(session') : ~SortsBefore(session', catalog, u, t)]_vars

(* The card of a plan under way always shows the statuses of its tasks, and *)
(* the plan is under way no longer than one of them is open, unless all its *)
(* intents left the catalog and the read of the catalog failed after that.  *)
PlanCardHonest ==
  session.plan.status \in ExecutingPlan =>
    LET items == {i \in AllIntents : session.plan.task[i] # NoTask}
        status(i) == session.status[session.plan.task[i]]
    IN  /\ \A i \in items : session.plan.item[i] = ItemStatusForTask(status(i))
        /\ \/ \E i \in items : status(i) \notin TerminalStatuses
           \/ items = {} /\ CatalogFailsFor # {}
        /\ session.plan.status = "partially_completed"
              <=> \E i \in items : status(i) = "completed"

(* Whatever executes is being driven: a request reads its agent's stream.   *)
ExecutingIsDriven ==
  \A t \in Executing(session) :
    \E r \in Requests : req[r].pc = "streaming" /\ req[r].task = t

(* docs/task.md T06: a client that drops its stream leaves no task behind   *)
(* that waits or whose agent runs, once no request is in flight.            *)
DroppedStreamClosesTask ==
  \A r \in Requests :
    (/\ req[r].pc = "aborted"
     /\ \A q \in Requests : q > r => req[q].pc = "idle")
    => Waiting(session) \cup Executing(session) = {}
=============================================================================
