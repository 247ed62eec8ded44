-------------------------- MODULE RunManagerProofs --------------------------
(***************************************************************************)
(* What holds of every run, for every value of the constants: the types    *)
(* and budgets of RunManager, the finality of its outcome, and its rows:   *)
(* tasks are executed in order, what is final stays as it is, a run that   *)
(* was completed, cancelled, aborted or stopped by its budget leaves no    *)
(* task open, and its answer is the one that the outcome allows.           *)
(***************************************************************************)
EXTENDS RunManager, TLAPS

-----------------------------------------------------------------------------
(* Commits                                                                 *)

(* Every commit the manager constructs is one of the kinds it performs.    *)
LEMMA CommitTypes ==
    /\ \A s \in RunStatuses : SetStatus(s) \in Commit
    /\ \A e \in Errors : SetFailed(e) \in Commit
    /\ {SetDone, SetPartialAnswer, SkipPending, RecordReflection} \subseteq Commit
    /\ \A i \in Nat, s \in TaskStatuses : MarkTask(i, s) \in Commit
    /\ \A S \in SUBSET Nat : {DropTasks(S), EmitSkipped(S)} \subseteq Commit
    /\ \A s, n \in Nat : {AddTasks(s, n), RecordAttempt(s, n)} \subseteq Commit
    /\ \A e \in Event : Emit(e) \in Commit
  BY DEF Commit, SetStatus, SetFailed, SetDone, SetPartialAnswer, SkipPending,
         RecordReflection, MarkTask, DropTasks, EmitSkipped, AddTasks,
         RecordAttempt, Emit

(* Every event it appends is one of the ledger's.                          *)
LEMMA EventTypes ==
    /\ \A t \in PlainEventTypes : Plain(t) \in Event
    /\ \A t \in TaskEventTypes, i \in Nat : TaskEvent(t, i) \in Event
    /\ \A s, n \in Nat : PlanEvent(s, n) \in Event
    /\ \A S \in SUBSET Nat, s, n \in Nat : ReplanEvent(S, s, n) \in Event
    /\ \A e \in Errors : [type |-> "run.failed", error |-> e] \in Event
    /\ \A a \in Answers : [type |-> "answer.completed", text |-> a] \in Event
  BY DEF Event, Plain, TaskEvent, PlanEvent, ReplanEvent

(* What the fields of a commit hold, by its kind.                          *)
LEMMA CommitFields ==
    ASSUME NEW c \in Commit
    PROVE  /\ c.op = "status" => c.status \in RunStatuses
           /\ c.op = "failed" => c.error \in Errors
           /\ c.op = "mark" => c.index \in Nat /\ c.status \in TaskStatuses
           /\ c.op \in {"drop", "emitSkipped"} => c.tasks \in SUBSET Nat
           /\ c.op = "add" => c.start \in Nat /\ c.count \in Nat
           /\ c.op = "attempt" => c.index \in Nat /\ c.number \in Nat
           /\ c.op = "emit" => c.event \in Event
  BY DEF Commit

(* What the committing helpers leave in todo are sequences of commits.     *)
LEMMA HelperTypes ==
    ASSUME cur \in Nat
    PROVE  /\ \A i \in Nat : /\ FailTask(i) \in Seq(Commit)
                             /\ CancelTask(i) \in Seq(Commit)
                             /\ CompleteTask(i) \in Seq(Commit)
           /\ \A e \in Errors : FinalizeFailed(e) \in Seq(Commit)
           /\ FinalizeCancelled \in Seq(Commit)
           /\ FinalizeDone \in Seq(Commit)
           /\ \A b \in BOOLEAN : /\ FinalizeCancelledRun(b) \in Seq(Commit)
                                 /\ FinalizeBudgetExceeded(b) \in Seq(Commit)
<1>1. \A i \in Nat : /\ FailTask(i) \in Seq(Commit)
                     /\ CancelTask(i) \in Seq(Commit)
                     /\ CompleteTask(i) \in Seq(Commit)
  <2> SUFFICES ASSUME NEW i \in Nat
               PROVE  /\ FailTask(i) \in Seq(Commit)
                      /\ CancelTask(i) \in Seq(Commit)
                      /\ CompleteTask(i) \in Seq(Commit)
    OBVIOUS
  <2>1. \A s \in {"failed", "cancelled", "done"} : MarkTask(i, s) \in Commit
    BY CommitTypes DEF TaskStatuses, TerminalTaskStatuses
  <2>2. \A t \in TaskEventTypes : Emit(TaskEvent(t, i)) \in Commit
    BY CommitTypes, EventTypes
  <2> QED
    BY <2>1, <2>2 DEF FailTask, CancelTask, CompleteTask, TaskEventTypes
<1>2. ASSUME NEW e \in Errors PROVE FinalizeFailed(e) \in Seq(Commit)
  <2>1. SetFailed(e) \in Commit
    BY CommitTypes
  <2>2. Emit([type |-> "run.failed", error |-> e]) \in Commit
    BY CommitTypes, EventTypes
  <2> QED
    BY <2>1, <2>2 DEF FinalizeFailed
<1>3. FinalizeCancelled \in Seq(Commit)
  BY CommitTypes, EventTypes DEF FinalizeCancelled, RunStatuses, PlainEventTypes
<1>4. FinalizeDone \in Seq(Commit)
  BY CommitTypes, EventTypes DEF FinalizeDone, PlainEventTypes, Answers
<1>5. \A b \in BOOLEAN : FinalizeCancelledRun(b) \in Seq(Commit)
  BY <1>1, <1>3, CommitTypes DEF FinalizeCancelledRun
<1>6. \A b \in BOOLEAN : FinalizeBudgetExceeded(b) \in Seq(Commit)
  BY <1>1, <1>2, <1>5, CommitTypes, EventTypes
     DEF FinalizeBudgetExceeded, PlainEventTypes, SilentEventTypes, Errors
<1> QED
  BY <1>1, <1>2, <1>3, <1>4, <1>5, <1>6

(* Checklists stay checklists under the fold's two updates.                *)
LEMMA WithPlanType ==
    ASSUME NEW f, IsChecklist(f), NEW start \in Nat, NEW count \in Nat
    PROVE  IsChecklist(WithPlan(f, start, count))
  BY DEF IsChecklist, WithPlan, TaskStatuses, OpenTaskStatuses

(* ... and under the change of one task's status.                          *)
LEMMA WithTaskType ==
    ASSUME NEW f, IsChecklist(f), NEW i \in Nat, NEW s \in TaskStatuses
    PROVE  IsChecklist(WithTask(f, i, s))
  BY DEF IsChecklist, WithTask

(* The canonical fold maps replay states to replay states.                 *)
LEMMA FoldStepType ==
    ASSUME NEW v, IsReplayState(v), NEW e \in Event
    PROVE  IsReplayState(FoldStep(v, e))
<1>1. CASE e.type \in {"plan.created", "plan.replanned"}
  <2>1. e.start \in Nat /\ e.count \in Nat
    BY <1>1 DEF Event, PlainEventTypes, SilentEventTypes, TaskEventTypes
  <2>2. FoldStep(v, e) = [v EXCEPT !.tasks = WithPlan(v.tasks, e.start, e.count)]
    BY <1>1 DEF FoldStep, TaskEventTypes
  <2>3. IsChecklist(WithPlan(v.tasks, e.start, e.count))
    BY <2>1, WithPlanType DEF IsReplayState
  <2> QED
    BY <2>2, <2>3 DEF IsReplayState
<1>2. CASE e.type \in TaskEventTypes
  <2>1. e.index \in Nat /\ TaskEventStatus(e.type) \in TaskStatuses
    BY <1>2 DEF Event, PlainEventTypes, SilentEventTypes, TaskEventTypes,
       TaskEventStatus, TaskStatuses, OpenTaskStatuses, TerminalTaskStatuses
  <2>2. FoldStep(v, e) = [v EXCEPT !.tasks =
                            WithTask(v.tasks, e.index, TaskEventStatus(e.type))]
    BY <1>2 DEF FoldStep, TaskEventTypes
  <2>3. IsChecklist(WithTask(v.tasks, e.index, TaskEventStatus(e.type)))
    BY <2>1, WithTaskType DEF IsReplayState
  <2> QED
    BY <2>2, <2>3 DEF IsReplayState
<1>3. CASE e.type = "run.failed" \/ e.type = "answer.completed"
  <2>1. /\ e.type = "run.failed" => e.error \in Errors
        /\ e.type = "answer.completed" => e.text \in Answers
    BY <1>3 DEF Event, PlainEventTypes, SilentEventTypes, TaskEventTypes
  <2>2. FoldStep(v, e) =
            IF e.type = "run.failed"
            THEN [v EXCEPT !.status = "failed", !.terminal = TRUE, !.error = e.error]
            ELSE [v EXCEPT !.answer = e.text]
    BY <1>3 DEF FoldStep, TaskEventTypes
  <2> QED
    BY <1>3, <2>1, <2>2 DEF IsReplayState, RunStatuses
<1>4. CASE e.type \in PlainEventTypes
  BY <1>4 DEF FoldStep, IsReplayState, PlainEventTypes, SilentEventTypes,
     TaskEventTypes, RunStatuses
<1> QED
  BY <1>1, <1>2, <1>3, <1>4 DEF Event

-----------------------------------------------------------------------------
(* Type correctness                                                        *)

(* What a decision determines, whatever else it is about.                  *)
Decided ==
    /\ RowsOK
    /\ IsReplayState(view)
    /\ pc \in ControlPoints
    /\ todo \in Seq(Commit)

(* A decision that goes to a control point, leaving well-formed commits.   *)
LEMMA DecideType ==
    ASSUME TypeOK, NEW from, NEW to \in ControlPoints,
           NEW commits \in Seq(Commit), Decide(from, to, commits)
    PROVE  Decided'
  BY DEF Decided, TypeOK, RowsOK, IsReplayState, Decide, durable

(* Spending calls, or exhausting them, keeps the counters within the caps. *)
LEMMA SpendType ==
    ASSUME TypeOK, NEW k \in Nat, NEW t \in Nat, Spend(k, t) \/ Exhaust(k, t)
    PROVE  modelCalls' \in 0 .. MaxModelCalls /\ toolCalls' \in 0 .. MaxToolCalls
  BY LimitsAssumption, CapsAssumption DEF TypeOK, BudgetOK, Spend, Exhaust

(* Registering, planning and recalling keep the types.                     *)
LEMMA PlanningType ==
    ASSUME TypeOK, Planning
    PROVE  TypeOK'
<1> USE LimitsAssumption, CapsAssumption, SwitchesAssumption
<1>1. <<>> \in Seq(Commit)
  OBVIOUS
<1>2. cur \in Nat
  BY DEF TypeOK, LocalOK
<1>3. CASE Register
  <2>2. Decided'
    BY <1>1, <1>3, DecideType DEF Register, ControlPoints
  <2> QED
    BY <1>3, <2>2
    DEF Register, Decided, TypeOK, ControlOK, LocalOK, BudgetOK,
       local, handle, plan, turn, budget
<1>4. CASE StartPlanning
  <2>1. <<SetStatus("planning"), Emit(Plain("run.started"))>> \in Seq(Commit)
    BY <1>2, CommitTypes, EventTypes DEF RunStatuses, PlainEventTypes
  <2>2. Decided'
    BY <1>1, <1>4, <2>1, DecideType DEF StartPlanning, ControlPoints
  <2> QED
    BY <1>4, <2>2
    DEF StartPlanning, Decided, TypeOK, ControlOK, LocalOK, BudgetOK,
       local, handle, plan, turn, budget
<1>5. CASE CheckPlanning
  <2>1. FinalizeCancelled \in Seq(Commit)
    BY <1>2, HelperTypes
  <2>2. Decided'
    BY <1>1, <1>5, <2>1, DecideType DEF CheckPlanning, ControlPoints
  <2> QED
    BY <1>5, <2>2
    DEF CheckPlanning, Decided, TypeOK, ControlOK, LocalOK, BudgetOK,
       local, handle, plan, turn, budget
<1>6. CASE Recall
  <2>1. <<Emit(Plain("memory.recalled"))>> \in Seq(Commit)
    BY <1>2, CommitTypes, EventTypes DEF PlainEventTypes, SilentEventTypes
  <2>2. Decided'
    BY <1>1, <1>6, <2>1, DecideType DEF Recall, ControlPoints
  <2> QED
    BY <1>6, <2>2
    DEF Recall, Decided, TypeOK, ControlOK, LocalOK, BudgetOK,
       local, handle, plan, turn, budget
<1>7. CASE PlannerReturns
  <2>1. \A n \in 1 .. MaxTasks :
           <<AddTasks(0, n), Emit(PlanEvent(0, n))>> \in Seq(Commit)
    BY <1>2, CommitTypes, EventTypes
  <2>2. Decided'
    BY <1>1, <1>7, <2>1, DecideType DEF PlannerReturns, ControlPoints
  <2>5. LocalOK'
    BY <1>7, <1>2
    DEF PlannerReturns, TypeOK, LocalOK, local, handle, plan, turn, calls, budget
  <2>6. BudgetOK'
    BY <1>7, SpendType
    DEF PlannerReturns, SpendSome, TypeOK, BudgetOK, local, handle, plan, turn, calls, budget
  <2> QED
    BY <1>7, <2>2, <2>5, <2>6
    DEF PlannerReturns, Decided, TypeOK, ControlOK, local, handle
<1>8. CASE PlannerFails
  <2>1. \A e \in {"planning", "llm"} : FinalizeFailed(e) \in Seq(Commit)
    BY <1>2, HelperTypes DEF Errors
  <2>2. Decided'
    BY <1>1, <1>8, <2>1, DecideType DEF PlannerFails, ControlPoints
  <2>3. LocalOK'
    BY <1>8 DEF PlannerFails, TypeOK, LocalOK, plan, turn
  <2>4. BudgetOK'
    BY <1>8, SpendType DEF PlannerFails, SpendSome, TypeOK, BudgetOK
  <2> QED
    BY <1>8, <2>2, <2>3, <2>4
    DEF PlannerFails, Decided, TypeOK, ControlOK, handle
<1>9. CASE PlannerExhausts
  <2>1. FinalizeBudgetExceeded(FALSE) \in Seq(Commit)
    BY <1>2, HelperTypes
  <2>2. Decided'
    BY <1>1, <1>9, <2>1, DecideType DEF PlannerExhausts, ControlPoints
  <2>3. LocalOK'
    BY <1>9 DEF PlannerExhausts, TypeOK, LocalOK, plan, turn
  <2>4. BudgetOK'
    BY <1>9, SpendType DEF PlannerExhausts, SpendSome, TypeOK, BudgetOK
  <2> QED
    BY <1>9, <2>2, <2>3, <2>4
    DEF PlannerExhausts, Decided, TypeOK, ControlOK, handle
<1>10. CASE CheckPlanned
  <2>10. FinalizeCancelledRun(FALSE) \in Seq(Commit)
    BY <1>2, HelperTypes
  <2>11. <<SetStatus("running")>> \in Seq(Commit)
    BY <1>2, CommitTypes DEF RunStatuses
  <2>2. Decided'
    BY <1>1, <1>10, <2>10, <2>11, DecideType DEF CheckPlanned, ControlPoints
  <2> QED
    BY <1>10, <2>2
    DEF CheckPlanned, Decided, TypeOK, ControlOK, LocalOK, BudgetOK,
       local, handle, plan, turn, budget
<1> QED
  BY <1>3, <1>4, <1>5, <1>6, <1>7, <1>8, <1>9, <1>10 DEF Planning

(* Running the tasks, attempts and reflections included, keeps the types.  *)
LEMMA ExecutingType ==
    ASSUME TypeOK, Executing
    PROVE  TypeOK'
<1> USE LimitsAssumption, CapsAssumption, SwitchesAssumption
<1>1. <<>> \in Seq(Commit)
  OBVIOUS
<1>2. cur \in Nat
  BY DEF TypeOK, LocalOK
<1>3. CASE StartTask
  <2>10. FinalizeCancelledRun(FALSE) \in Seq(Commit)
    BY <1>2, HelperTypes
  <2>11. <<MarkTask(cur, "running"), Emit(TaskEvent("task.started", cur))>> \in Seq(Commit)
    BY <1>2, CommitTypes, EventTypes DEF TaskStatuses, OpenTaskStatuses, TaskEventTypes
  <2>2. Decided'
    BY <1>1, <1>3, <2>10, <2>11, DecideType DEF StartTask, ControlPoints
  <2>5. LocalOK'
    <3>1. CASE cancel
      BY <1>2, <1>3, <3>1
      DEF StartTask, TypeOK, LocalOK, local, handle, plan, turn, calls, budget
    <3>2. CASE ~cancel
      <4>1. attempt' = 1 /\ UNCHANGED <<output, verdict, plan, tokens>>
        BY <1>3, <3>2 DEF StartTask
      <4> QED
        BY <4>1 DEF TypeOK, LocalOK, plan
    <3> QED
      BY <3>1, <3>2
  <2>6. BudgetOK'
    BY <1>3
    DEF StartTask, TypeOK, BudgetOK, local, handle, plan, turn, calls, budget
  <2> QED
    BY <1>3, <2>2, <2>5, <2>6
    DEF StartTask, Decided, TypeOK, ControlOK, local, handle
<1>4. CASE TasksDone
  <2>2. Decided'
    BY <1>1, <1>4, DecideType DEF TasksDone, ControlPoints
  <2> QED
    BY <1>4, <2>2
    DEF TasksDone, Decided, TypeOK, ControlOK, LocalOK, BudgetOK,
       local, handle, plan, turn, budget
<1>5. CASE StartAttempt
  <2>10. FinalizeCancelledRun(TRUE) \in Seq(Commit)
    BY <1>2, HelperTypes
  <2>11. <<MarkTask(cur, "running")>> \in Seq(Commit)
    BY <1>2, CommitTypes DEF TaskStatuses, OpenTaskStatuses, TaskEventTypes
  <2>2. Decided'
    BY <1>1, <1>5, <2>10, <2>11, DecideType DEF StartAttempt, ControlPoints
  <2> QED
    BY <1>5, <2>2
    DEF StartAttempt, Decided, TypeOK, ControlOK, LocalOK, BudgetOK,
       local, handle, plan, turn, budget
<1>6. CASE ExecutorReturns
  <2>1. attempt \in Nat /\ <<RecordAttempt(cur, attempt)>> \in Seq(Commit)
    BY <1>2, CommitTypes DEF TypeOK, LocalOK
  <2>2. Decided'
    BY <1>1, <1>6, <2>1, DecideType DEF ExecutorReturns, ControlPoints
  <2>3. LocalOK'
    BY <1>6 DEF ExecutorReturns, TypeOK, LocalOK, plan, turn
  <2>4. BudgetOK'
    BY <1>6, SpendType DEF ExecutorReturns, SpendSome, TypeOK, BudgetOK
  <2> QED
    BY <1>6, <2>2, <2>3, <2>4
    DEF ExecutorReturns, Decided, TypeOK, ControlOK, handle
<1>7. CASE ExecutorCancelled
  <2>1. FinalizeCancelledRun(TRUE) \in Seq(Commit)
    BY <1>2, HelperTypes
  <2>2. Decided'
    BY <1>1, <1>7, <2>1, DecideType DEF ExecutorCancelled, ControlPoints
  <2>3. LocalOK'
    BY <1>7 DEF ExecutorCancelled, TypeOK, LocalOK, plan, turn
  <2>4. BudgetOK'
    BY <1>7, SpendType DEF ExecutorCancelled, SpendSome, TypeOK, BudgetOK
  <2> QED
    BY <1>7, <2>2, <2>3, <2>4
    DEF ExecutorCancelled, Decided, TypeOK, ControlOK, handle
<1>8. CASE ExecutorFails
  <2>10. FinalizeCancelledRun(TRUE) \in Seq(Commit)
    BY <1>2, HelperTypes
  <2>11. FailTask(cur) \o FinalizeFailed("task") \in Seq(Commit)
    BY <1>2, HelperTypes DEF Errors
  <2>12. <<RecordAttempt(cur, attempt)>> \in Seq(Commit)
    BY <1>2, CommitTypes DEF TypeOK, LocalOK
  <2>2. Decided'
    BY <1>1, <1>8, <2>10, <2>11, <2>12, DecideType DEF ExecutorFails, ControlPoints
  <2>3. LocalOK'
    BY <1>8 DEF ExecutorFails, TypeOK, LocalOK, plan, turn
  <2>4. BudgetOK'
    BY <1>8, SpendType DEF ExecutorFails, SpendSome, TypeOK, BudgetOK
  <2> QED
    BY <1>8, <2>2, <2>3, <2>4
    DEF ExecutorFails, Decided, TypeOK, ControlOK, handle
<1>9. CASE ExecutorExhausts
  <2>1. FinalizeBudgetExceeded(TRUE) \in Seq(Commit)
    BY <1>2, HelperTypes
  <2>2. Decided'
    BY <1>1, <1>9, <2>1, DecideType DEF ExecutorExhausts, ControlPoints
  <2>3. LocalOK'
    BY <1>9 DEF ExecutorExhausts, TypeOK, LocalOK, plan, turn
  <2>4. BudgetOK'
    BY <1>9, SpendType DEF ExecutorExhausts, SpendSome, TypeOK, BudgetOK
  <2> QED
    BY <1>9, <2>2, <2>3, <2>4
    DEF ExecutorExhausts, Decided, TypeOK, ControlOK, handle
<1>10. CASE CheckExecuted
  <2>1. /\ FinalizeCancelledRun(TRUE) \in Seq(Commit)
        /\ CompleteTask(cur) \in Seq(Commit)
    BY <1>2, HelperTypes
  <2>2. Decided'
    BY <1>1, <1>10, <2>1, DecideType DEF CheckExecuted, Accept, ControlPoints
  <2>5. LocalOK'
    <3>1. CASE cancel \/ Reflection
      BY <1>2, <1>10, <3>1
      DEF CheckExecuted, Accept, TypeOK, LocalOK, local, handle, plan, turn, calls, budget
    <3>2. CASE ~cancel /\ ~Reflection
      <4>1. /\ cur' = cur + 1 /\ outputs' = outputs \cup {cur}
            /\ UNCHANGED <<last, turn, tokens>>
        BY <1>10, <3>2 DEF CheckExecuted, Accept
      <4> QED
        BY <4>1 DEF TypeOK, LocalOK, turn
    <3> QED
      BY <3>1, <3>2
  <2>6. BudgetOK'
    BY <1>10
    DEF CheckExecuted, Accept, TypeOK, BudgetOK, local, handle, plan, turn, calls, budget
  <2> QED
    BY <1>10, <2>2, <2>5, <2>6
    DEF CheckExecuted, Accept, Decided, TypeOK, ControlOK, local, handle
<1>11. CASE ReflectorReturns
  <2>1. <<RecordReflection, Emit(Plain("task.reflected"))>> \in Seq(Commit)
    BY <1>2, CommitTypes, EventTypes DEF PlainEventTypes, SilentEventTypes
  <2>2. Decided'
    BY <1>1, <1>11, <2>1, DecideType DEF ReflectorReturns, ControlPoints
  <2>5. LocalOK'
    BY <1>11, <1>2
    DEF ReflectorReturns, TypeOK, LocalOK, local, handle, plan, turn, calls, budget, Verdicts
  <2>6. BudgetOK'
    BY <1>11, SpendType
    DEF ReflectorReturns, SpendSome, TypeOK, BudgetOK, local, handle, plan, turn, calls, budget
  <2> QED
    BY <1>11, <2>2, <2>5, <2>6
    DEF ReflectorReturns, Decided, TypeOK, ControlOK, local, handle
<1>12. CASE ReflectorExhausts
  <2>1. FinalizeBudgetExceeded(TRUE) \in Seq(Commit)
    BY <1>2, HelperTypes
  <2>2. Decided'
    BY <1>1, <1>12, <2>1, DecideType DEF ReflectorExhausts, ControlPoints
  <2>3. LocalOK'
    BY <1>12 DEF ReflectorExhausts, TypeOK, LocalOK, plan, turn
  <2>4. BudgetOK'
    BY <1>12, SpendType DEF ReflectorExhausts, SpendSome, TypeOK, BudgetOK
  <2> QED
    BY <1>12, <2>2, <2>3, <2>4
    DEF ReflectorExhausts, Decided, TypeOK, ControlOK, handle
<1> QED
  BY <1>3, <1>4, <1>5, <1>6, <1>7, <1>8, <1>9, <1>10, <1>11, <1>12 DEF Executing

(* Acting on a verdict (accept, retry, replan, abort) keeps the types.     *)
LEMMA JudgingType ==
    ASSUME TypeOK, Judging
    PROVE  TypeOK'
<1> USE LimitsAssumption, CapsAssumption, SwitchesAssumption
<1>1. <<>> \in Seq(Commit)
  OBVIOUS
<1>2. cur \in Nat
  BY DEF TypeOK, LocalOK
<1>3. CASE JudgedCancelled
  <2>1. FinalizeCancelledRun(TRUE) \in Seq(Commit)
    BY <1>2, HelperTypes
  <2>2. Decided'
    BY <1>1, <1>3, <2>1, DecideType DEF JudgedCancelled, ControlPoints
  <2> QED
    BY <1>3, <2>2
    DEF JudgedCancelled, Decided, TypeOK, ControlOK, LocalOK, BudgetOK,
       local, handle, plan, turn, budget
<1>4. CASE JudgedAccept
  <2>1. CompleteTask(cur) \in Seq(Commit)
    BY <1>2, HelperTypes
  <2>2. Decided'
    BY <1>1, <1>4, <2>1, DecideType DEF JudgedAccept, Accept, ControlPoints
  <2>5. LocalOK'
    BY <1>4, <1>2
    DEF JudgedAccept, Accept, TypeOK, LocalOK, local, handle, plan, turn, calls, budget
  <2>6. BudgetOK'
    BY <1>4
    DEF JudgedAccept, Accept, TypeOK, BudgetOK, local, handle, plan, turn, calls, budget
  <2> QED
    BY <1>4, <2>2, <2>5, <2>6
    DEF JudgedAccept, Accept, Decided, TypeOK, ControlOK, local, handle
<1>5. CASE JudgedRetry
  <2>1. <<MarkTask(cur, "retrying"), Emit(TaskEvent("task.retrying", cur))>> \in Seq(Commit)
    BY <1>2, CommitTypes, EventTypes DEF TaskStatuses, OpenTaskStatuses, TaskEventTypes
  <2>2. Decided'
    BY <1>1, <1>5, <2>1, DecideType DEF JudgedRetry, ChargeRetry, RetriesLeft, RetriesUsed, ControlPoints
  <2>5. LocalOK'
    BY <1>5, <1>2
    DEF JudgedRetry, ChargeRetry, RetriesLeft, RetriesUsed, TypeOK, LocalOK, local, handle, plan, turn, calls, budget
  <2>6. BudgetOK'
    <3>1. RetriesUsed(cur) \in 0 .. MaxRetries - 1
      BY <1>5 DEF JudgedRetry, RetriesLeft, RetriesUsed, TypeOK, BudgetOK
    <3>2. /\ retries' = [j \in DOMAIN retries \cup {cur} |->
                            IF j = cur THEN RetriesUsed(cur) + 1 ELSE retries[j]]
          /\ UNCHANGED <<calls, replansUsed>>
      BY <1>5 DEF JudgedRetry, ChargeRetry
    <3>3. /\ retries' = [i \in DOMAIN retries' |-> retries'[i]]
          /\ \A i \in DOMAIN retries' : i \in Nat /\ retries'[i] \in 1 .. MaxRetries
      <4>1. DOMAIN retries' = DOMAIN retries \cup {cur}
        BY <3>2
      <4>2. \A i \in DOMAIN retries : i \in Nat /\ retries[i] \in 1 .. MaxRetries
        BY DEF TypeOK, BudgetOK
      <4> HIDE DEF RetriesUsed
      <4> QED
        BY <1>2, <3>1, <3>2, <4>1, <4>2
    <3> QED
      BY <3>2, <3>3 DEF TypeOK, BudgetOK, calls
  <2> QED
    BY <1>5, <2>2, <2>5, <2>6
    DEF JudgedRetry, ChargeRetry, RetriesLeft, RetriesUsed, Decided, TypeOK, ControlOK, local, handle
<1>6. CASE JudgedReplan
  <2>2. Decided'
    BY <1>1, <1>6, DecideType DEF JudgedReplan, ReplansLeft, ControlPoints
  <2>3. LocalOK'
    BY <1>6 DEF JudgedReplan, TypeOK, LocalOK, plan, turn
  <2>4. BudgetOK'
    BY <1>6 DEF JudgedReplan, ReplansLeft, TypeOK, BudgetOK, calls
  <2> QED
    BY <1>6, <2>2, <2>3, <2>4
    DEF JudgedReplan, Decided, TypeOK, ControlOK, handle
<1>7. CASE JudgedAbort
  <2>1. /\ FailTask(cur) \o <<SkipPending>> \o FinalizeFailed("aborted") \in Seq(Commit)
        /\ FailTask(cur) \o <<SkipPending>> \in Seq(Commit)
    BY <1>2, HelperTypes, CommitTypes DEF Errors
  <2>2. Decided'
    BY <1>1, <1>7, <2>1, DecideType DEF JudgedAbort, ControlPoints
  <2> QED
    BY <1>7, <2>2
    DEF JudgedAbort, Decided, TypeOK, ControlOK, LocalOK, BudgetOK,
       local, handle, plan, turn, budget
<1>8. CASE ReplanReturns
  <2>1. FinalizeCancelledRun(TRUE) \in Seq(Commit)
    BY <1>2, HelperTypes
  <2>3. \A n \in 1 .. MaxTasks :
           <<DropTasks(Dropped), EmitSkipped(Dropped), AddTasks(StartIndex, n),
             Emit(ReplanEvent(Dropped, StartIndex, n))>> \in Seq(Commit)
    <3>1. Dropped \in SUBSET Nat /\ StartIndex \in Nat
      BY <1>2 DEF Dropped, StartIndex, TypeOK, LocalOK
    <3> TAKE n \in 1 .. MaxTasks
    <3>2. n \in Nat
      OBVIOUS
    <3>3. DropTasks(Dropped) \in Commit /\ EmitSkipped(Dropped) \in Commit
      BY <3>1, CommitTypes
    <3>4. AddTasks(StartIndex, n) \in Commit
      BY <3>1, <3>2, CommitTypes
    <3>5. Emit(ReplanEvent(Dropped, StartIndex, n)) \in Commit
      BY <3>1, <3>2, CommitTypes, EventTypes
    <3> QED
      BY <3>3, <3>4, <3>5
  <2>4. StartIndex \in Nat /\ \A n \in 1 .. MaxTasks : StartIndex + n - 1 \in Nat
    BY DEF StartIndex, TypeOK, LocalOK
  <2>2. /\ Decided'
        /\ cur' \in Nat /\ last' \in Nat /\ outputs' \in SUBSET Nat
    <3>1. CASE cancel
      BY <3>1, <1>8, <2>1, DecideType
      DEF ReplanReturns, ControlPoints, plan, TypeOK, LocalOK
    <3>2. CASE ~cancel
      BY <3>2, <1>8, <2>3, <2>4, DecideType
      DEF ReplanReturns, ControlPoints, TypeOK, LocalOK
    <3> QED
      BY <3>1, <3>2
  <2>5. LocalOK'
    BY <1>8, <2>2 DEF ReplanReturns, TypeOK, LocalOK, turn
  <2>6. BudgetOK'
    BY <1>8, SpendType DEF ReplanReturns, SpendSome, TypeOK, BudgetOK
  <2> QED
    BY <1>8, <2>2, <2>5, <2>6
    DEF ReplanReturns, Decided, TypeOK, ControlOK, handle
<1>9. CASE ReplanFails
  <2>1. FailTask(cur) \o FinalizeFailed("replan") \in Seq(Commit)
    BY <1>2, HelperTypes DEF Errors
  <2>2. Decided'
    BY <1>1, <1>9, <2>1, DecideType DEF ReplanFails, ControlPoints
  <2>3. LocalOK'
    BY <1>9 DEF ReplanFails, TypeOK, LocalOK, plan, turn
  <2>4. BudgetOK'
    BY <1>9, SpendType DEF ReplanFails, SpendSome, TypeOK, BudgetOK
  <2> QED
    BY <1>9, <2>2, <2>3, <2>4
    DEF ReplanFails, Decided, TypeOK, ControlOK, handle
<1>10. CASE ReplanExhausts
  <2>1. FinalizeBudgetExceeded(TRUE) \in Seq(Commit)
    BY <1>2, HelperTypes
  <2>2. Decided'
    BY <1>1, <1>10, <2>1, DecideType DEF ReplanExhausts, ControlPoints
  <2>3. LocalOK'
    BY <1>10 DEF ReplanExhausts, TypeOK, LocalOK, plan, turn
  <2>4. BudgetOK'
    BY <1>10, SpendType DEF ReplanExhausts, SpendSome, TypeOK, BudgetOK
  <2> QED
    BY <1>10, <2>2, <2>3, <2>4
    DEF ReplanExhausts, Decided, TypeOK, ControlOK, handle
<1>11. CASE ReplyRaises
  <2>1. FinalizeFailed("unexpected") \in Seq(Commit)
    BY <1>2, HelperTypes DEF Errors
  <2>2. Decided'
    BY <1>1, <1>11, <2>1, DecideType DEF ReplyRaises, ControlPoints
  <2>3. LocalOK'
    BY <1>11 DEF ReplyRaises, TypeOK, LocalOK, plan, turn
  <2>4. BudgetOK'
    BY <1>11, SpendType DEF ReplyRaises, SpendSome, TypeOK, BudgetOK
  <2> QED
    BY <1>11, <2>2, <2>3, <2>4
    DEF ReplyRaises, Decided, TypeOK, ControlOK, handle
<1> QED
  BY <1>3, <1>4, <1>5, <1>6, <1>7, <1>8, <1>9, <1>10, <1>11 DEF Judging

(* Synthesizing, streaming, the memory and the cleanup keep the types.     *)
LEMMA AnsweringType ==
    ASSUME TypeOK, Answering
    PROVE  TypeOK'
<1> USE LimitsAssumption, CapsAssumption, SwitchesAssumption
<1>1. <<>> \in Seq(Commit)
  OBVIOUS
<1>2. cur \in Nat
  BY DEF TypeOK, LocalOK
<1>3. CASE PartialReturns
  <2>1. <<SetPartialAnswer, Emit([type |-> "answer.completed", text |-> "partial"])>>
             \o FinalizeFailed("aborted") \in Seq(Commit)
    BY <1>2, HelperTypes, CommitTypes, EventTypes DEF Answers, Errors
  <2>2. Decided'
    BY <1>1, <1>3, <2>1, DecideType DEF PartialReturns, Synthesizes, AfterAnswer, ControlPoints
  <2>3. LocalOK'
    BY <1>3 DEF PartialReturns, TypeOK, LocalOK, plan, turn
  <2>4. BudgetOK'
    BY <1>3, SpendType DEF PartialReturns, Synthesizes, SpendSome, TypeOK, BudgetOK, calls
  <2> QED
    BY <1>3, <2>2, <2>3, <2>4
    DEF PartialReturns, Decided, TypeOK, ControlOK, handle
<1>4. CASE PartialFails
  <2>1. FinalizeFailed("llm") \in Seq(Commit)
    BY <1>2, HelperTypes DEF Errors
  <2>2. Decided'
    BY <1>1, <1>4, <2>1, DecideType DEF PartialFails, ControlPoints
  <2>3. LocalOK'
    BY <1>4 DEF PartialFails, TypeOK, LocalOK, plan, turn
  <2>4. BudgetOK'
    BY <1>4, SpendType DEF PartialFails, SpendSome, TypeOK, BudgetOK
  <2> QED
    BY <1>4, <2>2, <2>3, <2>4
    DEF PartialFails, Decided, TypeOK, ControlOK, handle
<1>5. CASE PartialExhausts
  <2>1. FinalizeBudgetExceeded(FALSE) \in Seq(Commit)
    BY <1>2, HelperTypes
  <2>2. Decided'
    BY <1>1, <1>5, <2>1, DecideType DEF PartialExhausts, ControlPoints
  <2>3. LocalOK'
    BY <1>5 DEF PartialExhausts, TypeOK, LocalOK, plan, turn
  <2>4. BudgetOK'
    BY <1>5, SpendType DEF PartialExhausts, SpendSome, TypeOK, BudgetOK
  <2> QED
    BY <1>5, <2>2, <2>3, <2>4
    DEF PartialExhausts, Decided, TypeOK, ControlOK, handle
<1>6. CASE CheckSynthesis
  <2>1. FinalizeCancelled \in Seq(Commit)
    BY <1>2, HelperTypes
  <2>2. Decided'
    BY <1>1, <1>6, <2>1, DecideType DEF CheckSynthesis, ControlPoints
  <2> QED
    BY <1>6, <2>2
    DEF CheckSynthesis, Decided, TypeOK, ControlOK, LocalOK, BudgetOK,
       local, handle, plan, turn, budget
<1>7. CASE AnswerReturns
  <2>2. Decided'
    BY <1>1, <1>7, DecideType DEF AnswerReturns, Synthesizes, ControlPoints
  <2>5. LocalOK'
    BY <1>7, <1>2
    DEF AnswerReturns, Synthesizes, TypeOK, LocalOK, local, handle, plan, turn, calls, budget
  <2>6. BudgetOK'
    BY <1>7, SpendType
    DEF AnswerReturns, Synthesizes, SpendSome, TypeOK, BudgetOK, local, handle, plan, turn, calls, budget
  <2> QED
    BY <1>7, <2>2, <2>5, <2>6
    DEF AnswerReturns, Synthesizes, Decided, TypeOK, ControlOK, local, handle
<1>8. CASE AnswerFails
  <2>1. FinalizeFailed("llm") \in Seq(Commit)
    BY <1>2, HelperTypes DEF Errors
  <2>2. Decided'
    BY <1>1, <1>8, <2>1, DecideType DEF AnswerFails, ControlPoints
  <2>3. LocalOK'
    BY <1>8 DEF AnswerFails, TypeOK, LocalOK, plan, turn
  <2>4. BudgetOK'
    BY <1>8, SpendType DEF AnswerFails, SpendSome, TypeOK, BudgetOK
  <2> QED
    BY <1>8, <2>2, <2>3, <2>4
    DEF AnswerFails, Decided, TypeOK, ControlOK, handle
<1>9. CASE AnswerExhausts
  <2>1. FinalizeBudgetExceeded(FALSE) \in Seq(Commit)
    BY <1>2, HelperTypes
  <2>2. Decided'
    BY <1>1, <1>9, <2>1, DecideType DEF AnswerExhausts, ControlPoints
  <2>3. LocalOK'
    BY <1>9 DEF AnswerExhausts, TypeOK, LocalOK, plan, turn
  <2>4. BudgetOK'
    BY <1>9, SpendType DEF AnswerExhausts, SpendSome, TypeOK, BudgetOK
  <2> QED
    BY <1>9, <2>2, <2>3, <2>4
    DEF AnswerExhausts, Decided, TypeOK, ControlOK, handle
<1>10. CASE StreamToken
  <2>1. /\ FinalizeCancelled \in Seq(Commit)
        /\ <<Emit(Plain("answer.token"))>> \in Seq(Commit)
    BY <1>2, HelperTypes, CommitTypes, EventTypes DEF PlainEventTypes, SilentEventTypes
  <2>2. Decided'
    BY <1>1, <1>10, <2>1, DecideType DEF StreamToken, ControlPoints
  <2>3. tokens' \in 0 .. MaxTokens
    BY <1>10 DEF StreamToken, TypeOK, LocalOK
  <2> QED
    BY <1>10, <2>2, <2>3
    DEF StreamToken, Decided, TypeOK, ControlOK, LocalOK, BudgetOK,
       handle, plan, turn, budget
<1>11. CASE StreamDone
  <2>1. FinalizeDone \in Seq(Commit)
    BY <1>2, HelperTypes
  <2>2. Decided'
    BY <1>1, <1>11, <2>1, DecideType DEF StreamDone, AfterAnswer, ControlPoints
  <2> QED
    BY <1>11, <2>2
    DEF StreamDone, AfterAnswer, Decided, TypeOK, ControlOK, LocalOK, BudgetOK,
       local, handle, plan, turn, budget
<1>12. CASE WriteMemory
  <2>1. <<Emit(Plain("memory.written"))>> \in Seq(Commit)
    BY <1>2, CommitTypes, EventTypes DEF PlainEventTypes, SilentEventTypes
  <2>2. Decided'
    BY <1>1, <1>12, <2>1, DecideType DEF WriteMemory, ControlPoints
  <2>3. LocalOK'
    BY <1>12 DEF WriteMemory, TypeOK, LocalOK, plan, turn
  <2>4. BudgetOK'
    BY <1>12, SpendType DEF WriteMemory, SpendSome, TypeOK, BudgetOK
  <2> QED
    BY <1>12, <2>2, <2>3, <2>4
    DEF WriteMemory, Decided, TypeOK, ControlOK, handle
<1>13. CASE Cleanup
  <2>2. Decided'
    BY <1>1, <1>13, DecideType DEF Cleanup, ControlPoints
  <2> QED
    BY <1>13, <2>2
    DEF Cleanup, Decided, TypeOK, ControlOK, LocalOK, BudgetOK,
       local, handle, plan, turn, budget
<1> QED
  BY <1>3, <1>4, <1>5, <1>6, <1>7, <1>8, <1>9, <1>10, <1>11, <1>12, <1>13 DEF Answering

(* The first commit waiting is of a known kind, and the rest stay.         *)
LEMMA HeadOfTodo ==
    ASSUME TypeOK, todo # <<>>
    PROVE  Head(todo) \in Commit /\ Tail(todo) \in Seq(Commit)
  BY DEF TypeOK, ControlOK

(* Performing the first commit leaves control and local state well-typed.  *)
LEMMA PerformedType ==
    ASSUME TypeOK, todo # <<>>, Performed, RowsOK', IsReplayState(view)'
    PROVE  TypeOK'
  BY HeadOfTodo DEF Performed, TypeOK, ControlOK, LocalOK, BudgetOK,
     local, handle, plan, turn, budget

(* Every kind of commit keeps the rows and the fold well-typed.            *)
LEMMA CommittingType ==
    ASSUME TypeOK, Committing
    PROVE  TypeOK'
<1>1. todo # <<>>
  BY DEF Committing, CommitStatus, CommitFailed, CommitDone, CommitPartialAnswer,
     CommitMark, CommitSkip, CommitDrop, CommitAdd, CommitAttempt, CommitReflection,
     CommitEmit, CommitEmitSkipped, Pending
<1>2. Head(todo) \in Commit /\ Tail(todo) \in Seq(Commit)
  BY <1>1, HeadOfTodo
<1>3. RowsOK /\ IsReplayState(view)
  BY DEF TypeOK
<1>4. CASE CommitStatus
  <2>1. RowsOK'
    BY <1>2, <1>3, <1>4, CommitFields DEF CommitStatus, Pending, RowsOK
  <2>2. IsReplayState(view)'
    BY <1>3, <1>4 DEF CommitStatus, IsReplayState
  <2> QED
    BY <1>1, <1>4, <2>1, <2>2, PerformedType DEF CommitStatus
<1>5. CASE CommitFailed
  <2>1. RowsOK'
    BY <1>2, <1>3, <1>5, CommitFields DEF CommitFailed, Pending, RowsOK, RunStatuses
  <2>2. IsReplayState(view)'
    BY <1>3, <1>5 DEF CommitFailed, IsReplayState
  <2> QED
    BY <1>1, <1>5, <2>1, <2>2, PerformedType DEF CommitFailed
<1>6. CASE CommitDone
  <2>1. RowsOK'
    BY <1>2, <1>3, <1>6, CommitFields DEF CommitDone, Pending, RowsOK, RunStatuses, Answers
  <2>2. IsReplayState(view)'
    BY <1>3, <1>6 DEF CommitDone, IsReplayState
  <2> QED
    BY <1>1, <1>6, <2>1, <2>2, PerformedType DEF CommitDone
<1>7. CASE CommitPartialAnswer
  <2>1. RowsOK'
    BY <1>2, <1>3, <1>7, CommitFields DEF CommitPartialAnswer, Pending, RowsOK, Answers
  <2>2. IsReplayState(view)'
    BY <1>3, <1>7 DEF CommitPartialAnswer, IsReplayState
  <2> QED
    BY <1>1, <1>7, <2>1, <2>2, PerformedType DEF CommitPartialAnswer
<1>8. CASE CommitMark
  <2>0. Head(todo).index \in Nat /\ Head(todo).status \in TaskStatuses
    BY <1>2, <1>8, CommitFields DEF CommitMark, Pending
  <2>1. IsChecklist(tasks')
    <3> DEFINE index == Head(todo).index
               new == Head(todo).status
    <3>1. tasks' = [i \in DOMAIN tasks |-> IF i = index THEN new ELSE tasks[i]]
      BY <1>8 DEF CommitMark
    <3>2. new \in TaskStatuses /\ \A i \in DOMAIN tasks : i \in Nat /\ tasks[i] \in TaskStatuses
      BY <1>3, <2>0 DEF RowsOK, IsChecklist
    <3>3. DOMAIN tasks' = DOMAIN tasks
      BY <3>1
    <3>4. \A i \in DOMAIN tasks' : i \in Nat /\ tasks'[i] \in TaskStatuses
      BY <3>1, <3>2
    <3>5. tasks' = [i \in DOMAIN tasks' |-> tasks'[i]]
      BY <3>1
    <3> QED
      BY <3>4, <3>5 DEF IsChecklist
  <2>2. /\ attempts' = [i \in DOMAIN tasks' |-> attempts'[i]]
        /\ \A i \in DOMAIN tasks' : attempts'[i] \in Nat
    BY <1>2, <1>3, <1>8, CommitFields DEF CommitMark, Pending, RowsOK
  <2>3. RowsOK'
    BY <1>3, <1>8, <2>1, <2>2 DEF CommitMark, RowsOK
  <2>4. IsReplayState(view)'
    BY <1>3, <1>8 DEF CommitMark, IsReplayState
  <2> QED
    BY <1>1, <1>8, <2>3, <2>4, PerformedType DEF CommitMark
<1>9. CASE CommitDrop
  <2>1. IsChecklist(tasks)'
    BY <1>2, <1>3, <1>9
    DEF CommitDrop, Pending, RowsOK, IsChecklist, TaskStatuses, TerminalTaskStatuses
  <2>2. /\ attempts' = [i \in DOMAIN tasks' |-> attempts'[i]]
        /\ \A i \in DOMAIN tasks' : attempts'[i] \in Nat
    BY <1>2, <1>3, <1>9, CommitFields DEF CommitDrop, Pending, RowsOK
  <2>3. RowsOK'
    BY <1>3, <1>9, <2>1, <2>2 DEF CommitDrop, RowsOK
  <2>4. IsReplayState(view)'
    BY <1>3, <1>9 DEF CommitDrop, IsReplayState
  <2> QED
    BY <1>1, <1>9, <2>3, <2>4, PerformedType DEF CommitDrop
<1>10. CASE CommitAdd
  <2>0. Head(todo).start \in Nat /\ Head(todo).count \in Nat
    BY <1>2, <1>10, CommitFields DEF CommitAdd, Pending
  <2>1. IsChecklist(tasks')
    BY <1>3, <1>10, <2>0, WithPlanType DEF CommitAdd, RowsOK
  <2>2. /\ attempts' = [i \in DOMAIN tasks' |-> attempts'[i]]
        /\ \A i \in DOMAIN tasks' : attempts'[i] \in Nat
    BY <1>2, <1>3, <1>10, CommitFields DEF CommitAdd, Pending, RowsOK, WithPlan
  <2>3. RowsOK'
    BY <1>3, <1>10, <2>1, <2>2 DEF CommitAdd, RowsOK
  <2>4. IsReplayState(view)'
    BY <1>3, <1>10 DEF CommitAdd, IsReplayState
  <2> QED
    BY <1>1, <1>10, <2>3, <2>4, PerformedType DEF CommitAdd
<1>11. CASE CommitAttempt
  <2>1. IsChecklist(tasks)'
    BY <1>2, <1>3, <1>11
    DEF CommitAttempt, Pending, RowsOK, IsChecklist, TaskStatuses, TerminalTaskStatuses
  <2>2. /\ attempts' = [i \in DOMAIN tasks' |-> attempts'[i]]
        /\ \A i \in DOMAIN tasks' : attempts'[i] \in Nat
    BY <1>2, <1>3, <1>11, CommitFields DEF CommitAttempt, Pending, RowsOK
  <2>3. RowsOK'
    BY <1>3, <1>11, <2>1, <2>2 DEF CommitAttempt, RowsOK
  <2>4. IsReplayState(view)'
    BY <1>3, <1>11 DEF CommitAttempt, IsReplayState
  <2> QED
    BY <1>1, <1>11, <2>3, <2>4, PerformedType DEF CommitAttempt
<1>12. CASE CommitReflection
  BY <1>1, <1>3, <1>12, PerformedType DEF CommitReflection, durable, RowsOK, IsReplayState
<1>13. CASE CommitEmit
  <2>1. RowsOK'
    BY <1>3, <1>13 DEF CommitEmit, rows, RowsOK
  <2>2. IsReplayState(view')
    BY <1>2, <1>3, <1>13, CommitFields, FoldStepType DEF CommitEmit, Pending
  <2> QED
    BY <1>1, <1>13, <2>1, <2>2, PerformedType DEF CommitEmit, IsReplayState
<1>14. CASE CommitSkip
  <2> DEFINE pending == {i \in DOMAIN tasks : tasks[i] = "pending"}
  <2>1. /\ tasks' = [i \in DOMAIN tasks |-> IF i \in pending THEN "skipped" ELSE tasks[i]]
        /\ todo' = IF pending = {}
                   THEN Tail(todo) ELSE <<EmitSkipped(pending)>> \o Tail(todo)
        /\ UNCHANGED <<pc, local, status, answer, error, attempts, view>>
    BY <1>14 DEF CommitSkip
  <2>2. pending \in SUBSET Nat
    BY <1>3 DEF RowsOK, IsChecklist
  <2>3. EmitSkipped(pending) \in Commit
    BY <2>2, CommitTypes
  <2>4. todo' \in Seq(Commit)
    BY <1>2, <2>1, <2>3
  <2>5. RowsOK'
    BY <1>3, <2>1 DEF RowsOK, IsChecklist, TaskStatuses, TerminalTaskStatuses
  <2>6. IsReplayState(view)'
    BY <1>3, <2>1 DEF IsReplayState
  <2> QED
    BY <2>1, <2>4, <2>5, <2>6 DEF TypeOK, ControlOK, LocalOK, BudgetOK, local, handle, plan, turn, budget
<1>15. CASE CommitEmitSkipped
  <2>1. Head(todo).tasks \in SUBSET Nat
    BY <1>2, <1>15, CommitFields DEF CommitEmitSkipped, Pending
  <2>2. PICK i \in Head(todo).tasks :
           /\ view' = FoldStep(view, TaskEvent("task.skipped", i))
           /\ todo' = IF Head(todo).tasks = {i}
                      THEN Tail(todo)
                      ELSE <<EmitSkipped(Head(todo).tasks \ {i})>> \o Tail(todo)
    BY <1>15 DEF CommitEmitSkipped
  <2>3. UNCHANGED <<pc, local, rows>>
    BY <1>15 DEF CommitEmitSkipped
  <2>4. EmitSkipped(Head(todo).tasks \ {i}) \in Commit
    BY <2>1, CommitTypes
  <2>5. todo' \in Seq(Commit)
    BY <1>2, <2>2, <2>4
  <2>6. TaskEvent("task.skipped", i) \in Event
    BY <2>1, EventTypes DEF TaskEventTypes
  <2>7. IsReplayState(view')
    BY <1>3, <2>2, <2>6, FoldStepType
  <2>8. RowsOK'
    BY <1>3, <2>3 DEF RowsOK, rows
  <2> QED
    BY <2>3, <2>5, <2>7, <2>8
    DEF IsReplayState, TypeOK, ControlOK, LocalOK, BudgetOK, local, handle, plan, turn, budget
<1> QED
  BY <1>4, <1>5, <1>6, <1>7, <1>8, <1>9, <1>10, <1>11, <1>12, <1>13, <1>14, <1>15 DEF Committing

LEMMA TypeStep ==
    ASSUME TypeOK, [Next]_vars
    PROVE  TypeOK'
<1>1. CASE CreateRun
  <2>1. <<Emit(Plain("run.created"))>> \in Seq(Commit)
    BY CommitTypes, EventTypes DEF PlainEventTypes
  <2> QED
    BY <1>1, <2>1
    DEF CreateRun, TypeOK, RowsOK, IsReplayState, ControlOK, LocalOK, BudgetOK,
        RunStatuses, ControlPoints, local, handle, plan, turn, budget
<1>2. CASE CancelRun
  BY <1>2 DEF CancelRun, TypeOK, RowsOK, IsReplayState, ControlOK, LocalOK, BudgetOK,
     durable, plan, turn, budget
<1>3. CASE Execute
  BY <1>3, PlanningType, ExecutingType, JudgingType, AnsweringType, CommittingType
  DEF Execute
<1>4. CASE Ended \/ UNCHANGED vars
  BY <1>4 DEF Ended, vars, durable, TypeOK, RowsOK, IsReplayState, ControlOK, LocalOK,
     BudgetOK, local, handle, plan, turn, budget
<1> QED
  BY <1>1, <1>2, <1>3, <1>4 DEF Next

LEMMA InitTypes == ASSUME Init PROVE TypeOK
<1>1. IsChecklist(NoTasks)
  BY DEF IsChecklist, NoTasks
<1>2. RowsOK
  BY <1>1 DEF Init, RowsOK, NoTasks, Answers, Errors
<1>3. IsReplayState(view)
  BY <1>1 DEF Init, IsReplayState, ReplayState0, RunStatuses, Answers, Errors
<1>4. ControlOK
  <2>1. pc \in ControlPoints /\ registered \in BOOLEAN /\ cancel \in BOOLEAN
    BY DEF Init, ControlPoints
  <2>2. todo \in Seq(Commit)
    BY DEF Init
  <2> QED
    BY <2>1, <2>2 DEF ControlOK
<1>6. LocalOK
  BY LimitsAssumption, CapsAssumption DEF Init, LocalOK, Verdicts
<1>5. BudgetOK
  BY LimitsAssumption, CapsAssumption DEF Init, BudgetOK
<1> QED
  BY <1>2, <1>3, <1>4, <1>5, <1>6 DEF TypeOK

(* Every state has the types declared for it: rows, ledger view, pending   *)
(* commits, and counters that never pass the limits of the run's budget.   *)
THEOREM TypeInvariant == Spec => []TypeOK
<1>1. Init => TypeOK
  BY InitTypes
<1> QED
  BY <1>1, TypeStep, PTL DEF Spec

-----------------------------------------------------------------------------
(* Finality of the outcome                                                 *)
(*                                                                         *)
(* Why a finished run cannot change: once a commit that ends the run is    *)
(* decided on, the decisions left (the memory, the cleanup) decide on no   *)
(* commit that writes the run's status, answer or error, and behind the    *)
(* ending commit itself nothing waits that does.                           *)

Closes(c) ==
    \/ c.op \in {"failed", "done"}
    \/ c.op = "status" /\ c.status \in TerminalRunStatuses

Writes(c) == c.op \in {"status", "failed", "done", "answer"}

NoWrite(s) == \A k \in 1 .. Len(s) : ~Writes(s[k])
NoClose(s) == \A k \in 1 .. Len(s) : ~Closes(s[k])
ClosesLast(s) ==
    \A k, m \in 1 .. Len(s) : k < m /\ Closes(s[k]) => ~Writes(s[m])

ClosedPoints == {"memory", "finished", "handled", "ended"}

OutcomeInv ==
    /\ ClosesLast(todo)
    /\ pc \notin ClosedPoints => NoClose(todo) /\ status \notin TerminalRunStatuses
    /\ status \in TerminalRunStatuses => NoWrite(todo)

(* Appending to a sequence that does not end the run.                      *)
LEMMA ConcatCloses ==
    ASSUME NEW s \in Seq(Commit), NEW t \in Seq(Commit), NoClose(s)
    PROVE  /\ ClosesLast(t) => ClosesLast(s \o t)
           /\ NoClose(t) => NoClose(s \o t)
           /\ NoWrite(s) /\ NoWrite(t) => NoWrite(s \o t)
<1> DEFINE st == s \o t
<1>1. /\ Len(s) \in Nat /\ Len(t) \in Nat
      /\ Len(st) = Len(s) + Len(t)
  OBVIOUS
<1>2. \A k \in 1 .. Len(st) :
          \/ k \in 1 .. Len(s) /\ st[k] = s[k]
          \/ k - Len(s) \in 1 .. Len(t) /\ st[k] = t[k - Len(s)]
  BY <1>1
<1> HIDE DEF st
<1>3. NoClose(t) => NoClose(st)
  BY <1>2 DEF NoClose
<1>4. NoWrite(s) /\ NoWrite(t) => NoWrite(st)
  BY <1>2 DEF NoWrite
<1>5. ASSUME ClosesLast(t), NEW k \in 1 .. Len(st), NEW m \in 1 .. Len(st),
             k < m, Closes(st[k])
      PROVE  ~Writes(st[m])
  <2>1. k - Len(s) \in 1 .. Len(t) /\ st[k] = t[k - Len(s)]
    BY <1>2, <1>5 DEF NoClose
  <2>2. m - Len(s) \in 1 .. Len(t) /\ st[m] = t[m - Len(s)]
    BY <1>1, <1>2, <1>5, <2>1
  <2> QED
    BY <1>1, <1>5, <2>1, <2>2 DEF ClosesLast
<1> QED
  BY <1>3, <1>4, <1>5 DEF ClosesLast, st

(* Performing the first commit of a sequence that ends the run with its    *)
(* last write leaves a sequence that does, or that writes nothing.         *)
LEMMA TailCloses ==
    ASSUME NEW s \in Seq(Commit), s # <<>>
    PROVE  /\ ClosesLast(s) => ClosesLast(Tail(s))
           /\ NoClose(s) => NoClose(Tail(s)) /\ ~Closes(Head(s))
           /\ NoWrite(s) => NoWrite(Tail(s)) /\ ~Writes(Head(s))
           /\ ClosesLast(s) /\ Closes(Head(s)) => NoWrite(Tail(s))
  BY DEF ClosesLast, NoClose, NoWrite

(* The helpers that end a task do not end the run, and those that end the  *)
(* run write nothing of it afterwards.                                     *)
LEMMA HelperCloses ==
    ASSUME cur \in Nat
    PROVE  /\ \A i \in Nat : /\ NoClose(FailTask(i))
                             /\ NoClose(CancelTask(i))
                             /\ NoClose(CompleteTask(i))
           /\ \A e \in Errors : ClosesLast(FinalizeFailed(e))
           /\ ClosesLast(FinalizeCancelled)
           /\ ClosesLast(FinalizeDone)
           /\ \A b \in BOOLEAN : /\ ClosesLast(FinalizeCancelledRun(b))
                                 /\ ClosesLast(FinalizeBudgetExceeded(b))
<1>1. \A i \in Nat : /\ NoClose(FailTask(i))
                     /\ NoClose(CancelTask(i))
                     /\ NoClose(CompleteTask(i))
  BY DEF NoClose, Closes, FailTask, CancelTask, CompleteTask, MarkTask, Emit
<1>2. /\ \A e \in Errors : ClosesLast(FinalizeFailed(e))
      /\ ClosesLast(FinalizeCancelled)
      /\ ClosesLast(FinalizeDone)
  BY DEF ClosesLast, Writes, FinalizeFailed, FinalizeCancelled, FinalizeDone, Emit
<1> DEFINE skip == <<SkipPending>>
<1>3. /\ skip \in Seq(Commit) /\ NoClose(skip)
      /\ <<>> \in Seq(Commit) /\ NoClose(<<>>)
  BY CommitTypes DEF NoClose, Closes, SkipPending
<1> HIDE DEF skip
<1>4. /\ <<Emit(Plain("budget.exceeded"))>> \in Seq(Commit)
      /\ NoClose(<<Emit(Plain("budget.exceeded"))>>)
  BY CommitTypes, EventTypes DEF PlainEventTypes, SilentEventTypes, NoClose, Closes, Emit
<1>5. ASSUME NEW b \in BOOLEAN PROVE ClosesLast(FinalizeCancelledRun(b))
  <2> DEFINE first == IF b THEN CancelTask(cur) ELSE <<>>
  <2>1. first \in Seq(Commit) /\ NoClose(first)
    BY <1>1, <1>3, HelperTypes
  <2> HIDE DEF first
  <2>2. first \o skip \in Seq(Commit) /\ NoClose(first \o skip)
    BY <1>3, <2>1, ConcatCloses
  <2>3. FinalizeCancelled \in Seq(Commit)
    BY HelperTypes
  <2> QED
    BY <1>2, <2>2, <2>3, ConcatCloses DEF FinalizeCancelledRun, first, skip
<1>6. ASSUME NEW b \in BOOLEAN PROVE ClosesLast(FinalizeBudgetExceeded(b))
  <2> DEFINE first == <<Emit(Plain("budget.exceeded"))>>
             second == IF b THEN FailTask(cur) ELSE <<>>
             both == first \o second
             front == both \o skip
  <2>1. second \in Seq(Commit) /\ NoClose(second)
    BY <1>1, <1>3, HelperTypes
  <2>6. first \in Seq(Commit) /\ NoClose(first)
    BY <1>4
  <2> HIDE DEF first, second
  <2>2. both \in Seq(Commit) /\ NoClose(both)
    BY <2>1, <2>6, ConcatCloses
  <2> HIDE DEF both
  <2>3. front \in Seq(Commit) /\ NoClose(front)
    BY <1>3, <2>2, ConcatCloses
  <2>4. FinalizeFailed("budget") \in Seq(Commit) /\ ClosesLast(FinalizeFailed("budget"))
    BY <1>2, HelperTypes DEF Errors
  <2>5. ClosesLast(front \o FinalizeFailed("budget"))
    BY <2>3, <2>4, ConcatCloses
  <2> QED
    BY <1>5, <2>5 DEF FinalizeBudgetExceeded, first, second, both, skip
<1> QED
  BY <1>1, <1>2, <1>5, <1>6

(* A decision keeps the outcome settled if its commits end the run, if at all,  *)
(* with their last write, and only on the way to a closed point.           *)
LEMMA DecideOutcome ==
    ASSUME OutcomeInv, NEW from, NEW to, NEW commits, Decide(from, to, commits),
           from \notin ClosedPoints,
           (ClosesLast(commits) /\ to \in ClosedPoints) \/ NoClose(commits)
    PROVE  OutcomeInv'
  BY DEF OutcomeInv, Decide, durable, NoClose, ClosesLast

(* A decision taken at a closed point keeps the outcome settled if its     *)
(* commits write nothing of the outcome.                                   *)
LEMMA DecideClosed ==
    ASSUME OutcomeInv, NEW from, NEW to \in ClosedPoints, NEW commits,
           Decide(from, to, commits), NoWrite(commits)
    PROVE  OutcomeInv'
  BY DEF OutcomeInv, Decide, durable, NoWrite, ClosesLast

(* The decisions of planning keep the outcome settled.                     *)
LEMMA PlanningOutcome ==
    ASSUME TypeOK, OutcomeInv, Planning
    PROVE  OutcomeInv'
<1>1. NoClose(<<>>)
  BY DEF NoClose
<1>2. cur \in Nat
  BY DEF TypeOK, LocalOK
<1>3. CASE Register
  BY <1>1, <1>3, DecideOutcome DEF Register, ClosedPoints
<1>4. CASE StartPlanning
  <2>1. NoClose(<<SetStatus("planning"), Emit(Plain("run.started"))>>)
    BY DEF NoClose, Closes, SetStatus, Emit, TerminalRunStatuses
  <2> QED
    BY <1>1, <1>4, <2>1, DecideOutcome DEF StartPlanning, ClosedPoints
<1>5. CASE CheckPlanning
  <2>1. ClosesLast(FinalizeCancelled)
    BY <1>2, HelperCloses
  <2> QED
    BY <1>1, <1>5, <2>1, DecideOutcome DEF CheckPlanning, ClosedPoints
<1>6. CASE Recall
  <2>1. NoClose(<<Emit(Plain("memory.recalled"))>>)
    BY DEF NoClose, Closes, Emit
  <2> QED
    BY <1>1, <1>6, <2>1, DecideOutcome DEF Recall, ClosedPoints
<1>7. CASE PlannerReturns
  <2>1. \A n \in 1 .. MaxTasks :
           NoClose(<<AddTasks(0, n), Emit(PlanEvent(0, n))>>)
    BY DEF NoClose, Closes, AddTasks, Emit
  <2> QED
    BY <1>1, <1>7, <2>1, DecideOutcome DEF PlannerReturns, ClosedPoints
<1>8. CASE PlannerFails
  <2>1. \A e \in {"planning", "llm"} : ClosesLast(FinalizeFailed(e))
    BY <1>2, HelperCloses DEF Errors
  <2> QED
    BY <1>1, <1>8, <2>1, DecideOutcome DEF PlannerFails, ClosedPoints
<1>9. CASE PlannerExhausts
  <2>1. ClosesLast(FinalizeBudgetExceeded(FALSE))
    BY <1>2, HelperCloses
  <2> QED
    BY <1>1, <1>9, <2>1, DecideOutcome DEF PlannerExhausts, ClosedPoints
<1>10. CASE CheckPlanned
  <2>1. ClosesLast(FinalizeCancelledRun(FALSE))
    BY <1>2, HelperCloses
  <2>2. NoClose(<<SetStatus("running")>>)
    BY DEF NoClose, Closes, SetStatus, TerminalRunStatuses
  <2> QED
    BY <1>1, <1>10, <2>1, <2>2, DecideOutcome DEF CheckPlanned, ClosedPoints
<1> QED
  BY <1>3, <1>4, <1>5, <1>6, <1>7, <1>8, <1>9, <1>10 DEF Planning

(* The decisions of the task loop keep the outcome settled.                *)
LEMMA ExecutingOutcome ==
    ASSUME TypeOK, OutcomeInv, Executing
    PROVE  OutcomeInv'
<1>1. NoClose(<<>>)
  BY DEF NoClose
<1>2. cur \in Nat
  BY DEF TypeOK, LocalOK
<1>3. CASE StartTask
  <2>1. ClosesLast(FinalizeCancelledRun(FALSE))
    BY <1>2, HelperCloses
  <2>2. NoClose(<<MarkTask(cur, "running"), Emit(TaskEvent("task.started", cur))>>)
    BY DEF NoClose, Closes, MarkTask, Emit
  <2>3. CASE cancel
    BY <1>3, <2>1, <2>3, DecideOutcome DEF StartTask, ClosedPoints
  <2>4. CASE ~cancel
    <3>1. Decide("task", "execute",
                 <<MarkTask(cur, "running"), Emit(TaskEvent("task.started", cur))>>)
      BY <1>3, <2>4 DEF StartTask
    <3> QED
      BY <2>2, <3>1, DecideOutcome DEF ClosedPoints
  <2> QED
    BY <2>3, <2>4
<1>4. CASE TasksDone
  BY <1>1, <1>4, DecideOutcome DEF TasksDone, ClosedPoints
<1>5. CASE StartAttempt
  <2>1. ClosesLast(FinalizeCancelledRun(TRUE))
    BY <1>2, HelperCloses
  <2>2. NoClose(<<MarkTask(cur, "running")>>)
    BY DEF NoClose, Closes, MarkTask
  <2> QED
    BY <1>1, <1>5, <2>1, <2>2, DecideOutcome DEF StartAttempt, ClosedPoints
<1>6. CASE ExecutorReturns
  <2>1. NoClose(<<RecordAttempt(cur, attempt)>>)
    BY DEF NoClose, Closes, RecordAttempt
  <2> QED
    BY <1>1, <1>6, <2>1, DecideOutcome DEF ExecutorReturns, ClosedPoints
<1>7. CASE ExecutorCancelled
  <2>1. ClosesLast(FinalizeCancelledRun(TRUE))
    BY <1>2, HelperCloses
  <2> QED
    BY <1>1, <1>7, <2>1, DecideOutcome DEF ExecutorCancelled, ClosedPoints
<1>8. CASE ExecutorFails
  <2>1. ClosesLast(FinalizeCancelledRun(TRUE))
    BY <1>2, HelperCloses
  <2>2. NoClose(<<RecordAttempt(cur, attempt)>>)
    BY DEF NoClose, Closes, RecordAttempt
  <2>3. ClosesLast(FailTask(cur) \o FinalizeFailed("task"))
    BY <1>2, HelperTypes, HelperCloses, ConcatCloses DEF Errors
  <2> QED
    BY <1>1, <1>8, <2>1, <2>2, <2>3, DecideOutcome DEF ExecutorFails, ClosedPoints
<1>9. CASE ExecutorExhausts
  <2>1. ClosesLast(FinalizeBudgetExceeded(TRUE))
    BY <1>2, HelperCloses
  <2> QED
    BY <1>1, <1>9, <2>1, DecideOutcome DEF ExecutorExhausts, ClosedPoints
<1>10. CASE CheckExecuted
  <2>1. ClosesLast(FinalizeCancelledRun(TRUE))
    BY <1>2, HelperCloses
  <2>2. NoClose(CompleteTask(cur))
    BY <1>2, HelperCloses
  <2> QED
    BY <1>1, <1>10, <2>1, <2>2, DecideOutcome
    DEF CheckExecuted, Accept, ClosedPoints
<1>11. CASE ReflectorReturns
  <2>1. NoClose(<<RecordReflection, Emit(Plain("task.reflected"))>>)
    BY DEF NoClose, Closes, RecordReflection, Emit
  <2> QED
    BY <1>1, <1>11, <2>1, DecideOutcome DEF ReflectorReturns, ClosedPoints
<1>12. CASE ReflectorExhausts
  <2>1. ClosesLast(FinalizeBudgetExceeded(TRUE))
    BY <1>2, HelperCloses
  <2> QED
    BY <1>1, <1>12, <2>1, DecideOutcome DEF ReflectorExhausts, ClosedPoints
<1> QED
  BY <1>3, <1>4, <1>5, <1>6, <1>7, <1>8, <1>9, <1>10, <1>11, <1>12 DEF Executing

(* Failing the current task and skipping the rest does not end the run.    *)
LEMMA FailThenSkip ==
    ASSUME cur \in Nat
    PROVE  /\ NoClose(FailTask(cur) \o <<SkipPending>>)
           /\ FailTask(cur) \o <<SkipPending>> \in Seq(Commit)
<1> DEFINE skip == <<SkipPending>>
<1>1. skip \in Seq(Commit) /\ NoClose(skip)
  BY CommitTypes DEF NoClose, Closes, SkipPending
<1> HIDE DEF skip
<1>2. FailTask(cur) \in Seq(Commit) /\ NoClose(FailTask(cur))
  BY HelperTypes, HelperCloses
<1>3. NoClose(FailTask(cur) \o skip)
  BY <1>1, <1>2, ConcatCloses
<1>4. FailTask(cur) \o skip \in Seq(Commit)
  BY <1>1, <1>2
<1> QED
  BY <1>3, <1>4 DEF skip

(* The decisions on a verdict keep the outcome settled.                    *)
LEMMA JudgingOutcome ==
    ASSUME TypeOK, OutcomeInv, Judging
    PROVE  OutcomeInv'
<1>1. NoClose(<<>>)
  BY DEF NoClose
<1>2. cur \in Nat
  BY DEF TypeOK, LocalOK
<1>3. CASE JudgedCancelled
  <2>1. ClosesLast(FinalizeCancelledRun(TRUE))
    BY <1>2, HelperCloses
  <2> QED
    BY <1>1, <1>3, <2>1, DecideOutcome DEF JudgedCancelled, ClosedPoints
<1>4. CASE JudgedAccept
  <2>1. NoClose(CompleteTask(cur))
    BY <1>2, HelperCloses
  <2> QED
    BY <1>1, <1>4, <2>1, DecideOutcome DEF JudgedAccept, Accept, ClosedPoints
<1>5. CASE JudgedRetry
  <2>1. NoClose(<<MarkTask(cur, "retrying"), Emit(TaskEvent("task.retrying", cur))>>)
    BY DEF NoClose, Closes, MarkTask, Emit
  <2> QED
    BY <1>1, <1>5, <2>1, DecideOutcome DEF JudgedRetry, ClosedPoints
<1>6. CASE JudgedReplan
  BY <1>1, <1>6, DecideOutcome DEF JudgedReplan, ClosedPoints
<1>7. CASE JudgedAbort
  <2>1. /\ NoClose(FailTask(cur) \o <<SkipPending>>)
        /\ FailTask(cur) \o <<SkipPending>> \in Seq(Commit)
    BY <1>2, FailThenSkip
  <2>2. ClosesLast(FailTask(cur) \o <<SkipPending>> \o FinalizeFailed("aborted"))
    BY <1>2, <2>1, HelperTypes, HelperCloses, ConcatCloses DEF Errors
  <2> QED
    BY <1>1, <1>7, <2>1, <2>2, DecideOutcome DEF JudgedAbort, ClosedPoints
<1>8. CASE ReplanReturns
  <2>1. ClosesLast(FinalizeCancelledRun(TRUE))
    BY <1>2, HelperCloses
  <2>2. \A n \in 1 .. MaxTasks :
           NoClose(<<DropTasks(Dropped), EmitSkipped(Dropped), AddTasks(StartIndex, n),
                     Emit(ReplanEvent(Dropped, StartIndex, n))>>)
    BY DEF NoClose, Closes, DropTasks, EmitSkipped, AddTasks, Emit
  <2>3. CASE cancel
    BY <1>8, <2>1, <2>3, DecideOutcome DEF ReplanReturns, ClosedPoints
  <2>4. CASE ~cancel
    <3>1. PICK n \in 1 .. MaxTasks :
             Decide("replan", "task",
                    <<DropTasks(Dropped), EmitSkipped(Dropped), AddTasks(StartIndex, n),
                      Emit(ReplanEvent(Dropped, StartIndex, n))>>)
      BY <1>8, <2>4 DEF ReplanReturns
    <3> QED
      BY <2>2, <3>1, DecideOutcome DEF ClosedPoints
  <2> QED
    BY <2>3, <2>4
<1>9. CASE ReplanFails
  <2>1. ClosesLast(FailTask(cur) \o FinalizeFailed("replan"))
    BY <1>2, HelperTypes, HelperCloses, ConcatCloses DEF Errors
  <2> QED
    BY <1>1, <1>9, <2>1, DecideOutcome DEF ReplanFails, ClosedPoints
<1>10. CASE ReplanExhausts
  <2>1. ClosesLast(FinalizeBudgetExceeded(TRUE))
    BY <1>2, HelperCloses
  <2> QED
    BY <1>1, <1>10, <2>1, DecideOutcome DEF ReplanExhausts, ClosedPoints
<1>11. CASE ReplyRaises
  <2>1. ClosesLast(FinalizeFailed("unexpected"))
    BY <1>2, HelperCloses DEF Errors
  <2> QED
    BY <1>1, <1>11, <2>1, DecideOutcome DEF ReplyRaises, Parsing, ClosedPoints
<1> QED
  BY <1>3, <1>4, <1>5, <1>6, <1>7, <1>8, <1>9, <1>10, <1>11 DEF Judging

(* The decisions about the answer, the memory and the cleanup keep the     *)
(* outcome settled.                                                        *)
LEMMA AnsweringOutcome ==
    ASSUME TypeOK, OutcomeInv, Answering
    PROVE  OutcomeInv'
<1>1. NoClose(<<>>)
  BY DEF NoClose
<1>2. cur \in Nat
  BY DEF TypeOK, LocalOK
<1>3. CASE PartialReturns
  <2>1. /\ <<SetPartialAnswer, Emit([type |-> "answer.completed", text |-> "partial"])>> \in Seq(Commit)
        /\ NoClose(<<SetPartialAnswer, Emit([type |-> "answer.completed", text |-> "partial"])>>)
    BY CommitTypes, EventTypes DEF Answers, NoClose, Closes, SetPartialAnswer, Emit
  <2>2. FinalizeFailed("aborted") \in Seq(Commit) /\ ClosesLast(FinalizeFailed("aborted"))
    BY <1>2, HelperTypes, HelperCloses DEF Errors
  <2>3. ClosesLast(<<SetPartialAnswer, Emit([type |-> "answer.completed", text |-> "partial"])>>
                   \o FinalizeFailed("aborted"))
    BY <2>1, <2>2, ConcatCloses
  <2> QED
    BY <1>1, <1>3, <2>1, <2>2, <2>3, DecideOutcome
    DEF PartialReturns, AfterAnswer, ClosedPoints
<1>4. CASE PartialFails
  <2>1. ClosesLast(FinalizeFailed("llm"))
    BY <1>2, HelperCloses DEF Errors
  <2> QED
    BY <1>1, <1>4, <2>1, DecideOutcome DEF PartialFails, ClosedPoints
<1>5. CASE PartialExhausts
  <2>1. ClosesLast(FinalizeBudgetExceeded(FALSE))
    BY <1>2, HelperCloses
  <2> QED
    BY <1>1, <1>5, <2>1, DecideOutcome DEF PartialExhausts, ClosedPoints
<1>6. CASE CheckSynthesis
  <2>1. ClosesLast(FinalizeCancelled)
    BY <1>2, HelperCloses
  <2> QED
    BY <1>1, <1>6, <2>1, DecideOutcome DEF CheckSynthesis, ClosedPoints
<1>7. CASE AnswerReturns
  BY <1>1, <1>7, DecideOutcome DEF AnswerReturns, ClosedPoints
<1>8. CASE AnswerFails
  <2>1. ClosesLast(FinalizeFailed("llm"))
    BY <1>2, HelperCloses DEF Errors
  <2> QED
    BY <1>1, <1>8, <2>1, DecideOutcome DEF AnswerFails, ClosedPoints
<1>9. CASE AnswerExhausts
  <2>1. ClosesLast(FinalizeBudgetExceeded(FALSE))
    BY <1>2, HelperCloses
  <2> QED
    BY <1>1, <1>9, <2>1, DecideOutcome DEF AnswerExhausts, ClosedPoints
<1>10. CASE StreamToken
  <2>1. ClosesLast(FinalizeCancelled)
    BY <1>2, HelperCloses
  <2>2. NoClose(<<Emit(Plain("answer.token"))>>)
    BY DEF NoClose, Closes, Emit
  <2> QED
    BY <1>1, <1>10, <2>1, <2>2, DecideOutcome DEF StreamToken, ClosedPoints
<1>11. CASE StreamDone
  <2>1. ClosesLast(FinalizeDone)
    BY <1>2, HelperCloses
  <2> QED
    BY <1>1, <1>11, <2>1, DecideOutcome DEF StreamDone, AfterAnswer, ClosedPoints
<1>12. CASE WriteMemory
  <2>1. NoWrite(<<>>) /\ NoWrite(<<Emit(Plain("memory.written"))>>)
    BY DEF NoWrite, Writes, Emit
  <2> QED
    BY <1>1, <1>12, <2>1, DecideClosed DEF WriteMemory, ClosedPoints
<1>13. CASE Cleanup
  <2>1. NoWrite(<<>>)
    BY DEF NoWrite
  <2> QED
    BY <1>1, <1>13, <2>1, DecideClosed DEF Cleanup, ClosedPoints
<1> QED
  BY <1>3, <1>4, <1>5, <1>6, <1>7, <1>8, <1>9, <1>10, <1>11, <1>12, <1>13
  DEF Answering

(* Performing a commit keeps the outcome settled, and writes nothing of it *)
(* once the run is finished.                                               *)
LEMMA CommittingOutcome ==
    ASSUME TypeOK, OutcomeInv, Committing
    PROVE  OutcomeInv' /\ (status \in TerminalRunStatuses => outcome' = outcome)
<1>1. todo # <<>> /\ todo \in Seq(Commit)
  BY DEF TypeOK, ControlOK, Committing, CommitStatus, CommitFailed, CommitDone,
     CommitPartialAnswer, CommitMark, CommitSkip, CommitDrop, CommitAdd, CommitAttempt,
     CommitReflection, CommitEmit, CommitEmitSkipped, Pending
<1>2. /\ ClosesLast(Tail(todo))
      /\ NoClose(todo) => NoClose(Tail(todo)) /\ ~Closes(Head(todo))
      /\ NoWrite(todo) => NoWrite(Tail(todo)) /\ ~Writes(Head(todo))
      /\ Closes(Head(todo)) => NoWrite(Tail(todo))
  BY <1>1, TailCloses DEF OutcomeInv
<1>3. CASE CommitStatus \/ CommitFailed \/ CommitDone
  <2>1. Pending("status") \/ Pending("failed") \/ Pending("done")
    BY <1>3 DEF CommitStatus, CommitFailed, CommitDone
  <2>2. /\ todo' = Tail(todo) /\ pc' = pc
        /\ status' \in TerminalRunStatuses => Closes(Head(todo))
    BY <1>3 DEF CommitStatus, CommitFailed, CommitDone, Performed, Pending, Closes,
       TerminalRunStatuses
  <2>3. status \notin TerminalRunStatuses
    BY <1>2, <2>1 DEF OutcomeInv, Pending, Writes
  <2> QED
    BY <1>2, <2>2, <2>3 DEF OutcomeInv
<1>4. CASE CommitPartialAnswer
  <2>1. status \notin TerminalRunStatuses
    BY <1>2, <1>4 DEF CommitPartialAnswer, OutcomeInv, Pending, Writes
  <2> QED
    BY <1>2, <1>4, <2>1 DEF CommitPartialAnswer, Performed, OutcomeInv
<1>5. CASE \/ CommitMark \/ CommitDrop \/ CommitAdd \/ CommitAttempt
           \/ CommitReflection \/ CommitEmit
  <2>1. todo' = Tail(todo) /\ pc' = pc /\ UNCHANGED <<status, answer, error>>
    BY <1>5 DEF CommitMark, CommitDrop, CommitAdd, CommitAttempt, CommitReflection,
       CommitEmit, Performed, durable, rows
  <2> QED
    BY <1>2, <2>1 DEF OutcomeInv, outcome
<1>6. CASE CommitSkip \/ CommitEmitSkipped
  <2>1. PICK first \in {<<>>} \cup {<<EmitSkipped(S)>> : S \in SUBSET Nat} :
           todo' = first \o Tail(todo)
    <3>1. Head(todo) \in Commit /\ Tail(todo) \in Seq(Commit) /\ IsChecklist(tasks)
      BY <1>1, HeadOfTodo DEF TypeOK, RowsOK
    <3>2. <<>> \o Tail(todo) = Tail(todo)
      BY <3>1
    <3>3. CASE CommitSkip
      <4> DEFINE pending == {i \in DOMAIN tasks : tasks[i] = "pending"}
      <4>1. todo' = IF pending = {} THEN Tail(todo)
                    ELSE <<EmitSkipped(pending)>> \o Tail(todo)
        BY <3>3 DEF CommitSkip
      <4>2. pending \in SUBSET Nat
        BY <3>1 DEF IsChecklist
      <4> HIDE DEF pending
      <4> QED
        BY <3>2, <4>1, <4>2
    <3>4. CASE CommitEmitSkipped
      <4>1. Head(todo).tasks \in SUBSET Nat
        BY <3>1, <3>4, CommitFields DEF CommitEmitSkipped, Pending
      <4>2. PICK i \in Head(todo).tasks :
               todo' = IF Head(todo).tasks = {i} THEN Tail(todo)
                       ELSE <<EmitSkipped(Head(todo).tasks \ {i})>> \o Tail(todo)
        BY <3>4 DEF CommitEmitSkipped
      <4> QED
        BY <3>2, <4>1, <4>2
    <3> QED
      BY <1>6, <3>3, <3>4
  <2>2. pc' = pc /\ UNCHANGED <<status, answer, error>>
    BY <1>6 DEF CommitSkip, CommitEmitSkipped, rows
  <2>3. first \in Seq(Commit) /\ NoClose(first) /\ NoWrite(first)
    <3>1. CASE first = <<>>
      BY <3>1 DEF NoClose, NoWrite
    <3>2. ASSUME NEW S \in SUBSET Nat, first = <<EmitSkipped(S)>>
          PROVE  first \in Seq(Commit) /\ NoClose(first) /\ NoWrite(first)
      <4>1. EmitSkipped(S) \in Commit
        BY CommitTypes
      <4> QED
        BY <3>2, <4>1 DEF NoClose, NoWrite, Closes, Writes, EmitSkipped
    <3> QED
      BY <3>1, <3>2
  <2>4. Tail(todo) \in Seq(Commit)
    BY <1>1
  <2> QED
    BY <1>2, <2>1, <2>2, <2>3, <2>4, ConcatCloses DEF OutcomeInv, outcome
<1> QED
  BY <1>3, <1>4, <1>5, <1>6 DEF Committing

(* Every step keeps the outcome settled, and leaves it alone once the run  *)
(* is finished.                                                            *)
LEMMA OutcomeStep ==
    ASSUME TypeOK, OutcomeInv, [Next]_vars
    PROVE  OutcomeInv' /\ (status \in TerminalRunStatuses => outcome' = outcome)
<1>1. CASE CreateRun
  <2>1. NoClose(todo') /\ ClosesLast(todo')
    BY <1>1 DEF CreateRun, NoClose, ClosesLast, Closes, Emit
  <2>2. status \notin TerminalRunStatuses
    BY <1>1 DEF CreateRun, OutcomeInv, ClosedPoints
  <2> QED
    BY <1>1, <2>1, <2>2 DEF CreateRun, OutcomeInv, TerminalRunStatuses
<1>2. CASE CancelRun \/ Ended \/ UNCHANGED vars
  BY <1>2 DEF CancelRun, Ended, vars, durable, OutcomeInv, outcome
<1>3. CASE Planning \/ Executing \/ Judging \/ Answering
  <2>1. UNCHANGED durable
    BY <1>3 DEF Planning, Executing, Judging, Answering, Decide, Register, StartPlanning,
       CheckPlanning, Recall, PlannerReturns, PlannerFails, PlannerExhausts, CheckPlanned,
       StartTask, TasksDone, StartAttempt, ExecutorReturns, ExecutorCancelled,
       ExecutorFails, ExecutorExhausts, CheckExecuted, ReflectorReturns,
       ReflectorExhausts, JudgedCancelled, JudgedAccept, JudgedRetry, JudgedReplan,
       JudgedAbort, ReplanReturns, ReplanFails, ReplanExhausts, ReplyRaises, Accept, PartialReturns,
       PartialFails, PartialExhausts, CheckSynthesis, AnswerReturns, AnswerFails,
       AnswerExhausts, StreamToken, StreamDone, WriteMemory, Cleanup
  <2> QED
    BY <1>3, <2>1, PlanningOutcome, ExecutingOutcome, JudgingOutcome, AnsweringOutcome
    DEF durable, outcome
<1>4. CASE Committing
  BY <1>4, CommittingOutcome
<1> QED
  BY <1>1, <1>2, <1>3, <1>4 DEF Next, Execute

(* In every reachable state the last write of the outcome is the one that  *)
(* ends the run: nothing waits behind it that would write status, answer   *)
(* or error again, and only closed control points come with it.            *)
THEOREM OutcomeSettled == Spec => []OutcomeInv
<1>1. Init => OutcomeInv
  BY DEF Init, OutcomeInv, ClosesLast, NoClose, TerminalRunStatuses
<1> QED
  BY <1>1, OutcomeStep, TypeInvariant, PTL DEF Spec

(* What a finished run reports never changes: its status, answer and       *)
(* error, through everything that goes on after the transaction that       *)
(* finished it (events, the memory, a late cancel request, the cleanup).   *)
THEOREM OutcomeIsFinal == Spec => OutcomeFinal
<1>1. TypeOK /\ OutcomeInv /\ [Next]_vars
          => [(status \in TerminalRunStatuses) => (outcome' = outcome)]_outcome
  BY OutcomeStep
<1> QED
  BY <1>1, TypeInvariant, OutcomeSettled, PTL DEF Spec, OutcomeFinal

-----------------------------------------------------------------------------
(* What a cancel request prevents                                          *)
(*                                                                         *)
(* A request that came in time leaves a run that can no longer be done:    *)
(* nothing waits that would make it so, and what it still decides on is    *)
(* to be cancelled or to fail.  The answer it may yet be given has a word  *)
(* left to stream, before which the request is seen.                       *)

Finishes(c) == c.op = "done" \/ (c.op = "status" /\ c.status = "done")

Unfinishing == {c \in Commit : ~Finishes(c)}

CancelledInTime ==
    /\ cancel
    /\ status # "done"
    /\ todo \in Seq(Unfinishing)
    /\ pc = "stream" => tokens > 0

(* Of all commits, two make a run done.                                    *)
LEMMA UnfinishingCommits ==
    /\ \A s \in RunStatuses \ {"done"} : SetStatus(s) \in Unfinishing
    /\ \A e \in Errors : SetFailed(e) \in Unfinishing
    /\ {SetPartialAnswer, SkipPending, RecordReflection} \subseteq Unfinishing
    /\ \A i \in Nat, s \in TaskStatuses : MarkTask(i, s) \in Unfinishing
    /\ \A S \in SUBSET Nat : {DropTasks(S), EmitSkipped(S)} \subseteq Unfinishing
    /\ \A s, n \in Nat : {AddTasks(s, n), RecordAttempt(s, n)} \subseteq Unfinishing
    /\ \A e \in Event : Emit(e) \in Unfinishing
BY CommitTypes
DEF Unfinishing, Finishes, SetStatus, SetFailed, SetPartialAnswer, SkipPending,
    RecordReflection, MarkTask, DropTasks, EmitSkipped, AddTasks, RecordAttempt, Emit

(* No helper but FinalizeDone makes a run done.                            *)
LEMMA UnfinishingHelpers ==
    ASSUME cur \in Nat
    PROVE  /\ FailTask(cur) \in Seq(Unfinishing)
           /\ \A e \in Errors : FinalizeFailed(e) \in Seq(Unfinishing)
           /\ FinalizeCancelled \in Seq(Unfinishing)
           /\ \A b \in BOOLEAN : FinalizeCancelledRun(b) \in Seq(Unfinishing)
           /\ cancel => \A b \in BOOLEAN : FinalizeBudgetExceeded(b) \in Seq(Unfinishing)
<1>1. FailTask(cur) \in Seq(Unfinishing) /\ CancelTask(cur) \in Seq(Unfinishing)
  <2>1. \A s \in {"failed", "cancelled"} : MarkTask(cur, s) \in Unfinishing
    BY UnfinishingCommits DEF TaskStatuses, TerminalTaskStatuses
  <2>2. \A t \in {"task.failed", "task.cancelled"} : Emit(TaskEvent(t, cur)) \in Unfinishing
    BY UnfinishingCommits, EventTypes DEF TaskEventTypes
  <2> QED
    BY <2>1, <2>2 DEF FailTask, CancelTask
<1>2. ASSUME NEW e \in Errors PROVE FinalizeFailed(e) \in Seq(Unfinishing)
  <2>1. SetFailed(e) \in Unfinishing
    BY UnfinishingCommits
  <2>2. Emit([type |-> "run.failed", error |-> e]) \in Unfinishing
    BY UnfinishingCommits, EventTypes
  <2> QED
    BY <2>1, <2>2 DEF FinalizeFailed
<1>3. FinalizeCancelled \in Seq(Unfinishing)
  BY UnfinishingCommits, EventTypes DEF FinalizeCancelled, RunStatuses, PlainEventTypes
<1>4. \A b \in BOOLEAN : FinalizeCancelledRun(b) \in Seq(Unfinishing)
  BY <1>1, <1>3, UnfinishingCommits DEF FinalizeCancelledRun
<1>5. cancel => \A b \in BOOLEAN : FinalizeBudgetExceeded(b) \in Seq(Unfinishing)
  BY <1>4 DEF FinalizeBudgetExceeded
<1> QED
  BY <1>1, <1>2, <1>3, <1>4, <1>5

(* A decision that leaves no finishing commit, and does not go on to       *)
(* stream, preserves it.                                                   *)
LEMMA DecideCancelled ==
    ASSUME CancelledInTime, cancel' = cancel, NEW from, NEW to, to # "stream",
           NEW commits \in Seq(Unfinishing), Decide(from, to, commits)
    PROVE  CancelledInTime'
BY DEF CancelledInTime, Decide, durable, rows

(* Once it is requested, planning ends at its next check.                  *)
LEMMA PlanningCancelled ==
    ASSUME TypeOK, CancelledInTime, Planning
    PROVE  CancelledInTime'
<1>1. <<>> \in Seq(Unfinishing)
  OBVIOUS
<1>2. cur \in Nat /\ cancel
  BY DEF TypeOK, LocalOK, CancelledInTime
<1>3. CASE Register
  BY <1>1, <1>3, DecideCancelled DEF Register
<1>4. CASE StartPlanning
  <2>1. <<SetStatus("planning"), Emit(Plain("run.started"))>> \in Seq(Unfinishing)
    BY UnfinishingCommits, EventTypes DEF RunStatuses, PlainEventTypes
  <2> QED
    BY <1>4, <2>1, DecideCancelled DEF StartPlanning, local, handle
<1>5. CASE CheckPlanning
  BY <1>2, <1>5, UnfinishingHelpers, DecideCancelled DEF CheckPlanning, local, handle
<1>6. CASE Recall
  <2>1. <<Emit(Plain("memory.recalled"))>> \in Seq(Unfinishing)
    BY UnfinishingCommits, EventTypes DEF PlainEventTypes, SilentEventTypes
  <2> QED
    BY <1>1, <1>6, <2>1, DecideCancelled DEF Recall, local, handle
<1>7. CASE PlannerReturns
  <2>1. \A n \in 1 .. MaxTasks :
           <<AddTasks(0, n), Emit(PlanEvent(0, n))>> \in Seq(Unfinishing)
    BY LimitsAssumption, UnfinishingCommits, EventTypes
  <2> QED
    BY <1>7, <2>1, DecideCancelled DEF PlannerReturns, handle
<1>8. CASE PlannerFails
  <2>1. \A e \in {"planning", "llm"} : FinalizeFailed(e) \in Seq(Unfinishing)
    BY <1>2, UnfinishingHelpers DEF Errors
  <2> QED
    BY <1>8, <2>1, DecideCancelled DEF PlannerFails, handle
<1>9. CASE PlannerExhausts
  BY <1>2, <1>9, UnfinishingHelpers, DecideCancelled DEF PlannerExhausts, handle
<1>10. CASE CheckPlanned
  BY <1>2, <1>10, UnfinishingHelpers, DecideCancelled DEF CheckPlanned, local, handle
<1> QED
  BY <1>3, <1>4, <1>5, <1>6, <1>7, <1>8, <1>9, <1>10 DEF Planning

(* The task loop goes on to the next check at most.                        *)
LEMMA ExecutingCancelled ==
    ASSUME TypeOK, CancelledInTime, Executing
    PROVE  CancelledInTime'
<1>1. <<>> \in Seq(Unfinishing)
  OBVIOUS
<1>2. cur \in Nat /\ attempt \in Nat /\ cancel
  BY DEF TypeOK, LocalOK, CancelledInTime
<1>3. \A b \in BOOLEAN : /\ FinalizeCancelledRun(b) \in Seq(Unfinishing)
                         /\ FinalizeBudgetExceeded(b) \in Seq(Unfinishing)
  BY <1>2, UnfinishingHelpers
<1>4. CASE StartTask \/ TasksDone \/ StartAttempt
  BY <1>1, <1>2, <1>3, <1>4, DecideCancelled
  DEF StartTask, TasksDone, StartAttempt, local, handle
<1>5. CASE ExecutorReturns
  <2>1. <<RecordAttempt(cur, attempt)>> \in Seq(Unfinishing)
    BY <1>2, UnfinishingCommits
  <2> QED
    BY <1>5, <2>1, DecideCancelled DEF ExecutorReturns, handle
<1>6. CASE ExecutorCancelled \/ ExecutorFails \/ ExecutorExhausts
  BY <1>2, <1>3, <1>6, DecideCancelled
  DEF ExecutorCancelled, ExecutorFails, ExecutorExhausts, handle
<1>7. CASE CheckExecuted \/ ReflectorExhausts
  BY <1>2, <1>3, <1>7, DecideCancelled DEF CheckExecuted, ReflectorExhausts, handle
<1>8. CASE ReflectorReturns
  <2>1. <<RecordReflection, Emit(Plain("task.reflected"))>> \in Seq(Unfinishing)
    BY UnfinishingCommits, EventTypes DEF PlainEventTypes, SilentEventTypes
  <2> QED
    BY <1>8, <2>1, DecideCancelled DEF ReflectorReturns, handle
<1> QED
  BY <1>4, <1>5, <1>6, <1>7, <1>8 DEF Executing

(* No verdict is acted on any more.                                        *)
LEMMA JudgingCancelled ==
    ASSUME TypeOK, CancelledInTime, Judging
    PROVE  CancelledInTime'
<1>1. cur \in Nat /\ cancel
  BY DEF TypeOK, LocalOK, CancelledInTime
<1>2. \A b \in BOOLEAN : /\ FinalizeCancelledRun(b) \in Seq(Unfinishing)
                         /\ FinalizeBudgetExceeded(b) \in Seq(Unfinishing)
  BY <1>1, UnfinishingHelpers
<1>3. CASE JudgedCancelled \/ ReplanReturns \/ ReplanExhausts
  BY <1>1, <1>2, <1>3, DecideCancelled
  DEF JudgedCancelled, ReplanReturns, ReplanExhausts, local, handle
<1>4. CASE JudgedAccept \/ JudgedRetry \/ JudgedReplan \/ JudgedAbort
  BY <1>1, <1>4 DEF JudgedAccept, JudgedRetry, JudgedReplan, JudgedAbort
<1>5. CASE ReplanFails
  <2>1. FailTask(cur) \o FinalizeFailed("replan") \in Seq(Unfinishing)
    BY <1>1, UnfinishingHelpers DEF Errors
  <2> QED
    BY <1>5, <2>1, DecideCancelled DEF ReplanFails, handle
<1>6. CASE ReplyRaises
  <2>1. FinalizeFailed("unexpected") \in Seq(Unfinishing)
    BY <1>1, UnfinishingHelpers DEF Errors
  <2> QED
    BY <1>6, <2>1, DecideCancelled DEF ReplyRaises, handle
<1> QED
  BY <1>3, <1>4, <1>5, <1>6 DEF Judging

(* An answer is composed, but not streamed to its end.                     *)
LEMMA AnsweringCancelled ==
    ASSUME TypeOK, CancelledInTime, Answering
    PROVE  CancelledInTime'
<1>1. <<>> \in Seq(Unfinishing)
  OBVIOUS
<1>2. cur \in Nat /\ cancel
  BY DEF TypeOK, LocalOK, CancelledInTime
<1>3. FinalizeCancelled \in Seq(Unfinishing) /\ FinalizeBudgetExceeded(FALSE) \in Seq(Unfinishing)
  BY <1>2, UnfinishingHelpers
<1>4. FinalizeFailed("llm") \in Seq(Unfinishing) /\ FinalizeFailed("aborted") \in Seq(Unfinishing)
  BY <1>2, UnfinishingHelpers DEF Errors
<1>5. CASE PartialReturns
  <2>1. <<SetPartialAnswer, Emit([type |-> "answer.completed", text |-> "partial"])>>
            \in Seq(Unfinishing)
    BY UnfinishingCommits, EventTypes DEF Answers
  <2>2. <<SetPartialAnswer, Emit([type |-> "answer.completed", text |-> "partial"])>>
            \o FinalizeFailed("aborted") \in Seq(Unfinishing)
    BY <1>4, <2>1
  <2> QED
    BY <1>5, <2>2, DecideCancelled DEF PartialReturns, AfterAnswer, handle
<1>6. CASE PartialFails \/ PartialExhausts \/ AnswerFails \/ AnswerExhausts
  BY <1>3, <1>4, <1>6, DecideCancelled
  DEF PartialFails, PartialExhausts, AnswerFails, AnswerExhausts, handle
<1>7. CASE CheckSynthesis
  BY <1>2, <1>3, <1>7, DecideCancelled DEF CheckSynthesis, local, handle
<1>8. CASE AnswerReturns
  BY <1>1, <1>8 DEF AnswerReturns, CancelledInTime, Decide, durable, rows, handle
<1>9. CASE StreamToken
  BY <1>2, <1>3, <1>9, DecideCancelled DEF StreamToken, handle
<1>10. CASE StreamDone
  BY <1>10 DEF StreamDone, CancelledInTime, Decide
<1>11. CASE WriteMemory
  <2>1. <<Emit(Plain("memory.written"))>> \in Seq(Unfinishing)
    BY UnfinishingCommits, EventTypes DEF PlainEventTypes, SilentEventTypes
  <2> QED
    BY <1>1, <1>11, <2>1, DecideCancelled DEF WriteMemory, handle
<1>12. CASE Cleanup
  BY <1>1, <1>12, DecideCancelled DEF Cleanup
<1> QED
  BY <1>5, <1>6, <1>7, <1>8, <1>9, <1>10, <1>11, <1>12 DEF Answering

(* Performing what was decided does not make the run done either.          *)
LEMMA CommittingCancelled ==
    ASSUME TypeOK, CancelledInTime, Committing
    PROVE  CancelledInTime'
<1>1. todo # <<>> /\ todo \in Seq(Unfinishing)
  BY DEF CancelledInTime, Committing, CommitStatus, CommitFailed, CommitDone,
     CommitPartialAnswer, CommitMark, CommitSkip, CommitDrop, CommitAdd, CommitAttempt,
     CommitReflection, CommitEmit, CommitEmitSkipped, Pending
<1>2. Head(todo) \in Unfinishing /\ Tail(todo) \in Seq(Unfinishing)
  BY <1>1
<1>3. CASE \/ CommitStatus \/ CommitFailed \/ CommitPartialAnswer \/ CommitMark
           \/ CommitDrop \/ CommitAdd \/ CommitAttempt \/ CommitReflection \/ CommitEmit
  <2>1. todo' = Tail(todo) /\ UNCHANGED <<pc, local>>
    BY <1>3 DEF CommitStatus, CommitFailed, CommitPartialAnswer, CommitMark, CommitDrop,
       CommitAdd, CommitAttempt, CommitReflection, CommitEmit, Performed
  <2>2. status' # "done"
    BY <1>2, <1>3 DEF CommitStatus, CommitFailed, CommitPartialAnswer, CommitMark,
       CommitDrop, CommitAdd, CommitAttempt, CommitReflection, CommitEmit, Pending,
       Unfinishing, Finishes, CancelledInTime, durable, rows
  <2> QED
    BY <1>2, <2>1, <2>2 DEF CancelledInTime, local, handle
<1>4. CASE CommitDone
  BY <1>2, <1>4 DEF CommitDone, Pending, Unfinishing, Finishes
<1>5. CASE CommitSkip
  <2> DEFINE pending == {i \in DOMAIN tasks : tasks[i] = "pending"}
  <2>1. /\ todo' = IF pending = {} THEN Tail(todo)
                   ELSE <<EmitSkipped(pending)>> \o Tail(todo)
        /\ UNCHANGED <<pc, local, status>>
    BY <1>5 DEF CommitSkip
  <2>2. EmitSkipped(pending) \in Unfinishing
    BY UnfinishingCommits DEF TypeOK, RowsOK, IsChecklist
  <2> HIDE DEF pending
  <2>3. todo' \in Seq(Unfinishing)
    BY <1>2, <2>1, <2>2
  <2> QED
    BY <2>1, <2>3 DEF CancelledInTime, local, handle
<1>6. CASE CommitEmitSkipped
  <2>1. Head(todo).tasks \in SUBSET Nat
    BY <1>2, <1>6, CommitFields DEF Unfinishing, CommitEmitSkipped, Pending
  <2>2. \A i \in Nat : EmitSkipped(Head(todo).tasks \ {i}) \in Unfinishing
    BY <2>1, UnfinishingCommits
  <2>3. todo' \in Seq(Unfinishing) /\ UNCHANGED <<pc, local, status>>
    BY <1>2, <1>6, <2>1, <2>2 DEF CommitEmitSkipped, rows
  <2> QED
    BY <2>3 DEF CancelledInTime, local, handle
<1> QED
  BY <1>3, <1>4, <1>5, <1>6 DEF Committing

(* The request is never taken back, and no step makes the run done.        *)
LEMMA CancelledStep ==
    ASSUME TypeOK, CancelledInTime, [Next]_vars
    PROVE  CancelledInTime'
<1>1. CASE CreateRun
  <2>1. <<Emit(Plain("run.created"))>> \in Seq(Unfinishing)
    BY UnfinishingCommits, EventTypes DEF PlainEventTypes
  <2> QED
    BY <1>1, <2>1 DEF CreateRun, CancelledInTime, local, handle
<1>2. CASE CancelRun \/ Ended \/ UNCHANGED vars
  BY <1>2 DEF CancelRun, Ended, vars, durable, rows, local, handle, CancelledInTime
<1>3. CASE Execute
  BY <1>3, PlanningCancelled, ExecutingCancelled, JudgingCancelled, AnsweringCancelled,
     CommittingCancelled DEF Execute
<1> QED
  BY <1>1, <1>2, <1>3 DEF Next

(* Before the answer streams nothing has been decided that ends the run.   *)
LEMMA CancelComesInTime ==
    ASSUME TypeOK, OutcomeInv, cancel, pc \in BeforeStreaming
    PROVE  CancelledInTime
<1>1. pc \notin ClosedPoints /\ pc # "stream"
  BY DEF BeforeStreaming, ClosedPoints
<1>2. NoClose(todo) /\ status # "done"
  BY <1>1 DEF OutcomeInv, TerminalRunStatuses
<1>3. todo \in Seq(Commit)
  BY DEF TypeOK, ControlOK
<1>4. \A k \in 1 .. Len(todo) : todo[k] \in Unfinishing
  BY <1>2, <1>3 DEF NoClose, Closes, Unfinishing, Finishes, TerminalRunStatuses
<1>5. todo \in Seq(Unfinishing)
  BY <1>3, <1>4
<1> QED
  BY <1>1, <1>2, <1>5 DEF CancelledInTime

(* For every value of the limits: a cancel request that comes before the   *)
(* answer streams keeps the run from ever being done, through every retry, *)
(* replan, error and exhausted budget that may come between the request    *)
(* and the check that sees it.                                             *)
THEOREM CancelIsHonoured == Spec => CancelPreventsDone
<1>1. TypeOK /\ OutcomeInv => (cancel /\ pc \in BeforeStreaming => CancelledInTime)
  BY CancelComesInTime
<1>2. TypeOK /\ CancelledInTime /\ [Next]_vars => CancelledInTime'
  BY CancelledStep
<1>3. CancelledInTime => status # "done"
  BY DEF CancelledInTime
<1> QED
  BY <1>1, <1>2, <1>3, TypeInvariant, OutcomeSettled, PTL DEF Spec, CancelPreventsDone

-----------------------------------------------------------------------------
(* The invariant                                                           *)
(*                                                                         *)
(* Rows are behind decisions: cur moves on while the commits that finish   *)
(* its task are still waiting.  So it says what each task is or will be.   *)

Early    == {"none", "register", "start", "planning", "recall", "plan"}
AtRest   == {"planned", "task"}
InFlight == {"execute", "executed", "reflect", "judged", "retry", "replan"}
Over     == {"synthesize", "answer", "stream"}

Final(i) == tasks[i] \in TerminalTaskStatuses
AllFinal == \A i \in DOMAIN tasks : Final(i)

Waiting == {todo[k] : k \in 1 .. Len(todo)}

(* The commits after which no task may be open.                            *)
Settles(c) ==
    \/ c.op = "done"
    \/ c.op = "status" /\ c.status \in {"done", "cancelled"}
    \/ c.op = "failed" /\ c.error \in {"budget", "aborted"}

Settled == status \in {"done", "cancelled"} \/ error \in {"budget", "aborted"}

(* The commits that end a task, or make open ones.                         *)
Ends(c, i) ==
    \/ c.op = "mark" /\ c.index = i /\ c.status \in TerminalTaskStatuses
    \/ c.op = "drop" /\ i \in c.tasks
    \/ c.op = "skip" /\ tasks[i] = "pending"

Opens(c) ==
    \/ c.op = "add"
    \/ c.op = "mark" /\ c.status \notin TerminalTaskStatuses

WillEnd(i) == Final(i) \/ \E c \in Waiting : Ends(c, i)
AllWillEnd == \A i \in DOMAIN tasks : WillEnd(i)

(* The tasks whose rows a commit writes, by index.                         *)
Touches(c) ==
    IF c.op = "drop" THEN c.tasks
    ELSE IF c.op \in {"mark", "attempt"} THEN {c.index}
    ELSE {}

(* It touches no final task, and none before all earlier ones are final;   *)
(* and a new generation comes after the tasks there are.                   *)
Fits(c) ==
    /\ \A i \in DOMAIN tasks :
          i \in Touches(c) =>
              /\ ~Final(i)
              /\ \A j \in DOMAIN tasks : j < i => Final(j) \/ j \in Touches(c)
    /\ c.op = "add" => \A i \in DOMAIN tasks : i < c.start

(* In a list of commits, only one touches tasks, but for a replan, which   *)
(* drops some and adds others; what is pending is skipped after that; and  *)
(* after the commit that settles the run there are only events.            *)
Works(c) == c.op \in {"mark", "attempt", "drop", "add"}

Tidy(s) ==
    \A k, m \in 1 .. Len(s) : k < m =>
        /\ Settles(s[k]) => s[m].op = "emit"
        /\ s[k].op = "skip" => ~Works(s[m])
        /\ Works(s[k]) /\ Works(s[m]) => s[k].op = "drop" /\ s[m].op = "add"

EarlyInv == pc \in Early => DOMAIN tasks = {} /\ cur = 0

LoopInv ==
    pc \in AtRest \cup InFlight =>
        /\ \A i \in DOMAIN tasks :
              /\ i <= last
              /\ i < cur => WillEnd(i)
              /\ i = cur => ~Final(i)
              /\ i > cur => tasks[i] = "pending"
              /\ i = cur /\ pc \in AtRest => tasks[i] = "pending"
        /\ \A c \in Waiting :
              /\ c.op = "add" =>
                    pc \in AtRest /\ c.start >= cur /\ c.start + c.count - 1 <= last
              /\ c.op = "mark" /\ Opens(c) => c.index = cur
              /\ \A i \in Touches(c) :
                    /\ i <= cur
                    /\ i = cur => pc \in InFlight /\ (Opens(c) \/ c.op = "attempt")

LateInv ==
    /\ pc \notin AtRest \cup InFlight => \A c \in Waiting : ~Opens(c)
    /\ pc \in Over => AllFinal
    /\ pc = "partial" => AllWillEnd

SettleInv ==
    /\ \A c \in Waiting :
          /\ Settles(c) => AllWillEnd /\ pc \in ClosedPoints
          /\ c.op = "skip" => AllWillEnd /\ pc \in ClosedPoints \cup {"partial"}
    /\ Settled => AllFinal /\ pc \in ClosedPoints

TasksInv ==
    /\ EarlyInv /\ LoopInv /\ LateInv /\ SettleInv
    /\ ExecutedInOrder
    /\ Tidy(todo)
    /\ \A c \in Waiting : Fits(c)

-----------------------------------------------------------------------------
(* Decisions                                                               *)

(* When everything decided on has been performed, what will end has ended. *)
LEMMA NothingWaits ==
    ASSUME TypeOK, TasksInv, todo = <<>>
    PROVE  /\ pc \in AtRest \cup InFlight =>
                 \A i \in DOMAIN tasks : i < cur => Final(i)
           /\ pc \in Over \cup {"partial"} => AllFinal
<1>1. Waiting = {}
  BY DEF Waiting
<1> QED
  BY <1>1 DEF TasksInv, LoopInv, LateInv, WillEnd, AllWillEnd, AllFinal

(* Commits that neither end a task nor settle the run.                     *)
Steady(s) ==
    /\ Tidy(s)
    /\ \A k \in 1 .. Len(s) :
          /\ s[k].op \notin {"skip", "add", "drop"}
          /\ ~Settles(s[k])
          /\ s[k].op = "mark" => Opens(s[k])
          /\ Touches(s[k]) \subseteq {cur}

Idle(s) == \A k \in 1 .. Len(s) : ~Works(s[k])

(* A decision that stays in its phase.                                     *)
LEMMA DecideWithin ==
    ASSUME TypeOK, TasksInv, NEW from, NEW to, NEW s, Decide(from, to, s),
           Steady(s), UNCHANGED <<cur, last>>,
           \/ from \in Early /\ to \in Early /\ Idle(s)
           \/ from \in AtRest /\ to \in AtRest /\ Idle(s)
           \/ from \in Over /\ to \in Over /\ Idle(s)
           \/ from \in InFlight /\ to \in InFlight
    PROVE  TasksInv'
<1>1. /\ pc = from /\ pc' = to /\ todo = <<>> /\ todo' = s
      /\ UNCHANGED <<status, error, tasks>>
  BY DEF Decide, durable
<1>2. /\ pc \in AtRest \cup InFlight => \A i \in DOMAIN tasks : i < cur => Final(i)
      /\ pc \in Over => AllFinal
  BY <1>1, NothingWaits
<1>3. /\ \A i \in DOMAIN tasks : Final(i)' <=> Final(i)
      /\ AllFinal' <=> AllFinal
  BY <1>1 DEF Final, AllFinal
<1>4. \A c \in Waiting' :
          /\ c.op \notin {"skip", "add", "drop"}
          /\ ~Settles(c)
          /\ c.op = "mark" => Opens(c)
          /\ Touches(c) \subseteq {cur}
          /\ (Touches(c) = {} /\ ~Opens(c)) \/ from \in InFlight
  BY <1>1 DEF Steady, Idle, Waiting, Works, Touches, Opens
<1>5. from \notin ClosedPoints /\ to \notin ClosedPoints \cup {"partial"}
  BY DEF ClosedPoints, Early, AtRest, InFlight, Over
<1>6. EarlyInv'
  BY <1>1 DEF TasksInv, EarlyInv, Early, AtRest, InFlight, Over
<1>7. LoopInv'
  <2> SUFFICES ASSUME to \in AtRest \cup InFlight PROVE LoopInv'
    BY <1>1 DEF LoopInv
  <2>1. /\ from \in AtRest \cup InFlight
        /\ to \in AtRest => from \in AtRest
        /\ from \in InFlight => to \in InFlight
    BY DEF Early, AtRest, InFlight, Over
  <2>2. \A i \in DOMAIN tasks : Final(i) => WillEnd(i)'
    BY <1>3 DEF WillEnd
  <2>3. cur \in Nat
    BY DEF TypeOK, LocalOK
  <2>4. \A c \in Waiting' : Opens(c) => Touches(c) = {c.index} /\ c.op = "mark"
    BY <1>4 DEF Opens, Touches
  <2>5. \A c \in Waiting' : cur \in Touches(c) => Opens(c) \/ c.op = "attempt"
    BY <1>4 DEF Touches
  <2>6. \A i \in DOMAIN tasks :
              /\ i <= last
              /\ i < cur => WillEnd(i)'
              /\ i = cur => ~Final(i)'
              /\ i > cur => tasks[i] = "pending"
              /\ i = cur /\ to \in AtRest => tasks[i] = "pending"
    BY <1>1, <1>2, <1>3, <2>1, <2>2 DEF TasksInv, LoopInv
  <2>7. \A c \in Waiting' :
              /\ c.op # "add"
              /\ c.op = "mark" /\ Opens(c) => c.index = cur
              /\ \A i \in Touches(c) :
                    /\ i <= cur
                    /\ i = cur => to \in InFlight /\ (Opens(c) \/ c.op = "attempt")
    BY <1>4, <2>1, <2>3, <2>4, <2>5
  <2> QED
    BY <1>1, <2>6, <2>7 DEF LoopInv, Opens, Touches, WillEnd, Final
<1>8. LateInv'
  BY <1>1, <1>2, <1>3, <1>4, <1>5 DEF LateInv, Early, AtRest, InFlight, Over, Opens
<1>9. SettleInv'
  BY <1>1, <1>3, <1>4, <1>5 DEF TasksInv, SettleInv, Settled, Settles
<1>10. ExecutedInOrder' /\ Tidy(todo)'
  BY <1>1 DEF TasksInv, ExecutedInOrder, Steady, Tidy, Settles, Works
<1>11. \A c \in Waiting' : Fits(c)'
  <2>1. from \in InFlight => \A i \in DOMAIN tasks : i = cur => ~Final(i)
    BY <1>1 DEF TasksInv, LoopInv
  <2> QED
    BY <1>1, <1>2, <1>3, <1>4, <2>1 DEF Fits, Touches
<1> QED
  BY <1>6, <1>7, <1>8, <1>9, <1>10, <1>11 DEF TasksInv

(* A decision that leaves the loop: what it decides on touches the current *)
(* task at most, and only if that is in flight; and if it settles the run, *)
(* or skips what is pending, then no task stays open.                      *)
Leaves(s) ==
    /\ Tidy(s)
    /\ \A k \in 1 .. Len(s) :
          /\ ~Opens(s[k]) /\ s[k].op # "drop"
          /\ Touches(s[k]) \subseteq {cur}
          /\ Works(s[k]) => pc \in InFlight

EndsAll(s) ==
    \A i \in DOMAIN tasks : Final(i) \/ \E k \in 1 .. Len(s) : Ends(s[k], i)

Unsettling(s) == \A k \in 1 .. Len(s) : s[k].op # "skip" /\ ~Settles(s[k])

(* Such a decision keeps the invariant.                                    *)
LEMMA DecideToLeave ==
    ASSUME TypeOK, TasksInv, NEW from, NEW to, NEW s, Decide(from, to, s), Leaves(s),
           \/ to \in ClosedPoints /\ (Unsettling(s) \/ EndsAll(s))
           \/ /\ to = "partial" /\ from \in InFlight /\ EndsAll(s)
              /\ \A k \in 1 .. Len(s) : ~Settles(s[k])
    PROVE  TasksInv'
<1>1. /\ pc = from /\ pc' = to /\ todo = <<>> /\ todo' = s
      /\ UNCHANGED <<status, error, tasks>>
  BY DEF Decide, durable
<1>2. pc \in InFlight => \A i \in DOMAIN tasks : i < cur => Final(i)
  BY <1>1, NothingWaits
<1>3. /\ \A i \in DOMAIN tasks : Final(i)' <=> Final(i)
      /\ AllFinal' <=> AllFinal
  BY <1>1 DEF Final, AllFinal
<1>4. \A c \in Waiting' :
          /\ ~Opens(c)
          /\ Touches(c) \subseteq {cur}
          /\ Touches(c) # {} => from \in InFlight
          /\ Settles(c) \/ c.op = "skip" => EndsAll(s)
          /\ Settles(c) => to \in ClosedPoints
  BY <1>1 DEF Leaves, Waiting, Works, Touches, Unsettling
<1>5. to \notin Early \cup AtRest \cup InFlight \cup Over
  BY DEF ClosedPoints, Early, AtRest, InFlight, Over
<1>6. EndsAll(s) => AllWillEnd'
  BY <1>1, <1>3 DEF EndsAll, AllWillEnd, WillEnd, Waiting, Ends
<1>7. EarlyInv' /\ LoopInv'
  BY <1>1, <1>5 DEF EarlyInv, LoopInv
<1>8. LateInv'
  <2>1. to = "partial" => EndsAll(s)
    BY DEF ClosedPoints
  <2> QED
    BY <1>1, <1>4, <1>5, <1>6, <2>1 DEF LateInv, Opens
<1>9. SettleInv'
  <2>1. Settled' => AllFinal' /\ pc' \in ClosedPoints
    BY <1>1, <1>3 DEF TasksInv, SettleInv, Settled, InFlight, ClosedPoints
  <2>2. \A c \in Waiting' :
            /\ Settles(c) => AllWillEnd' /\ pc' \in ClosedPoints
            /\ c.op = "skip" => AllWillEnd' /\ pc' \in ClosedPoints \cup {"partial"}
    BY <1>1, <1>4, <1>6
  <2> QED
    BY <2>1, <2>2 DEF SettleInv, Settles
<1>10. ExecutedInOrder' /\ Tidy(todo)'
  BY <1>1 DEF TasksInv, ExecutedInOrder, Leaves, Tidy, Settles, Works
<1>11. \A c \in Waiting' : Fits(c)'
  <2>1. from \in InFlight => \A i \in DOMAIN tasks : i = cur => ~Final(i)
    BY <1>1 DEF TasksInv, LoopInv
  <2> QED
    BY <1>1, <1>2, <1>3, <1>4, <2>1 DEF Fits, Touches, Opens
<1> QED
  BY <1>7, <1>8, <1>9, <1>10, <1>11 DEF TasksInv

-----------------------------------------------------------------------------
(* The commits the manager decides on, by what they do to tasks            *)

(* The finalizers, spelled out.                                            *)
LEMMA CancelledRunSpelled ==
    /\ \A s : s = FinalizeCancelledRun(TRUE) =>
          /\ Len(s) = 5
          /\ s[1] = MarkTask(cur, "cancelled") /\ s[2].op = "emit"
          /\ s[3] = SkipPending /\ s[4] = SetStatus("cancelled") /\ s[5].op = "emit"
    /\ \A s : s = FinalizeCancelledRun(FALSE) =>
          /\ Len(s) = 3
          /\ s[1] = SkipPending /\ s[2] = SetStatus("cancelled") /\ s[3].op = "emit"
<1>1. \A e : Emit(e).op = "emit"
  BY DEF Emit
<1> QED
  BY <1>1 DEF FinalizeCancelledRun, CancelTask, FinalizeCancelled

(* A budget hit, unless a cancellation came first.                         *)
LEMMA BudgetExceededSpelled ==
    ASSUME ~cancel
    PROVE  /\ \A s : s = FinalizeBudgetExceeded(TRUE) =>
                 /\ Len(s) = 6
                 /\ s[1].op = "emit" /\ s[2] = MarkTask(cur, "failed") /\ s[3].op = "emit"
                 /\ s[4] = SkipPending /\ s[5] = SetFailed("budget") /\ s[6].op = "emit"
           /\ \A s : s = FinalizeBudgetExceeded(FALSE) =>
                 /\ Len(s) = 4
                 /\ s[1].op = "emit"
                 /\ s[2] = SkipPending /\ s[3] = SetFailed("budget") /\ s[4].op = "emit"
<1>1. \A e : Emit(e).op = "emit"
  BY DEF Emit
<1> QED
  BY <1>1 DEF FinalizeBudgetExceeded, FailTask, FinalizeFailed

(* What ends a task together with the run, or before it.                   *)
LEMMA AbortSpelled ==
    /\ \A s : s = FailTask(cur) \o <<SkipPending>> \o FinalizeFailed("aborted") =>
          /\ Len(s) = 5
          /\ s[1] = MarkTask(cur, "failed") /\ s[2].op = "emit"
          /\ s[3] = SkipPending /\ s[4] = SetFailed("aborted") /\ s[5].op = "emit"
    /\ \A s : s = FailTask(cur) \o <<SkipPending>> =>
          /\ Len(s) = 3
          /\ s[1] = MarkTask(cur, "failed") /\ s[2].op = "emit" /\ s[3] = SkipPending
    /\ \A e, s : s = FailTask(cur) \o FinalizeFailed(e) =>
          /\ Len(s) = 4
          /\ s[1] = MarkTask(cur, "failed") /\ s[2].op = "emit"
          /\ s[3] = SetFailed(e) /\ s[4].op = "emit"
    /\ \A e, s : s = <<SetPartialAnswer, Emit(e)>> \o FinalizeFailed("aborted") =>
          /\ Len(s) = 4
          /\ s[1] = SetPartialAnswer /\ s[2].op = "emit"
          /\ s[3] = SetFailed("aborted") /\ s[4].op = "emit"
<1>1. \A e : Emit(e).op = "emit"
  BY DEF Emit
<1> QED
  BY <1>1 DEF FailTask, FinalizeFailed

(* Where no task is in flight, each one is final or pending.               *)
LEMMA FinalOrPending ==
    ASSUME TypeOK, TasksInv, todo = <<>>, pc \notin ClosedPoints, NEW i \in DOMAIN tasks,
           pc \in InFlight => i # cur
    PROVE  Final(i) \/ tasks[i] = "pending"
<1>1. i \in Nat /\ cur \in Nat
  BY DEF TypeOK, RowsOK, IsChecklist, LocalOK
<1>2. CASE pc \in AtRest \cup InFlight
  BY <1>1, <1>2, NothingWaits DEF TasksInv, LoopInv, AtRest, InFlight
<1>3. CASE pc \in Over \cup {"partial"}
  BY <1>3, NothingWaits DEF AllFinal
<1>4. CASE pc \in Early
  BY <1>4 DEF TasksInv, EarlyInv
<1> QED
  BY <1>2, <1>3, <1>4
  DEF TypeOK, ControlOK, ControlPoints, Early, AtRest, InFlight, Over, ClosedPoints

(* A run that is left with a task in flight ends that one and skips the    *)
(* others.                                                                 *)
CurrentEnds(s) ==
    \E k \in 1 .. Len(s) : s[k] \in {MarkTask(cur, "cancelled"), MarkTask(cur, "failed")}

Skips(s) == \E k \in 1 .. Len(s) : s[k] = SkipPending

(* A cancellation ends the current task, if one is in flight, and skips.   *)
LEMMA CancelledRunLeaves ==
    ASSUME NEW s
    PROVE  /\ s = FinalizeCancelledRun(TRUE) /\ pc \in InFlight
                  => Leaves(s) /\ CurrentEnds(s) /\ Skips(s)
           /\ s = FinalizeCancelledRun(FALSE) => Leaves(s) /\ Skips(s)
<1> USE DEF Leaves, CurrentEnds, Skips, Tidy, Settles, Works, Opens, Touches, MarkTask,
            SkipPending, SetStatus, TerminalTaskStatuses
<1>1. ASSUME s = FinalizeCancelledRun(TRUE), pc \in InFlight
      PROVE  Leaves(s) /\ CurrentEnds(s) /\ Skips(s)
  <2>1. /\ Len(s) = 5
        /\ s[1] = MarkTask(cur, "cancelled") /\ s[2].op = "emit"
        /\ s[3] = SkipPending /\ s[4] = SetStatus("cancelled") /\ s[5].op = "emit"
    BY <1>1, CancelledRunSpelled, Zenon
  <2>2. Tidy(s)
    BY <2>1
  <2>3. CurrentEnds(s) /\ Skips(s)
    BY <2>1
  <2>4. \A k \in 1 .. Len(s) :
           \/ s[k] \in {MarkTask(cur, "cancelled"), SkipPending,
                                  SetStatus("cancelled")}
           \/ s[k].op = "emit"
    BY <2>1
  <2>5. \A k \in 1 .. Len(s) :
           ~Opens(s[k]) /\ s[k].op # "drop" /\ Touches(s[k]) \subseteq {cur}
    BY <2>4
  <2> HIDE DEF Tidy, CurrentEnds, Skips, Settles, Opens, Touches, Works, MarkTask, SkipPending
  <2> QED
    BY <1>1, <2>2, <2>3, <2>5
<1>2. ASSUME s = FinalizeCancelledRun(FALSE)
      PROVE  Leaves(s) /\ Skips(s)
  <2>1. /\ Len(s) = 3
        /\ s[1] = SkipPending /\ s[2] = SetStatus("cancelled") /\ s[3].op = "emit"
    BY <1>2, CancelledRunSpelled, Zenon
  <2> QED
    BY <2>1
<1> QED
  BY <1>1, <1>2, Zenon

(* So does a budget hit, announced first.                                  *)
LEMMA BudgetExceededLeaves ==
    ASSUME NEW s
    PROVE  /\ s = FinalizeBudgetExceeded(TRUE) /\ pc \in InFlight
                  => Leaves(s) /\ CurrentEnds(s) /\ Skips(s)
           /\ s = FinalizeBudgetExceeded(FALSE) => Leaves(s) /\ Skips(s)
<1>1. CASE cancel
  BY <1>1, CancelledRunLeaves DEF FinalizeBudgetExceeded
<1>2. CASE ~cancel
  <2> USE DEF Leaves, CurrentEnds, Skips, Tidy, Settles, Works, Opens, Touches, MarkTask,
              SkipPending, SetFailed, TerminalTaskStatuses
  <2>1. ASSUME s = FinalizeBudgetExceeded(TRUE), pc \in InFlight
        PROVE  Leaves(s) /\ CurrentEnds(s) /\ Skips(s)
    <3>1. /\ Len(s) = 6
          /\ s[1].op = "emit" /\ s[2] = MarkTask(cur, "failed") /\ s[3].op = "emit"
          /\ s[4] = SkipPending /\ s[5] = SetFailed("budget") /\ s[6].op = "emit"
      BY <1>2, <2>1, BudgetExceededSpelled, Zenon
    <3>2. Tidy(s)
      BY <3>1
    <3>3. CurrentEnds(s) /\ Skips(s)
      BY <3>1
    <3>4. \A k \in 1 .. Len(s) :
             \/ s[k] \in {MarkTask(cur, "failed"), SkipPending,
                                    SetFailed("budget")}
             \/ s[k].op = "emit"
      BY <3>1
    <3>5. \A k \in 1 .. Len(s) :
             ~Opens(s[k]) /\ s[k].op # "drop" /\ Touches(s[k]) \subseteq {cur}
      BY <3>4
    <3> HIDE DEF Tidy, CurrentEnds, Skips, Settles, Opens, Touches, Works, MarkTask, SkipPending
    <3> QED
      BY <2>1, <3>2, <3>3, <3>5
  <2>2. ASSUME s = FinalizeBudgetExceeded(FALSE)
        PROVE  Leaves(s) /\ Skips(s)
    <3>1. /\ Len(s) = 4
          /\ s[1].op = "emit"
          /\ s[2] = SkipPending /\ s[3] = SetFailed("budget") /\ s[4].op = "emit"
      BY <1>2, <2>2, BudgetExceededSpelled, Zenon
    <3> QED
      BY <3>1
  <2> QED
    BY <2>1, <2>2, Zenon
<1> QED
  BY <1>1, <1>2

(* So does an abort, with outputs to make a partial answer of or without.  *)
LEMMA AbortLeaves ==
    ASSUME NEW s, pc \in InFlight,
           \/ s = FailTask(cur) \o <<SkipPending>>
           \/ s = FailTask(cur) \o <<SkipPending>> \o FinalizeFailed("aborted")
    PROVE  Leaves(s) /\ CurrentEnds(s) /\ Skips(s)
<1> USE DEF Leaves, CurrentEnds, Skips, Tidy, Settles, Works, Opens, Touches, MarkTask,
            SkipPending, SetFailed, TerminalTaskStatuses
<1>1. CASE s = FailTask(cur) \o <<SkipPending>>
  <2>1. Len(s) = 3 /\ s[1] = MarkTask(cur, "failed") /\ s[2].op = "emit" /\ s[3] = SkipPending
    BY <1>1, AbortSpelled, Zenon
  <2> QED
    BY <2>1
<1>2. CASE s = FailTask(cur) \o <<SkipPending>> \o FinalizeFailed("aborted")
  <2>1. /\ Len(s) = 5
        /\ s[1] = MarkTask(cur, "failed") /\ s[2].op = "emit"
        /\ s[3] = SkipPending /\ s[4] = SetFailed("aborted") /\ s[5].op = "emit"
    BY <1>2, AbortSpelled, Zenon
  <2> QED
    BY <2>1
<1> QED
  BY <1>1, <1>2

(* ... so that no task stays open, in flight or not.                       *)
LEMMA NoneStaysOpen ==
    ASSUME TypeOK, TasksInv, todo = <<>>, pc \notin ClosedPoints, NEW s, Skips(s),
           pc \in InFlight => CurrentEnds(s)
    PROVE  EndsAll(s)
<1>1. \A i \in DOMAIN tasks : tasks[i] = "pending" => \E k \in 1 .. Len(s) : Ends(s[k], i)
  BY DEF Skips, Ends, SkipPending
<1>2. pc \in InFlight => \E k \in 1 .. Len(s) : Ends(s[k], cur)
  BY DEF CurrentEnds, Ends, MarkTask, TerminalTaskStatuses
<1> QED
  BY <1>1, <1>2, FinalOrPending DEF EndsAll

(* What leaves without touching a task.                                    *)
LEMMA LeavesIdle ==
    /\ \A e \in Errors : Leaves(FinalizeFailed(e))
    /\ \A e \in Errors \ {"budget", "aborted"} : Unsettling(FinalizeFailed(e))
    /\ Leaves(FinalizeCancelled) /\ Leaves(FinalizeDone)
    /\ \A e : Leaves(<<SetPartialAnswer, Emit(e)>> \o FinalizeFailed("aborted"))
    /\ \A e : Leaves(<<Emit(e)>>) /\ Unsettling(<<Emit(e)>>)
    /\ Leaves(<<>>) /\ Unsettling(<<>>)
<1> USE DEF Tidy, Settles, Works, Opens, Touches, SetStatus, SetFailed, SetDone,
            SetPartialAnswer, Emit
<1>1. \A e \in Errors : Leaves(FinalizeFailed(e))
  BY DEF Leaves, FinalizeFailed
<1>2. \A e \in Errors \ {"budget", "aborted"} : Unsettling(FinalizeFailed(e))
  BY DEF Unsettling, FinalizeFailed
<1>3. Leaves(FinalizeCancelled) /\ Leaves(FinalizeDone)
  BY DEF Leaves, FinalizeCancelled, FinalizeDone
<1>4. ASSUME NEW e, NEW s, s = <<SetPartialAnswer, Emit(e)>> \o FinalizeFailed("aborted")
      PROVE  Leaves(s)
  <2>1. /\ Len(s) = 4
        /\ s[1] = SetPartialAnswer /\ s[2].op = "emit"
        /\ s[3] = SetFailed("aborted") /\ s[4].op = "emit"
    BY <1>4, AbortSpelled, Zenon
  <2> QED
    BY <2>1 DEF Leaves
<1>5. \A e : Leaves(<<Emit(e)>>) /\ Unsettling(<<Emit(e)>>)
  BY DEF Leaves, Unsettling
<1>6. Leaves(<<>>) /\ Unsettling(<<>>)
  BY DEF Leaves, Unsettling
<1> QED
  BY <1>1, <1>2, <1>3, <1>4, <1>5, <1>6

(* A task that fails with the run, without the others.                     *)
LEMMA LeavesFailed ==
    ASSUME pc \in InFlight, NEW e \in Errors \ {"budget", "aborted"},
           NEW s, s = FailTask(cur) \o FinalizeFailed(e)
    PROVE  Leaves(s) /\ Unsettling(s)
<1>1. /\ Len(s) = 4
      /\ s[1] = MarkTask(cur, "failed") /\ s[2].op = "emit"
      /\ s[3] = SetFailed(e) /\ s[4].op = "emit"
  BY AbortSpelled, Zenon
<1> QED
  BY <1>1 DEF Leaves, Unsettling, Tidy, Settles, Works, Opens, Touches, MarkTask,
     SetFailed, TerminalTaskStatuses

(* What stays in its phase.                                                *)
LEMMA SteadyCommits ==
    /\ Steady(<<>>) /\ Idle(<<>>)
    /\ \A e : Steady(<<Emit(e)>>) /\ Idle(<<Emit(e)>>)
    /\ \A e : LET s == <<SetStatus("planning"), Emit(e)>> IN Steady(s) /\ Idle(s)
    /\ Steady(<<SetStatus("running")>>) /\ Idle(<<SetStatus("running")>>)
    /\ \A e : Steady(<<RecordReflection, Emit(e)>>)
    /\ \A n : Steady(<<RecordAttempt(cur, n)>>)
    /\ \A t \in {"running", "retrying"} :
          /\ Steady(<<MarkTask(cur, t)>>)
          /\ \A e : Steady(<<MarkTask(cur, t), Emit(e)>>)
<1> USE DEF Steady, Idle, Tidy, Settles, Works, Opens, Touches, Emit, SetStatus,
            RecordReflection, RecordAttempt, MarkTask, TerminalTaskStatuses
<1>1. Steady(<<>>) /\ Idle(<<>>)
  OBVIOUS
<1>2. \A e : Steady(<<Emit(e)>>) /\ Idle(<<Emit(e)>>)
  OBVIOUS
<1>3. \A e : LET s == <<SetStatus("planning"), Emit(e)>> IN Steady(s) /\ Idle(s)
  OBVIOUS
<1>4. Steady(<<SetStatus("running")>>) /\ Idle(<<SetStatus("running")>>)
  OBVIOUS
<1>5. \A e : Steady(<<RecordReflection, Emit(e)>>)
  OBVIOUS
<1>6. \A n : Steady(<<RecordAttempt(cur, n)>>)
  OBVIOUS
<1>7. \A t \in {"running", "retrying"} : Steady(<<MarkTask(cur, t)>>)
  OBVIOUS
<1>8. \A t \in {"running", "retrying"} : \A e : Steady(<<MarkTask(cur, t), Emit(e)>>)
  OBVIOUS
<1> HIDE DEF Steady, Idle, Tidy, Settles, Works, Opens, Touches, Emit, SetStatus,
             RecordReflection, RecordAttempt, MarkTask, TerminalTaskStatuses
<1> QED
  BY <1>1, <1>2, <1>3, <1>4, <1>5, <1>6, <1>7, <1>8, Zenon

-----------------------------------------------------------------------------
(* The decisions, one by one                                               *)

(* Leaving between tasks: whatever is open is pending.                     *)
LEMMA LeavesBetween ==
    ASSUME TypeOK, TasksInv, NEW from, from \notin InFlight \cup ClosedPoints,
           NEW to \in ClosedPoints,
           \/ Decide(from, to, FinalizeCancelledRun(FALSE))
           \/ Decide(from, to, FinalizeBudgetExceeded(FALSE))
    PROVE  TasksInv'
<1>1. pc = from /\ todo = <<>> /\ pc \notin InFlight \cup ClosedPoints
  BY DEF Decide
<1>2. PICK s \in {FinalizeCancelledRun(FALSE), FinalizeBudgetExceeded(FALSE)} :
         Decide(from, to, s)
  OBVIOUS
<1>3. Leaves(s) /\ Skips(s)
  BY <1>2, CancelledRunLeaves, BudgetExceededLeaves
<1>4. EndsAll(s)
  BY <1>1, <1>3, NoneStaysOpen
<1> QED
  BY <1>2, <1>3, <1>4, DecideToLeave

(* Until the plan is accepted there are no tasks, then only pending ones.  *)
LEMMA PlanningTasks ==
    ASSUME TypeOK, TasksInv, Planning
    PROVE  TasksInv'
<1> USE DEF Early, AtRest, InFlight, Over, ClosedPoints
<1>1. CASE Register
  BY <1>1, SteadyCommits, DecideWithin DEF Register, plan
<1>2. CASE StartPlanning
  BY <1>2, SteadyCommits, DecideWithin DEF StartPlanning, local, plan
<1>3. CASE CheckPlanning
  <2>1. CASE cancel
    <3>1. Decide("planning", "finished", FinalizeCancelled)
      BY <1>3, <2>1 DEF CheckPlanning
    <3>2. EndsAll(FinalizeCancelled)
      BY <3>1 DEF Decide, TasksInv, EarlyInv, EndsAll
    <3> QED
      BY <3>1, <3>2, LeavesIdle, DecideToLeave
  <2>2. CASE ~cancel
    BY <1>3, <2>2, SteadyCommits, DecideWithin DEF CheckPlanning, local, plan
  <2> QED
    BY <2>1, <2>2
<1>4. CASE Recall
  BY <1>4, SteadyCommits, DecideWithin DEF Recall, local, plan
<1>5. CASE PlannerReturns
  <2>1. PICK n \in 1 .. MaxTasks :
           /\ Decide("plan", "planned", <<AddTasks(0, n), Emit(PlanEvent(0, n))>>)
           /\ last' = n - 1
    BY <1>5 DEF PlannerReturns
  <2>2. /\ pc = "plan" /\ pc' = "planned" /\ UNCHANGED <<status, error, tasks, cur>>
        /\ todo' = <<AddTasks(0, n), Emit(PlanEvent(0, n))>>
    BY <1>5, <2>1 DEF PlannerReturns, Decide, durable
  <2>3. DOMAIN tasks = {} /\ cur = 0 /\ ~Settled
    BY <2>2 DEF TasksInv, EarlyInv, SettleInv
  <2>4. Waiting' = {AddTasks(0, n), Emit(PlanEvent(0, n))} /\ Tidy(todo)'
    BY <2>2 DEF Waiting, Tidy, Settles, Works, AddTasks, Emit
  <2>5. n \in Nat
    OBVIOUS
  <2> QED
    BY <2>1, <2>2, <2>3, <2>4, <2>5
    DEF TasksInv, EarlyInv, LoopInv, LateInv, SettleInv, Settled, Settles, Opens, Touches,
        Fits, ExecutedInOrder, AllFinal, AddTasks, Emit
<1>6. CASE PlannerFails
  <2>1. PICK e \in {"planning", "llm"} : Decide("plan", "handled", FinalizeFailed(e))
    BY <1>6 DEF PlannerFails
  <2>2. Leaves(FinalizeFailed(e)) /\ Unsettling(FinalizeFailed(e))
    BY LeavesIdle DEF Errors
  <2> QED
    BY <2>1, <2>2, DecideToLeave
<1>7. CASE PlannerExhausts
  BY <1>7, LeavesBetween DEF PlannerExhausts
<1>8. CASE CheckPlanned
  <2>1. CASE cancel
    BY <1>8, <2>1, LeavesBetween DEF CheckPlanned
  <2>2. CASE ~cancel
    BY <1>8, <2>2, SteadyCommits, DecideWithin DEF CheckPlanned, local, plan
  <2> QED
    BY <2>1, <2>2
<1> QED
  BY <1>1, <1>2, <1>3, <1>4, <1>5, <1>6, <1>7, <1>8 DEF Planning

(* Leaving with a task in flight: it ends, and what is pending is skipped. *)
LEMMA LeavesFromFlight ==
    ASSUME TypeOK, TasksInv, NEW from \in InFlight,
           \/ Decide(from, "finished", FinalizeCancelledRun(TRUE))
           \/ Decide(from, "finished", FinalizeBudgetExceeded(TRUE))
    PROVE  TasksInv'
<1>1. pc = from /\ todo = <<>> /\ pc \notin ClosedPoints
  BY DEF Decide, InFlight, ClosedPoints
<1>2. PICK s \in {FinalizeCancelledRun(TRUE), FinalizeBudgetExceeded(TRUE)} :
         Decide(from, "finished", s)
  OBVIOUS
<1>3. Leaves(s) /\ CurrentEnds(s) /\ Skips(s)
  BY <1>1, <1>2, CancelledRunLeaves, BudgetExceededLeaves
<1>4. EndsAll(s)
  BY <1>1, <1>3, NoneStaysOpen
<1> QED
  BY <1>2, <1>3, <1>4, DecideToLeave DEF ClosedPoints

(* Accepting the current task.                                             *)
LEMMA AcceptTasks ==
    ASSUME TypeOK, TasksInv, NEW from \in InFlight, Accept(from)
    PROVE  TasksInv'
<1>1. /\ pc = from /\ pc' = "task" /\ todo = <<>> /\ UNCHANGED <<status, error, tasks, last>>
      /\ todo' = CompleteTask(cur) /\ cur' = cur + 1
  BY DEF Accept, Decide, durable
<1>2. \A i \in DOMAIN tasks : i < cur => Final(i)
  BY <1>1, NothingWaits
<1>3. \A i \in DOMAIN tasks :
         i <= last /\ (i = cur => ~Final(i)) /\ (i > cur => tasks[i] = "pending")
  BY <1>1 DEF TasksInv, LoopInv
<1>4. /\ Waiting' = {MarkTask(cur, "done"), Emit(TaskEvent("task.completed", cur))}
      /\ Tidy(todo)'
  BY <1>1 DEF CompleteTask, Waiting, Tidy, Settles, Works, MarkTask, Emit
<1>5. cur \in Nat /\ DOMAIN tasks \subseteq Nat
  BY DEF TypeOK, LocalOK, RowsOK, IsChecklist
<1>6. \A i \in DOMAIN tasks : Final(i) \/ i = cur => WillEnd(i)'
  BY <1>1, <1>4 DEF WillEnd, Ends, Final, MarkTask, TerminalTaskStatuses
<1>7. ~Settled
  BY <1>1 DEF TasksInv, SettleInv, InFlight, ClosedPoints
<1>8. LoopInv'
  <2>1. \A i \in DOMAIN tasks :
            /\ i <= last
            /\ i < cur + 1 => WillEnd(i)'
            /\ i >= cur + 1 => tasks[i] = "pending"
    BY <1>2, <1>3, <1>5, <1>6
  <2>2. \A c \in Waiting' :
            /\ c.op # "add" /\ ~Opens(c)
            /\ \A i \in Touches(c) : i = cur
    BY <1>4, <1>5 DEF Opens, Touches, MarkTask, Emit, TerminalTaskStatuses
  <2>3. \A i \in DOMAIN tasks : i > cur => ~Final(i)
    BY <1>3 DEF Final, TerminalTaskStatuses
  <2>4. \A i \in DOMAIN tasks :
            /\ i <= last
            /\ i < cur + 1 => WillEnd(i)'
            /\ i = cur + 1 => tasks[i] = "pending" /\ ~Final(i)'
            /\ i > cur + 1 => tasks[i] = "pending"
    BY <1>1, <1>5, <2>1, <2>3 DEF Final
  <2>5. \A c \in Waiting' : \A i \in Touches(c) : i <= cur + 1 /\ i # cur + 1
    BY <1>5, <2>2
  <2> QED
    BY <1>1, <2>2, <2>4, <2>5 DEF LoopInv, AtRest, InFlight, Opens, Touches
<1>9. EarlyInv' /\ LateInv' /\ SettleInv'
  BY <1>1, <1>4, <1>7
  DEF EarlyInv, LateInv, SettleInv, Settled, Settles, Early, AtRest, Over, MarkTask, Emit
<1>10. ExecutedInOrder' /\ \A c \in Waiting' : Fits(c)'
  BY <1>1, <1>2, <1>3, <1>4
  DEF TasksInv, ExecutedInOrder, Fits, Touches, Final, MarkTask, Emit
<1> QED
  BY <1>4, <1>8, <1>9, <1>10 DEF TasksInv

(* A pending task is started.                                              *)
LEMMA StartTasks ==
    ASSUME TypeOK, TasksInv, cur <= last, UNCHANGED <<cur, last>>,
           Decide("task", "execute",
                  <<MarkTask(cur, "running"), Emit(TaskEvent("task.started", cur))>>)
    PROVE  TasksInv'
<1>1. /\ pc = "task" /\ pc' = "execute" /\ todo = <<>>
      /\ UNCHANGED <<status, error, tasks, cur, last>>
      /\ todo' = <<MarkTask(cur, "running"), Emit(TaskEvent("task.started", cur))>>
  BY DEF Decide, durable
<1>2. \A i \in DOMAIN tasks : i < cur => Final(i)
  BY <1>1, NothingWaits DEF AtRest
<1>3. \A i \in DOMAIN tasks : i <= last /\ (i >= cur => tasks[i] = "pending" /\ ~Final(i))
  <2>1. cur \in Nat /\ DOMAIN tasks \subseteq Nat
    BY DEF TypeOK, LocalOK, RowsOK, IsChecklist
  <2> QED
    BY <1>1, <2>1 DEF TasksInv, LoopInv, AtRest, Final, TerminalTaskStatuses
<1>4. /\ Waiting' = {MarkTask(cur, "running"), Emit(TaskEvent("task.started", cur))}
      /\ Tidy(todo)'
  BY <1>1 DEF Waiting, Tidy, Settles, Works, MarkTask, Emit
<1>5. cur \in Nat /\ DOMAIN tasks \subseteq Nat
  BY DEF TypeOK, LocalOK, RowsOK, IsChecklist
<1>6. \A i \in DOMAIN tasks : Final(i) => WillEnd(i)'
  BY <1>1 DEF WillEnd, Final
<1>7. ~Settled
  BY <1>1 DEF TasksInv, SettleInv, ClosedPoints
<1>8. LoopInv'
  <2>1. \A i \in DOMAIN tasks :
            /\ i <= last
            /\ i < cur => WillEnd(i)'
            /\ i = cur => ~Final(i)'
            /\ i > cur => tasks[i] = "pending"
    BY <1>1, <1>2, <1>3, <1>5, <1>6 DEF Final
  <2>2. \A c \in Waiting' :
            /\ c.op # "add"
            /\ c.op = "mark" => Opens(c) /\ c.index = cur
            /\ \A i \in Touches(c) : i = cur /\ Opens(c)
    BY <1>4, <1>5 DEF Opens, Touches, MarkTask, Emit, TerminalTaskStatuses
  <2> QED
    BY <1>1, <1>5, <2>1, <2>2 DEF LoopInv, AtRest, InFlight, Opens, Touches
<1>9. EarlyInv' /\ LateInv' /\ SettleInv'
  BY <1>1, <1>4, <1>7
  DEF EarlyInv, LateInv, SettleInv, Settled, Settles, Early, AtRest, InFlight, Over,
      MarkTask, Emit
<1>10. ExecutedInOrder' /\ \A c \in Waiting' : Fits(c)'
  BY <1>1, <1>2, <1>3, <1>4, <1>5
  DEF TasksInv, ExecutedInOrder, Fits, Touches, Final, MarkTask, Emit
<1> QED
  BY <1>4, <1>8, <1>9, <1>10 DEF TasksInv

(* The decisions of the task loop, up to the judgement.                    *)
LEMMA ExecutingTasks ==
    ASSUME TypeOK, TasksInv, Executing
    PROVE  TasksInv'
<1> USE DEF Early, AtRest, InFlight, Over, ClosedPoints
<1>1. CASE StartTask
  <2>1. CASE cancel
    BY <1>1, <2>1, LeavesBetween DEF StartTask
  <2>2. CASE ~cancel
    BY <1>1, <2>2, StartTasks DEF StartTask, plan
  <2> QED
    BY <2>1, <2>2
<1>2. CASE TasksDone
  <2>1. /\ pc = "task" /\ pc' = "synthesize" /\ todo = <<>> /\ todo' = <<>>
        /\ UNCHANGED <<status, error, tasks>>
    BY <1>2 DEF TasksDone, Decide, durable
  <2>2. AllFinal
    <3>1. \A i \in DOMAIN tasks : i <= last /\ (i < cur => Final(i))
      BY <2>1, NothingWaits DEF TasksInv, LoopInv
    <3>2. cur > last /\ cur \in Nat /\ last \in Nat /\ DOMAIN tasks \subseteq Nat
      BY <1>2 DEF TasksDone, TypeOK, LocalOK, RowsOK, IsChecklist
    <3> QED
      BY <3>1, <3>2 DEF AllFinal
  <2>3. Waiting' = {} /\ Tidy(todo)' /\ ~Settled
    BY <2>1 DEF Waiting, Tidy, TasksInv, SettleInv
  <2> QED
    BY <2>1, <2>2, <2>3
    DEF TasksInv, EarlyInv, LoopInv, LateInv, SettleInv, Settled, ExecutedInOrder, AllFinal,
        Final
<1>3. CASE StartAttempt
  <2>1. CASE cancel
    BY <1>3, <2>1, LeavesFromFlight DEF StartAttempt
  <2>2. CASE ~cancel
    BY <1>3, <2>2, SteadyCommits, DecideWithin DEF StartAttempt, local, plan
  <2> QED
    BY <2>1, <2>2
<1>4. CASE ExecutorReturns
  BY <1>4, SteadyCommits, DecideWithin DEF ExecutorReturns, plan
<1>5. CASE ExecutorCancelled
  BY <1>5, LeavesFromFlight DEF ExecutorCancelled
<1>6. CASE ExecutorFails
  <2>1. CASE cancel
    BY <1>6, <2>1, LeavesFromFlight DEF ExecutorFails
  <2>2. CASE ~cancel /\ ~Reflection
    <3>1. Decide("execute", "finished", FailTask(cur) \o FinalizeFailed("task"))
      BY <1>6, <2>2 DEF ExecutorFails
    <3>2. PICK s : s = FailTask(cur) \o FinalizeFailed("task")
      OBVIOUS
    <3>3. Leaves(s) /\ Unsettling(s)
      BY <3>1, <3>2, LeavesFailed DEF Decide, Errors
    <3> QED
      BY <3>1, <3>2, <3>3, DecideToLeave
  <2>3. CASE ~cancel /\ Reflection
    BY <1>6, <2>3, SteadyCommits, DecideWithin DEF ExecutorFails, plan
  <2> QED
    BY <2>1, <2>2, <2>3, SwitchesAssumption
<1>7. CASE ExecutorExhausts
  BY <1>7, LeavesFromFlight DEF ExecutorExhausts
<1>8. CASE CheckExecuted
  <2>1. CASE cancel
    BY <1>8, <2>1, LeavesFromFlight DEF CheckExecuted
  <2>2. CASE ~cancel /\ Reflection
    BY <1>8, <2>2, SteadyCommits, DecideWithin DEF CheckExecuted, plan
  <2>3. CASE ~cancel /\ ~Reflection
    BY <1>8, <2>3, AcceptTasks DEF CheckExecuted
  <2> QED
    BY <2>1, <2>2, <2>3, SwitchesAssumption
<1>9. CASE ReflectorReturns
  BY <1>9, SteadyCommits, DecideWithin DEF ReflectorReturns, plan
<1>10. CASE ReflectorExhausts
  BY <1>10, LeavesFromFlight DEF ReflectorExhausts
<1> QED
  BY <1>1, <1>2, <1>3, <1>4, <1>5, <1>6, <1>7, <1>8, <1>9, <1>10 DEF Executing

(* The triggering task and all after it are to be dropped, and a new       *)
(* generation to be appended after them.                                   *)
LEMMA ReplanTasks ==
    ASSUME TypeOK, TasksInv, NEW n \in 1 .. MaxTasks,
           Decide("replan", "task",
                  <<DropTasks(Dropped), EmitSkipped(Dropped), AddTasks(StartIndex, n),
                    Emit(ReplanEvent(Dropped, StartIndex, n))>>),
           last' = StartIndex + n - 1, cur' = StartIndex
    PROVE  TasksInv'
<1> DEFINE event == ReplanEvent(Dropped, StartIndex, n)
<1>1. /\ pc = "replan" /\ pc' = "task" /\ todo = <<>>
      /\ UNCHANGED <<status, error, tasks>>
      /\ todo' = <<DropTasks(cur .. last), EmitSkipped(cur .. last), AddTasks(last + 1, n),
                   Emit(event)>>
      /\ cur' = last + 1 /\ last' = last + n
  BY LimitsAssumption DEF Decide, durable, Dropped, StartIndex, TypeOK, LocalOK
<1>2. /\ cur \in Nat /\ last \in Nat /\ DOMAIN tasks \subseteq Nat
      /\ n \in Nat /\ n >= 1
  BY LimitsAssumption DEF TypeOK, LocalOK, RowsOK, IsChecklist
<1>3. \A i \in DOMAIN tasks : i <= last /\ (i < cur <=> Final(i))
  <2>1. \A i \in DOMAIN tasks : i < cur => Final(i)
    BY <1>1, NothingWaits DEF InFlight
  <2> QED
    BY <1>1, <1>2, <2>1 DEF TasksInv, LoopInv, InFlight, Final, TerminalTaskStatuses
<1> HIDE DEF event
<1>4. /\ Waiting' = {DropTasks(cur .. last), EmitSkipped(cur .. last), AddTasks(last + 1, n),
                     Emit(event)}
      /\ Tidy(todo)'
  <2>1. /\ Len(todo') = 4
        /\ todo'[1] = DropTasks(cur .. last) /\ todo'[2] = EmitSkipped(cur .. last)
        /\ todo'[3] = AddTasks(last + 1, n) /\ todo'[4] = Emit(event)
    BY <1>1
  <2>2. Tidy(todo)'
    BY <2>1 DEF Tidy, Settles, Works, DropTasks, EmitSkipped, AddTasks, Emit
  <2> QED
    BY <2>1, <2>2 DEF Waiting
<1>5. \A i \in DOMAIN tasks : WillEnd(i)'
  BY <1>1, <1>2, <1>3, <1>4 DEF WillEnd, Final, Ends, DropTasks
<1>6. ~Settled
  BY <1>1 DEF TasksInv, SettleInv, ClosedPoints
<1>7. LoopInv'
  <2>1. \A i \in DOMAIN tasks : i <= last + n /\ i < last + 1
    BY <1>2, <1>3
  <2>2. \A c \in Waiting' :
            /\ c.op = "add" => c.start = last + 1 /\ c.count = n
            /\ c.op # "mark"
            /\ Touches(c) \subseteq cur .. last
    BY <1>2, <1>4 DEF Touches, DropTasks, EmitSkipped, AddTasks, Emit
  <2>3. \A c \in Waiting' : \A i \in Touches(c) : i <= last + 1 /\ i # last + 1
    BY <1>2, <2>2
  <2>4. \A c \in Waiting' :
            c.op = "add" => c.start >= last + 1 /\ c.start + c.count - 1 <= last + n
    BY <1>2, <2>2
  <2> QED
    BY <1>1, <1>2, <1>5, <2>1, <2>2, <2>3, <2>4 DEF LoopInv, AtRest, InFlight, Touches, Opens
<1>8. EarlyInv' /\ LateInv' /\ SettleInv'
  BY <1>1, <1>4, <1>6
  DEF EarlyInv, LateInv, SettleInv, Settled, Settles, Early, AtRest, InFlight, Over,
      DropTasks, EmitSkipped, AddTasks, Emit
<1>9. ExecutedInOrder'
  BY <1>1 DEF TasksInv, ExecutedInOrder
<1>10. \A c \in Waiting' : Fits(c)'
  <2>1. \A c : c = DropTasks(cur .. last) => Fits(c)'
    BY <1>1, <1>2, <1>3 DEF Fits, Touches, Final, DropTasks
  <2>2. \A c : c = AddTasks(last + 1, n) => Fits(c)'
    BY <1>1, <1>2, <1>3 DEF Fits, Touches, AddTasks
  <2>3. \A c : c \in {EmitSkipped(cur .. last), Emit(event)} => Fits(c)'
    BY DEF Fits, Touches, EmitSkipped, Emit
  <2> QED
    BY <1>4, <2>1, <2>2, <2>3
<1> QED
  BY <1>4, <1>7, <1>8, <1>9, <1>10 DEF TasksInv

(* Acting on the verdict: accept, retry, replan or abort.                  *)
LEMMA JudgingTasks ==
    ASSUME TypeOK, TasksInv, Judging
    PROVE  TasksInv'
<1> USE DEF Early, AtRest, InFlight, Over, ClosedPoints
<1>1. CASE JudgedCancelled
  BY <1>1, LeavesFromFlight DEF JudgedCancelled
<1>2. CASE JudgedAccept
  BY <1>2, AcceptTasks DEF JudgedAccept
<1>3. CASE JudgedRetry
  BY <1>3, SteadyCommits, DecideWithin DEF JudgedRetry, plan
<1>4. CASE JudgedReplan
  BY <1>4, SteadyCommits, DecideWithin DEF JudgedReplan, plan
<1>5. CASE JudgedAbort
  <2>1. CASE outputs = {}
    <3>1. PICK s : s = FailTask(cur) \o <<SkipPending>> \o FinalizeFailed("aborted")
      OBVIOUS
    <3>2. Decide("judged", "finished", s)
      BY <1>5, <2>1, <3>1 DEF JudgedAbort
    <3>3. pc = "judged" /\ todo = <<>>
      BY <3>2 DEF Decide
    <3>4. Leaves(s) /\ CurrentEnds(s) /\ Skips(s)
      <4>1. pc \in InFlight
        BY <3>3
      <4> HIDE DEF InFlight
      <4> QED
        BY <3>1, <4>1, AbortLeaves, Zenon
    <3>5. EndsAll(s)
      BY <3>3, <3>4, NoneStaysOpen
    <3> QED
      BY <3>2, <3>4, <3>5, DecideToLeave
  <2>2. CASE outputs # {}
    <3>1. PICK s : s = FailTask(cur) \o <<SkipPending>>
      OBVIOUS
    <3>2. Decide("judged", "partial", s)
      BY <1>5, <2>2, <3>1 DEF JudgedAbort
    <3>3. pc = "judged" /\ todo = <<>>
      BY <3>2 DEF Decide
    <3>4. Leaves(s) /\ CurrentEnds(s) /\ Skips(s)
      <4>1. pc \in InFlight
        BY <3>3
      <4> HIDE DEF InFlight
      <4> QED
        BY <3>1, <4>1, AbortLeaves, Zenon
    <3>5. EndsAll(s)
      BY <3>3, <3>4, NoneStaysOpen
    <3>6. \A k \in 1 .. Len(s) : ~Settles(s[k])
      <4>1. /\ Len(s) = 3
            /\ s[1] = MarkTask(cur, "failed") /\ s[2].op = "emit" /\ s[3] = SkipPending
        BY <3>1, AbortSpelled, Zenon
      <4> QED
        BY <4>1 DEF Settles, MarkTask, SkipPending
    <3> QED
      BY <3>2, <3>4, <3>5, <3>6, DecideToLeave
  <2> QED
    BY <2>1, <2>2
<1>6. CASE ReplanReturns
  <2>1. CASE cancel
    BY <1>6, <2>1, LeavesFromFlight DEF ReplanReturns
  <2>2. CASE ~cancel
    BY <1>6, <2>2, ReplanTasks DEF ReplanReturns
  <2> QED
    BY <2>1, <2>2
<1>7. CASE ReplanFails
  <2>1. PICK s : s = FailTask(cur) \o FinalizeFailed("replan")
    OBVIOUS
  <2>2. Decide("replan", "finished", s)
    BY <1>7, <2>1 DEF ReplanFails
  <2>3. Leaves(s) /\ Unsettling(s)
    BY <2>1, <2>2, LeavesFailed DEF Decide, Errors
  <2> QED
    BY <2>2, <2>3, DecideToLeave
<1>8. CASE ReplanExhausts
  BY <1>8, LeavesFromFlight DEF ReplanExhausts
<1>9. CASE ReplyRaises
  <2>1. "unexpected" \in Errors \ {"budget", "aborted"}
    BY DEF Errors
  <2> QED
    BY <1>9, <2>1, LeavesIdle, DecideToLeave DEF ReplyRaises, Parsing
<1> QED
  BY <1>1, <1>2, <1>3, <1>4, <1>5, <1>6, <1>7, <1>8, <1>9 DEF Judging

(* After the loop every task is final, so any ending will do.              *)
LEMMA LeavesAfter ==
    ASSUME TypeOK, TasksInv, NEW from \in Over \cup {"partial"}, NEW to \in ClosedPoints,
           NEW s, Decide(from, to, s), Leaves(s)
    PROVE  TasksInv'
<1>1. AllFinal
  BY NothingWaits DEF Decide
<1>2. EndsAll(s)
  BY <1>1 DEF AllFinal, EndsAll
<1> QED
  BY <1>2, DecideToLeave

(* The decisions after the loop, where no task is open any more.           *)
LEMMA AnsweringTasks ==
    ASSUME TypeOK, TasksInv, Answering
    PROVE  TasksInv'
<1> USE DEF Early, AtRest, InFlight, Over, ClosedPoints
<1>0. AfterAnswer \in {"memory", "finished"} /\ "llm" \in Errors \ {"budget", "aborted"}
  BY DEF AfterAnswer, Errors
<1>1. CASE PartialReturns
  <2>1. PICK s, e : s = <<SetPartialAnswer, Emit(e)>> \o FinalizeFailed("aborted")
                    /\ Decide("partial", AfterAnswer, s)
    BY <1>1 DEF PartialReturns
  <2>2. Leaves(s)
    BY <2>1, LeavesIdle, Zenon
  <2> QED
    BY <1>0, <2>1, <2>2, LeavesAfter
<1>2. CASE PartialFails
  BY <1>0, <1>2, LeavesIdle, DecideToLeave DEF PartialFails
<1>3. CASE PartialExhausts
  BY <1>3, LeavesBetween DEF PartialExhausts
<1>4. CASE CheckSynthesis
  <2>1. CASE cancel
    BY <1>4, <2>1, LeavesIdle, LeavesAfter DEF CheckSynthesis
  <2>2. CASE ~cancel
    BY <1>4, <2>2, SteadyCommits, DecideWithin DEF CheckSynthesis, local, plan
  <2> QED
    BY <2>1, <2>2
<1>5. CASE AnswerReturns
  BY <1>5, SteadyCommits, DecideWithin DEF AnswerReturns, plan
<1>6. CASE AnswerFails
  BY <1>0, <1>6, LeavesIdle, DecideToLeave DEF AnswerFails
<1>7. CASE AnswerExhausts
  BY <1>7, LeavesBetween DEF AnswerExhausts
<1>8. CASE StreamToken
  <2>1. CASE cancel
    BY <1>8, <2>1, LeavesIdle, LeavesAfter DEF StreamToken
  <2>2. CASE ~cancel
    BY <1>8, <2>2, SteadyCommits, DecideWithin DEF StreamToken, plan
  <2> QED
    BY <2>1, <2>2
<1>9. CASE StreamDone
  BY <1>0, <1>9, LeavesIdle, LeavesAfter DEF StreamDone
<1>10. CASE WriteMemory
  <2>1. PICK s \in {<<>>, <<Emit(Plain("memory.written"))>>} : Decide("memory", "finished", s)
    BY <1>10 DEF WriteMemory
  <2>2. Leaves(s) /\ Unsettling(s)
    BY <2>1, LeavesIdle
  <2> QED
    BY <2>1, <2>2, DecideToLeave
<1>11. CASE Cleanup
  <2>1. PICK from \in {"finished", "handled"} : Decide(from, "ended", <<>>)
    BY <1>11 DEF Cleanup
  <2> QED
    BY <2>1, LeavesIdle, DecideToLeave
<1> QED
  BY <1>1, <1>2, <1>3, <1>4, <1>5, <1>6, <1>7, <1>8, <1>9, <1>10, <1>11 DEF Answering

-----------------------------------------------------------------------------
(* The commits                                                             *)

(* The head of todo is performed; a skip leaves its events in its place.   *)
Performs(c) ==
    /\ todo # <<>> /\ c = Head(todo)
    /\ \/ todo' = Tail(todo)
       \/ \E S : todo' = <<EmitSkipped(S)>> \o Tail(todo)
    /\ UNCHANGED <<pc, cur, last>>

(* What may come after it in a tidy list.                                  *)
Follows(c, d) ==
    /\ Settles(c) => d.op = "emit"
    /\ c.op = "skip" => ~Works(d)
    /\ Works(c) /\ Works(d) => c.op = "drop" /\ d.op = "add"

(* What waits after it waited before, and follows it; and stays tidy.      *)
LEMMA AfterCommit ==
    ASSUME TypeOK, Tidy(todo), NEW c, Performs(c)
    PROVE  /\ c \in Waiting
           /\ Tidy(todo)'
           /\ \A d \in Waiting : d = c \/ d \in Waiting'
           /\ \A d \in Waiting' : d.op = "emitSkipped" \/ (d \in Waiting /\ Follows(c, d))
<1>1. /\ todo \in Seq(Commit) /\ Len(todo) >= 1 /\ Len(todo) \in Nat /\ c = todo[1]
      /\ Len(Tail(todo)) = Len(todo) - 1
      /\ \A k \in 1 .. Len(todo) - 1 : Tail(todo)[k] = todo[k + 1]
  BY DEF TypeOK, ControlOK, Performs
<1>2. \A k \in 2 .. Len(todo) : Follows(c, todo[k])
  BY <1>1 DEF Tidy, Follows
<1>3. CASE todo' = Tail(todo)
  <2>1. \A k \in 1 .. Len(todo') : k + 1 \in 2 .. Len(todo) /\ todo'[k] = todo[k + 1]
    BY <1>1, <1>3
  <2>2. \A k \in 2 .. Len(todo) : k - 1 \in 1 .. Len(todo') /\ todo'[k - 1] = todo[k]
    BY <1>1, <1>3
  <2>3. Tidy(todo)'
    <3> SUFFICES ASSUME NEW k \in 1 .. Len(todo'), NEW m \in 1 .. Len(todo'), k < m
                 PROVE  /\ Settles(todo'[k]) => todo'[m].op = "emit"
                        /\ todo'[k].op = "skip" => ~Works(todo'[m])
                        /\ Works(todo'[k]) /\ Works(todo'[m]) =>
                              todo'[k].op = "drop" /\ todo'[m].op = "add"
      BY DEF Tidy, Settles, Works
    <3>1. k + 1 \in 1 .. Len(todo) /\ m + 1 \in 1 .. Len(todo) /\ k + 1 < m + 1
      BY <1>1, <2>1
    <3> QED
      BY <2>1, <3>1 DEF Tidy
  <2>4. \A d \in Waiting : d = c \/ d \in Waiting'
    BY <1>1, <2>2 DEF Waiting
  <2>5. \A d \in Waiting' : d \in Waiting /\ Follows(c, d)
    BY <1>1, <1>2, <2>1 DEF Waiting
  <2> QED
    BY <1>1, <2>3, <2>4, <2>5 DEF Waiting
<1>4. CASE \E S : todo' = <<EmitSkipped(S)>> \o Tail(todo)
  <2>1. PICK S : todo' = <<EmitSkipped(S)>> \o Tail(todo)
    BY <1>4
  <2>2. /\ Len(todo') = Len(todo) /\ todo'[1].op = "emitSkipped"
        /\ \A k \in 2 .. Len(todo) : todo'[k] = todo[k]
    BY <1>1, <2>1 DEF EmitSkipped
  <2>3. Tidy(todo)'
    <3> SUFFICES ASSUME NEW k \in 1 .. Len(todo), NEW m \in 1 .. Len(todo), k < m
                 PROVE  /\ Settles(todo'[k]) => todo'[m].op = "emit"
                        /\ todo'[k].op = "skip" => ~Works(todo'[m])
                        /\ Works(todo'[k]) /\ Works(todo'[m]) =>
                              todo'[k].op = "drop" /\ todo'[m].op = "add"
      BY <2>2 DEF Tidy, Settles, Works
    <3>1. CASE k = 1
      BY <2>2, <3>1 DEF Settles, Works
    <3>2. CASE k # 1
      <4>1. todo'[k] = todo[k] /\ todo'[m] = todo[m]
        BY <1>1, <2>2, <3>2
      <4> QED
        BY <4>1 DEF Tidy
    <3> QED
      BY <3>1, <3>2
  <2>4. \A d \in Waiting : d = c \/ d \in Waiting'
    BY <1>1, <2>2 DEF Waiting
  <2>5. \A d \in Waiting' : d.op = "emitSkipped" \/ (d \in Waiting /\ Follows(c, d))
    BY <1>1, <1>2, <2>2 DEF Waiting
  <2> QED
    BY <1>1, <2>3, <2>4, <2>5 DEF Waiting
<1> QED
  BY <1>3, <1>4 DEF Performs

(* A commit that leaves the tasks alone may settle the run: all that comes *)
(* after it is events, so whatever was to end has ended.                   *)
LEMMA CommitApart ==
    ASSUME TypeOK, TasksInv, NEW c, Performs(c),
           c.op \notin {"mark", "drop", "skip", "add"}, tasks' = tasks,
           Settled' => Settled \/ Settles(c)
    PROVE  TasksInv'
<1>1. /\ c \in Waiting /\ Tidy(todo)'
      /\ \A d \in Waiting : d = c \/ d \in Waiting'
      /\ \A d \in Waiting' : d.op = "emitSkipped" \/ (d \in Waiting /\ Follows(c, d))
  BY AfterCommit DEF TasksInv
<1>2. UNCHANGED <<tasks, pc, cur, last>>
  BY DEF Performs
<1>3. /\ \A i \in DOMAIN tasks : Final(i)' <=> Final(i)
      /\ \A i \in DOMAIN tasks : WillEnd(i) => WillEnd(i)'
  BY <1>1, <1>2 DEF Final, WillEnd, Ends
<1>4. AllWillEnd => AllWillEnd'
  BY <1>2, <1>3 DEF AllWillEnd
<1>5. EarlyInv'
  BY <1>2 DEF TasksInv, EarlyInv
<1>6. LoopInv'
  <2>1. pc \in AtRest \cup InFlight =>
          \A d \in Waiting' :
              /\ d.op = "add" =>
                    pc \in AtRest /\ d.start >= cur /\ d.start + d.count - 1 <= last
              /\ d.op = "mark" /\ Opens(d) => d.index = cur
              /\ \A i \in Touches(d) :
                    /\ i <= cur
                    /\ i = cur => pc \in InFlight /\ (Opens(d) \/ d.op = "attempt")
    BY <1>1 DEF TasksInv, LoopInv, Touches
  <2>2. pc \in AtRest \cup InFlight =>
          \A i \in DOMAIN tasks :
              /\ i <= last
              /\ i < cur => WillEnd(i)'
              /\ i = cur => ~Final(i)'
              /\ i > cur => tasks[i] = "pending"
              /\ i = cur /\ pc \in AtRest => tasks[i] = "pending"
    BY <1>3 DEF TasksInv, LoopInv
  <2> QED
    BY <1>2, <2>1, <2>2 DEF LoopInv, Touches, Opens
<1>7. LateInv'
  <2>1. AllFinal => AllFinal'
    BY <1>2, <1>3 DEF AllFinal
  <2>2. \A d \in Waiting' : Opens(d) => d \in Waiting
    BY <1>1 DEF Opens
  <2> QED
    BY <1>2, <1>4, <2>1, <2>2 DEF TasksInv, LateInv, Opens
<1>8. SettleInv'
  <2>1. \A d \in Waiting' :
            /\ Settles(d) => AllWillEnd' /\ pc' \in ClosedPoints
            /\ d.op = "skip" => AllWillEnd' /\ pc' \in ClosedPoints \cup {"partial"}
    BY <1>1, <1>2, <1>4 DEF TasksInv, SettleInv, Settles
  <2>2. Settles(c) => AllFinal' /\ pc' \in ClosedPoints
    <3>1. Settles(c) => AllWillEnd' /\ pc' \in ClosedPoints
      BY <1>1, <1>2, <1>4 DEF TasksInv, SettleInv
    <3>2. Settles(c) => \A d \in Waiting' : d.op \in {"emit", "emitSkipped"}
      BY <1>1 DEF Follows
    <3> QED
      BY <3>1, <3>2 DEF AllWillEnd, WillEnd, Ends, AllFinal
  <2>3. Settled => AllFinal' /\ pc' \in ClosedPoints
    BY <1>2, <1>3 DEF TasksInv, SettleInv, AllFinal
  <2> QED
    BY <2>1, <2>2, <2>3 DEF SettleInv, Settles
<1>9. ExecutedInOrder'
  BY <1>2 DEF TasksInv, ExecutedInOrder
<1>10. \A d \in Waiting' : Fits(d)'
  BY <1>1, <1>2, <1>3 DEF TasksInv, Fits, Touches
<1> QED
  BY <1>1, <1>5, <1>6, <1>7, <1>8, <1>9, <1>10 DEF TasksInv

(* A commit that ends tasks: those it touches, and no final one.           *)
LEMMA CommitEnding ==
    ASSUME TypeOK, TasksInv, NEW c, Performs(c), c.op \in {"mark", "drop"}, ~Opens(c),
           NEW t \in TerminalTaskStatuses, UNCHANGED <<status, error>>,
           tasks' = [i \in DOMAIN tasks |-> IF i \in Touches(c) THEN t ELSE tasks[i]]
    PROVE  TasksInv'
<1>1. /\ c \in Waiting /\ Tidy(todo)'
      /\ \A d \in Waiting : d = c \/ d \in Waiting'
      /\ \A d \in Waiting' : d.op = "emitSkipped" \/ (d \in Waiting /\ Follows(c, d))
  BY AfterCommit DEF TasksInv
<1>2. /\ UNCHANGED <<pc, cur, last>> /\ DOMAIN tasks' = DOMAIN tasks
      /\ \A i \in DOMAIN tasks : tasks'[i] = IF i \in Touches(c) THEN t ELSE tasks[i]
  BY DEF Performs
<1>3. /\ \A i \in DOMAIN tasks : Final(i) \/ i \in Touches(c) <=> Final(i)'
      /\ \A i \in DOMAIN tasks : WillEnd(i) => WillEnd(i)'
  <2>1. \A i \in DOMAIN tasks : Final(i) \/ i \in Touches(c) <=> Final(i)'
    BY <1>2 DEF Final
  <2>2. \A i \in DOMAIN tasks : Ends(c, i) => i \in Touches(c)
    BY DEF Ends, Touches
  <2>3. \A i \in DOMAIN tasks : \A d : Ends(d, i) => Ends(d, i)' \/ i \in Touches(c)
    BY <1>2 DEF Ends
  <2> QED
    BY <1>1, <2>1, <2>2, <2>3 DEF WillEnd
<1>4. AllWillEnd => AllWillEnd'
  BY <1>2, <1>3 DEF AllWillEnd
<1>5. EarlyInv'
  BY <1>2 DEF TasksInv, EarlyInv
<1>6. LoopInv'
  <2> SUFFICES ASSUME pc \in AtRest \cup InFlight PROVE LoopInv'
    BY <1>2 DEF LoopInv
  <2>1. \A d \in Waiting' :
              /\ d.op = "add" =>
                    pc \in AtRest /\ d.start >= cur /\ d.start + d.count - 1 <= last
              /\ d.op = "mark" /\ Opens(d) => d.index = cur
              /\ \A i \in Touches(d) :
                    /\ i <= cur
                    /\ i = cur => pc \in InFlight /\ (Opens(d) \/ d.op = "attempt")
    BY <1>1 DEF TasksInv, LoopInv, Touches
  <2>2. /\ \A i \in Touches(c) : i <= cur /\ i # cur
        /\ cur \in Nat /\ DOMAIN tasks \subseteq Nat
    BY <1>1 DEF TasksInv, LoopInv, TypeOK, LocalOK, RowsOK, IsChecklist
  <2>3. \A i \in DOMAIN tasks :
              /\ i <= last
              /\ i < cur => WillEnd(i)'
              /\ i = cur => ~Final(i)'
              /\ i > cur => tasks'[i] = "pending"
              /\ i = cur /\ pc \in AtRest => tasks'[i] = "pending"
    BY <1>2, <1>3, <2>2 DEF TasksInv, LoopInv
  <2> QED
    BY <1>2, <2>1, <2>3 DEF LoopInv, Touches, Opens
<1>7. LateInv'
  <2>1. AllFinal => AllFinal'
    BY <1>2, <1>3 DEF AllFinal
  <2>2. \A d \in Waiting' : Opens(d) => d \in Waiting
    BY <1>1 DEF Opens
  <2> QED
    BY <1>2, <1>4, <2>1, <2>2 DEF TasksInv, LateInv, Opens
<1>8. SettleInv'
  <2>1. \A d \in Waiting' :
            /\ Settles(d) => AllWillEnd' /\ pc' \in ClosedPoints
            /\ d.op = "skip" => AllWillEnd' /\ pc' \in ClosedPoints \cup {"partial"}
    BY <1>1, <1>2, <1>4 DEF TasksInv, SettleInv, Settles
  <2>2. Settled => AllFinal' /\ pc' \in ClosedPoints
    BY <1>2, <1>3 DEF TasksInv, SettleInv, AllFinal
  <2> QED
    BY <2>1, <2>2 DEF SettleInv, Settles, Settled
<1>9. ExecutedInOrder'
  <2>1. \A i \in DOMAIN tasks :
            i \in Touches(c) => \A j \in DOMAIN tasks : j < i => Final(j)'
    BY <1>1, <1>3 DEF TasksInv, Fits
  <2>2. \A i, j \in DOMAIN tasks :
            i < j /\ tasks'[j] # "pending" => Final(i) \/ Final(i)'
    BY <1>2, <2>1 DEF TasksInv, ExecutedInOrder, Final
  <2> QED
    BY <1>2, <1>3, <2>2 DEF ExecutedInOrder, Final
<1>10. \A d \in Waiting' : Fits(d)'
  <2>1. \A d \in Waiting' : Touches(d) = {} /\ (d.op = "add" => Fits(d))
    BY <1>1 DEF TasksInv, Follows, Works, Touches
  <2> QED
    BY <1>2, <2>1 DEF Fits, Touches
<1> QED
  BY <1>1, <1>5, <1>6, <1>7, <1>8, <1>9, <1>10 DEF TasksInv

(* A commit that marks the current task as being worked on.                *)
LEMMA CommitOpening ==
    ASSUME TypeOK, TasksInv, NEW c, Performs(c), c.op = "mark", Opens(c),
           UNCHANGED <<status, error>>,
           tasks' = [i \in DOMAIN tasks |-> IF i = c.index THEN c.status ELSE tasks[i]]
    PROVE  TasksInv'
<1>1. /\ c \in Waiting /\ Tidy(todo)'
      /\ \A d \in Waiting : d = c \/ d \in Waiting'
      /\ \A d \in Waiting' : d.op = "emitSkipped" \/ (d \in Waiting /\ Follows(c, d))
  BY AfterCommit DEF TasksInv
<1>2. c.index = cur /\ pc \in InFlight /\ c.status \notin TerminalTaskStatuses
  <2>1. pc \in AtRest \cup InFlight
    BY <1>1 DEF TasksInv, LateInv
  <2>2. c.index = cur /\ cur \in Touches(c)
    BY <1>1, <2>1 DEF TasksInv, LoopInv, Touches
  <2>3. pc \in InFlight
    BY <1>1, <2>1, <2>2 DEF TasksInv, LoopInv
  <2> QED
    BY <2>2, <2>3 DEF Opens
<1>3. /\ UNCHANGED <<pc, cur, last>> /\ DOMAIN tasks' = DOMAIN tasks
      /\ \A i \in DOMAIN tasks : tasks'[i] = IF i = cur THEN c.status ELSE tasks[i]
      /\ pc \notin AtRest \cup Early \cup Over \cup ClosedPoints \cup {"partial"}
  BY <1>2 DEF Performs, Early, AtRest, InFlight, Over, ClosedPoints
<1>4. /\ \A i \in DOMAIN tasks : i = cur => ~Final(i) /\ ~Final(i)'
      /\ \A i \in DOMAIN tasks : Final(i) <=> Final(i)'
  BY <1>2, <1>3 DEF TasksInv, LoopInv, Final
<1>5. \A i \in DOMAIN tasks : i < cur /\ WillEnd(i) => WillEnd(i)'
  <2>1. \A i \in DOMAIN tasks : ~Ends(c, i)
    BY <1>2 DEF Ends
  <2>2. cur \in Nat
    BY DEF TypeOK, LocalOK
  <2>3. \A i \in DOMAIN tasks : i < cur => \A d : Ends(d, i) => Ends(d, i)'
    BY <1>3, <2>2 DEF Ends
  <2> QED
    BY <1>1, <1>4, <2>1, <2>3 DEF WillEnd
<1>6. EarlyInv' /\ LateInv'
  BY <1>2, <1>3 DEF EarlyInv, LateInv
<1>7. LoopInv'
  <2>1. \A d \in Waiting' :
              /\ d.op # "add"
              /\ d.op = "mark" /\ Opens(d) => d.index = cur
              /\ \A i \in Touches(d) :
                    /\ i <= cur
                    /\ i = cur => pc \in InFlight /\ (Opens(d) \/ d.op = "attempt")
    BY <1>1, <1>2, <1>3 DEF TasksInv, LoopInv, Touches
  <2>2. cur \in Nat /\ DOMAIN tasks \subseteq Nat
    BY DEF TypeOK, LocalOK, RowsOK, IsChecklist
  <2>3. \A i \in DOMAIN tasks :
              /\ i <= last
              /\ i < cur => WillEnd(i)'
              /\ i = cur => ~Final(i)'
              /\ i > cur => tasks'[i] = "pending"
    BY <1>2, <1>3, <1>4, <1>5, <2>2 DEF TasksInv, LoopInv
  <2> QED
    BY <1>3, <2>1, <2>3 DEF LoopInv, Touches, Opens
<1>8. SettleInv'
  <2>1. ~Settled /\ \A d \in Waiting : ~Settles(d) /\ d.op # "skip"
    BY <1>1, <1>3 DEF TasksInv, SettleInv
  <2> QED
    BY <1>1, <2>1 DEF SettleInv, Settles, Settled
<1>9. ExecutedInOrder'
  <2>1. \A i \in DOMAIN tasks : cur \in DOMAIN tasks /\ i < cur => Final(i)
    <3>1. Touches(c) = {cur} /\ cur \in Nat /\ \A i \in DOMAIN tasks : i \in Nat
      BY <1>2 DEF Touches, TypeOK, LocalOK, RowsOK, IsChecklist
    <3> QED
      BY <1>1, <3>1 DEF TasksInv, Fits
  <2>2. /\ \A i \in DOMAIN tasks : i > cur => tasks[i] = "pending"
        /\ cur \in Nat /\ DOMAIN tasks \subseteq Nat
    BY <1>2 DEF TasksInv, LoopInv, TypeOK, LocalOK, RowsOK, IsChecklist
  <2>3. \A i, j \in DOMAIN tasks : i < j /\ tasks'[j] # "pending" => Final(i)
    <3> SUFFICES ASSUME NEW i \in DOMAIN tasks, NEW j \in DOMAIN tasks, i < j,
                        tasks'[j] # "pending"
                 PROVE  Final(i)
      OBVIOUS
    <3>1. CASE j = cur
      BY <2>1, <3>1
    <3>2. CASE j # cur
      BY <1>3, <2>2, <3>2 DEF TasksInv, ExecutedInOrder, Final
    <3> QED
      BY <3>1, <3>2
  <2> QED
    BY <1>3, <1>4, <2>3 DEF ExecutedInOrder, Final
<1>10. \A d \in Waiting' : Fits(d)'
  BY <1>1, <1>3, <1>4 DEF TasksInv, Fits, Touches
<1> QED
  BY <1>1, <1>6, <1>7, <1>8, <1>9, <1>10 DEF TasksInv

(* The pending tasks are skipped.  All others were final, or would be: and *)
(* what would have made them so came before.                               *)
LEMMA CommitSkipping ==
    ASSUME TypeOK, TasksInv, NEW c, Performs(c), c.op = "skip", UNCHANGED <<status, error>>,
           tasks' = [i \in DOMAIN tasks |->
                        IF tasks[i] = "pending" THEN "skipped" ELSE tasks[i]]
    PROVE  TasksInv'
<1>1. /\ c \in Waiting /\ Tidy(todo)'
      /\ \A d \in Waiting : d = c \/ d \in Waiting'
      /\ \A d \in Waiting' : d.op = "emitSkipped" \/ (d \in Waiting /\ Follows(c, d))
  BY AfterCommit DEF TasksInv
<1>2. /\ UNCHANGED <<pc, cur, last>> /\ DOMAIN tasks' = DOMAIN tasks
      /\ \A i \in DOMAIN tasks : Final(i) \/ tasks[i] = "pending" => Final(i)'
  BY DEF Performs, Final, TerminalTaskStatuses
<1>3. /\ AllWillEnd /\ pc \in ClosedPoints \cup {"partial"}
      /\ pc \notin Early \cup AtRest \cup InFlight
  BY <1>1 DEF TasksInv, SettleInv, ClosedPoints, Early, AtRest, InFlight
<1>4. \A d \in Waiting' : ~Works(d) /\ (Settles(d) \/ d.op = "skip" \/ Opens(d) => d \in Waiting)
  BY <1>1 DEF Follows, Works, Settles, Opens
<1>5. AllFinal'
  <2>1. \A d \in Waiting : ~Works(d)
    BY <1>1, <1>4 DEF Works
  <2>2. \A i \in DOMAIN tasks : \A d \in Waiting : Ends(d, i) => tasks[i] = "pending"
    BY <2>1 DEF Ends, Works
  <2> QED
    BY <1>2, <1>3, <2>2 DEF AllWillEnd, WillEnd, AllFinal
<1>6. AllWillEnd'
  BY <1>5 DEF AllFinal, AllWillEnd, WillEnd
<1>7. EarlyInv' /\ LoopInv'
  BY <1>2, <1>3 DEF EarlyInv, LoopInv
<1>8. LateInv'
  BY <1>2, <1>3, <1>4, <1>5, <1>6 DEF TasksInv, LateInv, Opens
<1>9. SettleInv'
  BY <1>2, <1>4, <1>5, <1>6 DEF TasksInv, SettleInv, Settles, Settled
<1>10. ExecutedInOrder'
  BY <1>5 DEF ExecutedInOrder, AllFinal, Final
<1>11. \A d \in Waiting' : Fits(d)'
  BY <1>4 DEF Fits, Touches, Works
<1> QED
  BY <1>1, <1>7, <1>8, <1>9, <1>10, <1>11 DEF TasksInv

(* A new generation is appended, after all there are and none before cur.  *)
LEMMA CommitAdding ==
    ASSUME TypeOK, TasksInv, NEW c, Performs(c), c.op = "add", UNCHANGED <<status, error>>,
           tasks' = WithPlan(tasks, c.start, c.count)
    PROVE  TasksInv'
<1> DEFINE new == c.start .. (c.start + c.count - 1)
<1>1. /\ c \in Waiting /\ Tidy(todo)'
      /\ \A d \in Waiting : d = c \/ d \in Waiting'
      /\ \A d \in Waiting' : d.op = "emitSkipped" \/ (d \in Waiting /\ Follows(c, d))
  BY AfterCommit DEF TasksInv
<1>2. /\ pc \in AtRest /\ c.start >= cur /\ c.start + c.count - 1 <= last
      /\ pc \notin Early \cup InFlight \cup Over \cup ClosedPoints \cup {"partial"}
  <2>1. Opens(c)
    BY DEF Opens
  <2>2. pc \in AtRest \cup InFlight
    BY <1>1, <2>1 DEF TasksInv, LateInv
  <2> QED
    BY <1>1, <2>2
    DEF TasksInv, LoopInv, Early, AtRest, InFlight, Over, ClosedPoints
<1>3. /\ c.start \in Nat /\ c.count \in Nat /\ cur \in Nat /\ last \in Nat
      /\ DOMAIN tasks \subseteq Nat
  <2>1. c \in Commit
    BY <1>1 DEF Waiting, TypeOK, ControlOK
  <2> QED
    BY <2>1, CommitFields DEF TypeOK, LocalOK, RowsOK, IsChecklist
<1>4. /\ UNCHANGED <<pc, cur, last>>
      /\ DOMAIN tasks' = DOMAIN tasks \cup new
      /\ \A i \in new : tasks'[i] = "pending"
      /\ \A i \in DOMAIN tasks : i \notin new /\ tasks'[i] = tasks[i]
      /\ \A i \in DOMAIN tasks : i < c.start
  <2>1. \A i \in DOMAIN tasks : i < c.start
    BY <1>1 DEF TasksInv, Fits
  <2> QED
    BY <1>3, <2>1 DEF Performs, WithPlan
<1>5. /\ \A i \in new : i >= cur /\ i <= last /\ i >= c.start /\ i \in Nat /\ ~Final(i)'
      /\ \A i \in DOMAIN tasks : Final(i)' <=> Final(i)
      /\ \A i \in DOMAIN tasks : WillEnd(i) => WillEnd(i)'
  <2>1. \A i \in new : i >= cur /\ i <= last /\ i >= c.start /\ i \in Nat
    BY <1>2, <1>3
  <2>2. \A i \in new : ~Final(i)'
    BY <1>4 DEF Final, TerminalTaskStatuses
  <2>3. \A i \in DOMAIN tasks : Final(i)' <=> Final(i)
    BY <1>4 DEF Final
  <2>4. \A i \in DOMAIN tasks : WillEnd(i) => WillEnd(i)'
    BY <1>1, <1>4, <2>3 DEF WillEnd, Ends
  <2> QED
    BY <2>1, <2>2, <2>3, <2>4
<1> HIDE DEF new
<1>6. \A d \in Waiting' : ~Works(d) /\ (Settles(d) \/ d.op = "skip" \/ Opens(d) => d \in Waiting)
  BY <1>1 DEF Follows, Works, Settles, Opens
<1>7. EarlyInv' /\ LateInv'
  BY <1>2, <1>4 DEF EarlyInv, LateInv
<1>8. LoopInv'
  <2>1. \A d \in Waiting' : d.op \notin {"add", "mark"} /\ Touches(d) = {}
    BY <1>6 DEF Works, Touches
  <2>2. \A i \in DOMAIN tasks' :
              /\ i <= last
              /\ i < cur => WillEnd(i)'
              /\ i >= cur => tasks'[i] = "pending"
              /\ i = cur => ~Final(i)'
    <3>1. ASSUME NEW i \in DOMAIN tasks
          PROVE  /\ i <= last
                 /\ i < cur => WillEnd(i)'
                 /\ i >= cur => tasks'[i] = "pending"
                 /\ i = cur => ~Final(i)'
      BY <1>2, <1>3, <1>4, <1>5 DEF TasksInv, LoopInv
    <3>2. \A i \in new : ~(i < cur)
      BY <1>3, <1>5
    <3> QED
      BY <1>4, <1>5, <3>1, <3>2
  <2> QED
    BY <1>3, <1>4, <2>1, <2>2 DEF LoopInv, Touches
<1>9. SettleInv'
  <2>1. ~Settled /\ \A d \in Waiting : ~Settles(d) /\ d.op # "skip"
    BY <1>2 DEF TasksInv, SettleInv
  <2> QED
    BY <1>6, <2>1 DEF SettleInv, Settles, Settled
<1>10. ExecutedInOrder'
  <2> SUFFICES ASSUME NEW i \in DOMAIN tasks', NEW j \in DOMAIN tasks', i < j,
                      tasks'[j] # "pending"
               PROVE  tasks'[i] \in TerminalTaskStatuses
    BY DEF ExecutedInOrder
  <2>1. j \in DOMAIN tasks /\ i \in DOMAIN tasks
    BY <1>3, <1>4, <1>5
  <2> QED
    BY <1>4, <2>1 DEF TasksInv, ExecutedInOrder
<1>11. \A d \in Waiting' : Fits(d)'
  BY <1>6 DEF Fits, Touches, Works
<1> QED
  BY <1>1, <1>7, <1>8, <1>9, <1>10, <1>11 DEF TasksInv

(* What the final tasks' rows hold stays.                                  *)
FinalKept ==
    \A i \in DOMAIN tasks :
        Final(i) => i \in DOMAIN tasks' /\ tasks'[i] = tasks[i] /\ attempts'[i] = attempts[i]

(* Every kind of commit keeps the invariant, and the final tasks.          *)
LEMMA CommittingTasks ==
    ASSUME TypeOK, TasksInv, Committing
    PROVE  TasksInv' /\ FinalKept
<1> DEFINE c == Head(todo)
<1>1. /\ todo # <<>> /\ UNCHANGED <<pc, cur, last>>
      /\ \/ todo' = Tail(todo)
         \/ \E S : todo' = <<EmitSkipped(S)>> \o Tail(todo)
  BY DEF Committing, CommitStatus, CommitFailed, CommitDone, CommitPartialAnswer,
     CommitMark, CommitSkip, CommitDrop, CommitAdd, CommitAttempt, CommitReflection,
     CommitEmit, CommitEmitSkipped, Pending, Performed, local, plan
<1>2. Performs(c) /\ c \in Waiting /\ Fits(c) /\ c \in Commit
  <2>1. Performs(c)
    BY <1>1 DEF Performs
  <2>2. c \in Waiting
    BY <2>1, AfterCommit DEF TasksInv
  <2> QED
    BY <1>1, <2>1, <2>2, HeadOfTodo DEF TasksInv
<1>3. DOMAIN attempts = DOMAIN tasks
  BY DEF TypeOK, RowsOK
<1> HIDE DEF c
<1>4. CASE \/ CommitStatus \/ CommitFailed \/ CommitDone \/ CommitPartialAnswer
           \/ CommitReflection \/ CommitEmit \/ CommitEmitSkipped
  <2>1. UNCHANGED <<tasks, attempts>> /\ c.op \notin {"mark", "drop", "skip", "add"}
    BY <1>4 DEF CommitStatus, CommitFailed, CommitDone, CommitPartialAnswer,
       CommitReflection, CommitEmit, CommitEmitSkipped, Pending, c, durable, rows
  <2>2. Settled' => Settled \/ Settles(c)
    BY <1>4 DEF CommitStatus, CommitFailed, CommitDone, CommitPartialAnswer,
       CommitReflection, CommitEmit, CommitEmitSkipped, Pending, c, durable, rows,
       Settled, Settles
  <2> QED
    BY <1>2, <2>1, <2>2, CommitApart DEF FinalKept
<1>5. CASE CommitAttempt
  <2>1. /\ c.op = "attempt" /\ UNCHANGED <<status, error, tasks>>
        /\ attempts' = [i \in DOMAIN attempts |->
                           IF i = c.index THEN c.number ELSE attempts[i]]
    BY <1>5 DEF CommitAttempt, Pending, c
  <2>2. \A i \in DOMAIN tasks : Final(i) => i # c.index
    BY <1>2, <2>1 DEF Fits, Touches
  <2>3. FinalKept
    BY <1>3, <2>1, <2>2 DEF FinalKept
  <2> QED
    BY <1>2, <2>1, <2>3, CommitApart DEF Settled
<1>6. CASE CommitMark
  <2>1. /\ c.op = "mark" /\ UNCHANGED <<status, error, attempts>>
        /\ tasks' = [i \in DOMAIN tasks |-> IF i = c.index THEN c.status ELSE tasks[i]]
    BY <1>6 DEF CommitMark, Pending, c
  <2>2. Touches(c) = {c.index}
    BY <2>1 DEF Touches
  <2>3. FinalKept
    BY <1>2, <2>1, <2>2 DEF FinalKept, Fits
  <2>4. CASE Opens(c)
    BY <1>2, <2>1, <2>3, <2>4, CommitOpening
  <2>5. CASE ~Opens(c)
    <3>1. c.status \in TerminalTaskStatuses
      BY <2>1, <2>5 DEF Opens
    <3>2. tasks' = [i \in DOMAIN tasks |-> IF i \in Touches(c) THEN c.status ELSE tasks[i]]
      BY <2>1, <2>2
    <3> QED
      BY <1>2, <2>1, <2>3, <2>5, <3>1, <3>2, CommitEnding
  <2> QED
    BY <2>4, <2>5
<1>7. CASE CommitDrop
  <2>1. /\ c.op = "drop" /\ UNCHANGED <<status, error, attempts>>
        /\ tasks' = [i \in DOMAIN tasks |-> IF i \in c.tasks THEN "skipped" ELSE tasks[i]]
    BY <1>7 DEF CommitDrop, Pending, c
  <2>2. Touches(c) = c.tasks /\ ~Opens(c) /\ "skipped" \in TerminalTaskStatuses
    BY <2>1 DEF Touches, Opens, TerminalTaskStatuses
  <2>3. FinalKept
    BY <1>2, <2>1, <2>2 DEF FinalKept, Fits
  <2> QED
    BY <1>2, <2>1, <2>2, <2>3, CommitEnding
<1>8. CASE CommitSkip
  <2>1. /\ c.op = "skip" /\ UNCHANGED <<status, error, attempts>>
        /\ tasks' = [i \in DOMAIN tasks |->
                        IF tasks[i] = "pending" THEN "skipped" ELSE tasks[i]]
    BY <1>8 DEF CommitSkip, Pending, c
  <2>2. FinalKept
    BY <2>1 DEF FinalKept, Final, TerminalTaskStatuses
  <2> QED
    BY <1>2, <2>1, <2>2, CommitSkipping
<1>9. CASE CommitAdd
  <2>1. /\ c.op = "add" /\ UNCHANGED <<status, error>>
        /\ tasks' = WithPlan(tasks, c.start, c.count)
        /\ attempts' = [i \in DOMAIN tasks \cup c.start .. (c.start + c.count - 1) |->
                           IF i \in c.start .. (c.start + c.count - 1)
                           THEN 0 ELSE attempts[i]]
    BY <1>9 DEF CommitAdd, Pending, c
  <2>2. \A i \in DOMAIN tasks : i \notin c.start .. (c.start + c.count - 1)
    BY <1>2, <2>1, CommitFields DEF Fits
  <2>3. FinalKept
    BY <2>1, <2>2 DEF FinalKept, WithPlan
  <2> QED
    BY <1>2, <2>1, <2>3, CommitAdding
<1> QED
  BY <1>4, <1>5, <1>6, <1>7, <1>8, <1>9 DEF Committing

(* So does every step.                                                     *)
LEMMA TasksStep ==
    ASSUME TypeOK, TasksInv, [Next]_vars
    PROVE  TasksInv' /\ FinalKept
<1>1. CASE CreateRun
  <2>1. /\ pc = "none" /\ pc' = "register" /\ status' = "created"
        /\ UNCHANGED <<error, tasks, attempts, cur, last>>
        /\ todo' = <<Emit(Plain("run.created"))>>
    BY <1>1 DEF CreateRun, local, plan
  <2>2. DOMAIN tasks = {} /\ cur = 0 /\ ~Settled
    BY <2>1 DEF TasksInv, EarlyInv, SettleInv, Early, ClosedPoints
  <2>3. Waiting' = {Emit(Plain("run.created"))} /\ Tidy(todo)'
    BY <2>1 DEF Waiting, Tidy
  <2> QED
    BY <2>1, <2>2, <2>3
    DEF TasksInv, EarlyInv, LoopInv, LateInv, SettleInv, Settled, Settles, Opens, Touches,
        Fits, ExecutedInOrder, Emit, Early, AtRest, InFlight, Over, FinalKept
<1>2. CASE CancelRun \/ Ended \/ UNCHANGED vars
  <2>1. UNCHANGED <<status, error, tasks, attempts, pc, todo, cur, last>>
    BY <1>2 DEF CancelRun, Ended, vars, durable, local, plan
  <2> QED
    BY <2>1
    DEF TasksInv, EarlyInv, LoopInv, LateInv, SettleInv, Settled, Settles, Opens, Touches,
        Fits, ExecutedInOrder, Waiting, WillEnd, Ends, Final, AllFinal, AllWillEnd,
        FinalKept, Tidy, Works
<1>3. CASE Planning \/ Executing \/ Judging \/ Answering
  <2>1. UNCHANGED durable
    BY <1>3 DEF Planning, Executing, Judging, Answering, Decide, Register, StartPlanning,
       CheckPlanning, Recall, PlannerReturns, PlannerFails, PlannerExhausts, CheckPlanned,
       StartTask, TasksDone, StartAttempt, ExecutorReturns, ExecutorCancelled,
       ExecutorFails, ExecutorExhausts, CheckExecuted, ReflectorReturns,
       ReflectorExhausts, JudgedCancelled, JudgedAccept, JudgedRetry, JudgedReplan,
       JudgedAbort, ReplanReturns, ReplanFails, ReplanExhausts, ReplyRaises, Accept, PartialReturns,
       PartialFails, PartialExhausts, CheckSynthesis, AnswerReturns, AnswerFails,
       AnswerExhausts, StreamToken, StreamDone, WriteMemory, Cleanup
  <2> QED
    BY <1>3, <2>1, PlanningTasks, ExecutingTasks, JudgingTasks, AnsweringTasks
    DEF durable, FinalKept
<1>4. CASE Committing
  BY <1>4, CommittingTasks
<1> QED
  BY <1>1, <1>2, <1>3, <1>4 DEF Next, Execute

-----------------------------------------------------------------------------
(* The theorems about tasks                                                *)

LEMMA InitTasks == ASSUME Init PROVE TasksInv
<1>1. /\ pc = "none" /\ todo = <<>> /\ DOMAIN tasks = {} /\ cur = 0
      /\ status = "none" /\ error = "none"
  BY DEF Init, NoTasks
<1>2. Waiting = {} /\ Tidy(todo)
  BY <1>1 DEF Waiting, Tidy
<1> QED
  BY <1>1, <1>2
  DEF TasksInv, EarlyInv, LoopInv, LateInv, SettleInv, Settled, ExecutedInOrder, Early,
      AtRest, InFlight, Over

(* In every reachable state the commits that wait fit the tasks they are   *)
(* about to change, and what must be final is, or is about to be.          *)
THEOREM TasksInvariant == Spec => []TasksInv
<1>1. Init => TasksInv
  BY InitTasks
<1> QED
  BY <1>1, TasksStep, TypeInvariant, PTL DEF Spec

(* Tasks are worked through in plan order, through retries, replans, skips *)
(* and teardowns: none leaves pending before every earlier one is final.   *)
THEOREM TasksInOrder == Spec => []ExecutedInOrder
<1>1. TasksInv => ExecutedInOrder
  BY DEF TasksInv
<1> QED
  BY <1>1, TasksInvariant, PTL

(* A run that was completed, cancelled, aborted or stopped by its budget   *)
(* has no open task, from the transaction on that says so in its row.      *)
THEOREM NothingLeftOpen == Spec => []NoOpenTaskLeft
<1>1. TasksInv => NoOpenTaskLeft
  BY DEF TasksInv, SettleInv, Settled, AllFinal, Final, NoOpenTaskLeft
<1> QED
  BY <1>1, TasksInvariant, PTL

(* A final task's row is never written again: not by a replan, which       *)
(* appends after it, nor by the teardown of the run, which skips the rest. *)
THEOREM FinalTasksAreKept == Spec => FinalTasksKept
<1>1. TypeOK /\ TasksInv /\ [Next]_vars
          => [\A i \in DOMAIN tasks :
                  tasks[i] \in TerminalTaskStatuses =>
                      /\ i \in DOMAIN tasks'
                      /\ tasks'[i] = tasks[i]
                      /\ attempts'[i] = attempts[i]]_<<tasks, attempts>>
  BY TasksStep DEF FinalKept, Final
<1> QED
  BY <1>1, TypeInvariant, TasksInvariant, PTL DEF Spec, FinalTasksKept

-----------------------------------------------------------------------------
(* The answer                                                              *)
(*                                                                         *)
(* The partial answer is stored one commit before the run is failed as     *)
(* aborted, the full one with the status.  So the invariant is about what  *)
(* still waits: whoever has a partial answer, or waits for one, waits for  *)
(* that failure and for no other ending, unless it has come; and whoever   *)
(* waits for that failure has, or waits for, a partial answer, unless      *)
(* there are no outputs to make one of.                                    *)

Aborts(c) == c.op = "failed" /\ c.error = "aborted"

Aborted == status = "failed" /\ error = "aborted"

AnswerWaits == \E c \in Waiting : c.op = "answer"
AbortWaits == \E c \in Waiting : Aborts(c)

AnswerInv ==
    /\ answer = "full" <=> status = "done"
    /\ \A c \in Waiting : c.op = "status" => c.status \notin {"done", "failed"}
    /\ answer = "partial" \/ AnswerWaits =>
          /\ pc \in ClosedPoints
          /\ \A c \in Waiting : Writes(c) => c.op = "answer" \/ Aborts(c)
          /\ AbortWaits \/ Aborted
    /\ Aborted \/ AbortWaits =>
          /\ pc \in ClosedPoints
          /\ outputs = {} \/ answer = "partial" \/ AnswerWaits

(* Commits that neither give a partial answer nor abort the run.           *)
Ordinary(c) ==
    /\ c.op # "answer" /\ ~Aborts(c)
    /\ c.op = "status" => c.status \notin {"done", "failed"}

AllOrdinary(s) == \A k \in 1 .. Len(s) : Ordinary(s[k])

(* A decision for nothing else keeps the invariant.                        *)
LEMMA DecideOrdinary ==
    ASSUME AnswerInv, NEW from, NEW to, NEW s, Decide(from, to, s),
           from \notin ClosedPoints, AllOrdinary(s)
    PROVE  AnswerInv'
<1>1. pc = from /\ todo' = s /\ UNCHANGED <<status, answer, error>>
  BY DEF Decide, durable
<1>2. answer # "partial" /\ ~Aborted
  BY <1>1 DEF AnswerInv
<1>3. \A c \in Waiting' : Ordinary(c)
  BY <1>1 DEF AllOrdinary, Waiting
<1> QED
  BY <1>1, <1>2, <1>3 DEF AnswerInv, Ordinary, Aborted, AnswerWaits, AbortWaits, Aborts, Writes

(* So does one, after the run was closed, for an event or nothing.         *)
LEMMA DecideLater ==
    ASSUME AnswerInv, NEW from, NEW to \in ClosedPoints, NEW s, Decide(from, to, s),
           NoWrite(s), outputs' = outputs
    PROVE  AnswerInv'
<1>1. /\ pc = from /\ pc' \in ClosedPoints /\ todo = <<>> /\ todo' = s
      /\ UNCHANGED <<status, answer, error, outputs>>
  BY DEF Decide, durable
<1>2. Waiting = {} /\ \A c \in Waiting' : ~Writes(c)
  BY <1>1 DEF NoWrite, Waiting
<1> QED
  BY <1>1, <1>2 DEF AnswerInv, Aborted, AnswerWaits, AbortWaits, Aborts, Writes

(* The commits that are decided on, but for an abort's, are ordinary.      *)
LEMMA OrdinaryCommits ==
    /\ AllOrdinary(<<>>)
    /\ \A e : AllOrdinary(<<Emit(e)>>)
    /\ \A e, n : AllOrdinary(<<AddTasks(0, n), Emit(e)>>)
    /\ \A e : AllOrdinary(<<SetStatus("planning"), Emit(e)>>)
    /\ AllOrdinary(<<SetStatus("running")>>)
    /\ \A i, t : AllOrdinary(<<MarkTask(i, t)>>)
    /\ \A i, t, e : AllOrdinary(<<MarkTask(i, t), Emit(e)>>)
    /\ \A i, n : AllOrdinary(<<RecordAttempt(i, n)>>)
    /\ \A e : AllOrdinary(<<RecordReflection, Emit(e)>>)
    /\ AllOrdinary(CompleteTask(cur))
    /\ \A S, T, m, n, e :
          AllOrdinary(<<DropTasks(S), EmitSkipped(T), AddTasks(m, n), Emit(e)>>)
<1> USE DEF AllOrdinary, Ordinary, Aborts, Emit, AddTasks, SetStatus, MarkTask,
            RecordAttempt, RecordReflection, CompleteTask, DropTasks, EmitSkipped
<1>1. AllOrdinary(<<>>) /\ AllOrdinary(<<SetStatus("running")>>)
  OBVIOUS
<1>2. \A e : AllOrdinary(<<Emit(e)>>) /\ AllOrdinary(<<RecordReflection, Emit(e)>>)
  OBVIOUS
<1>3. \A e, n : AllOrdinary(<<AddTasks(0, n), Emit(e)>>)
  OBVIOUS
<1>4. \A e : AllOrdinary(<<SetStatus("planning"), Emit(e)>>)
  OBVIOUS
<1>5. \A i, t : AllOrdinary(<<MarkTask(i, t)>>)
  OBVIOUS
<1>6. \A i, t, e : AllOrdinary(<<MarkTask(i, t), Emit(e)>>)
  OBVIOUS
<1>7. \A i, n : AllOrdinary(<<RecordAttempt(i, n)>>)
  OBVIOUS
<1>8. AllOrdinary(CompleteTask(cur))
  OBVIOUS
<1>9. \A S, T, m, n, e :
         AllOrdinary(<<DropTasks(S), EmitSkipped(T), AddTasks(m, n), Emit(e)>>)
  OBVIOUS
<1> HIDE DEF AllOrdinary, Ordinary, Aborts, Emit, AddTasks, SetStatus, MarkTask,
             RecordAttempt, RecordReflection, CompleteTask, DropTasks, EmitSkipped
<1> QED
  BY <1>1, <1>2, <1>3, <1>4, <1>5, <1>6, <1>7, <1>8, <1>9, Zenon

(* So are the finalizers'.                                                 *)
LEMMA OrdinaryFinalizers ==
    /\ \A e \in Errors \ {"aborted"} : AllOrdinary(FinalizeFailed(e))
    /\ AllOrdinary(FinalizeCancelled) /\ AllOrdinary(FinalizeDone)
    /\ \A b \in BOOLEAN : /\ AllOrdinary(FinalizeCancelledRun(b))
                          /\ AllOrdinary(FinalizeBudgetExceeded(b))
    /\ \A e \in Errors \ {"aborted"} : AllOrdinary(FailTask(cur) \o FinalizeFailed(e))
    /\ AllOrdinary(FailTask(cur) \o <<SkipPending>>)
<1> USE DEF AllOrdinary, Ordinary, Aborts, SetStatus, SetFailed, SetDone, MarkTask,
            SkipPending, Emit
<1>1. \A e \in Errors \ {"aborted"} : AllOrdinary(FinalizeFailed(e))
  BY DEF FinalizeFailed
<1>2. AllOrdinary(FinalizeCancelled) /\ AllOrdinary(FinalizeDone)
  BY DEF FinalizeCancelled, FinalizeDone
<1>3. ASSUME NEW s, s = FinalizeCancelledRun(TRUE) PROVE AllOrdinary(s)
  <2>1. /\ Len(s) = 5
        /\ s[1] = MarkTask(cur, "cancelled") /\ s[2].op = "emit"
        /\ s[3] = SkipPending /\ s[4] = SetStatus("cancelled") /\ s[5].op = "emit"
    BY <1>3, CancelledRunSpelled, Zenon
  <2> QED
    BY <2>1
<1>4. ASSUME NEW s, s = FinalizeCancelledRun(FALSE) PROVE AllOrdinary(s)
  <2>1. /\ Len(s) = 3
        /\ s[1] = SkipPending /\ s[2] = SetStatus("cancelled") /\ s[3].op = "emit"
    BY <1>4, CancelledRunSpelled, Zenon
  <2> QED
    BY <2>1
<1>5. ASSUME ~cancel, NEW s, s = FinalizeBudgetExceeded(TRUE) PROVE AllOrdinary(s)
  <2>1. /\ Len(s) = 6
        /\ s[1].op = "emit" /\ s[2] = MarkTask(cur, "failed") /\ s[3].op = "emit"
        /\ s[4] = SkipPending /\ s[5] = SetFailed("budget") /\ s[6].op = "emit"
    BY <1>5, BudgetExceededSpelled, Zenon
  <2> QED
    BY <2>1
<1>6. ASSUME ~cancel, NEW s, s = FinalizeBudgetExceeded(FALSE) PROVE AllOrdinary(s)
  <2>1. /\ Len(s) = 4
        /\ s[1].op = "emit"
        /\ s[2] = SkipPending /\ s[3] = SetFailed("budget") /\ s[4].op = "emit"
    BY <1>6, BudgetExceededSpelled, Zenon
  <2> QED
    BY <2>1
<1>7. ASSUME NEW e \in Errors \ {"aborted"}, NEW s, s = FailTask(cur) \o FinalizeFailed(e)
      PROVE  AllOrdinary(s)
  <2>1. /\ Len(s) = 4
        /\ s[1] = MarkTask(cur, "failed") /\ s[2].op = "emit"
        /\ s[3] = SetFailed(e) /\ s[4].op = "emit"
    BY <1>7, AbortSpelled, Zenon
  <2> QED
    BY <2>1
<1>8. ASSUME NEW s, s = FailTask(cur) \o <<SkipPending>> PROVE AllOrdinary(s)
  <2>1. Len(s) = 3 /\ s[1] = MarkTask(cur, "failed") /\ s[2].op = "emit" /\ s[3] = SkipPending
    BY <1>8, AbortSpelled, Zenon
  <2> QED
    BY <2>1
<1> HIDE DEF AllOrdinary, Ordinary, Aborts, SetStatus, SetFailed, SetDone, MarkTask,
             SkipPending, Emit
<1>9. AllOrdinary(FinalizeCancelledRun(TRUE)) /\ AllOrdinary(FinalizeCancelledRun(FALSE))
  BY <1>3, <1>4
<1>10. AllOrdinary(FinalizeBudgetExceeded(TRUE)) /\ AllOrdinary(FinalizeBudgetExceeded(FALSE))
  <2>1. CASE cancel
    BY <1>9, <2>1 DEF FinalizeBudgetExceeded
  <2>2. CASE ~cancel
    BY <1>5, <1>6, <2>2
  <2> QED
    BY <2>1, <2>2
<1> QED
  BY <1>1, <1>2, <1>7, <1>8, <1>9, <1>10

(* The decisions of planning.                                              *)
LEMMA PlanningAnswer ==
    ASSUME AnswerInv, Planning
    PROVE  AnswerInv'
<1> USE DEF ClosedPoints
<1>1. CASE Register
  BY <1>1, OrdinaryCommits, DecideOrdinary DEF Register
<1>2. CASE Recall
  BY <1>2, OrdinaryCommits, DecideOrdinary DEF Recall
<1>3. CASE PlannerReturns
  <2>1. PICK n, e : Decide("plan", "planned", <<AddTasks(0, n), Emit(e)>>)
    BY <1>3 DEF PlannerReturns
  <2> QED
    BY <2>1, OrdinaryCommits, DecideOrdinary
<1>4. CASE StartPlanning
  BY <1>4, OrdinaryCommits, DecideOrdinary DEF StartPlanning
<1>5. CASE CheckPlanning \/ CheckPlanned
  BY <1>5, OrdinaryCommits, OrdinaryFinalizers, DecideOrdinary DEF CheckPlanning, CheckPlanned
<1>6. CASE PlannerFails \/ PlannerExhausts
  BY <1>6, OrdinaryFinalizers, DecideOrdinary DEF PlannerFails, PlannerExhausts, Errors
<1> QED
  BY <1>1, <1>2, <1>3, <1>4, <1>5, <1>6 DEF Planning

(* The decisions of the task loop.                                         *)
LEMMA ExecutingAnswer ==
    ASSUME AnswerInv, Executing
    PROVE  AnswerInv'
<1> USE DEF ClosedPoints
<1>1. CASE StartTask
  <2>1. CASE cancel
    BY <1>1, <2>1, OrdinaryFinalizers, DecideOrdinary DEF StartTask
  <2>2. CASE ~cancel
    <3>1. PICK e : Decide("task", "execute", <<MarkTask(cur, "running"), Emit(e)>>)
      BY <1>1, <2>2 DEF StartTask
    <3> QED
      BY <3>1, OrdinaryCommits, DecideOrdinary
  <2> QED
    BY <2>1, <2>2
<1>2. CASE TasksDone
  BY <1>2, OrdinaryCommits, DecideOrdinary DEF TasksDone
<1>3. CASE StartAttempt
  BY <1>3, OrdinaryCommits, OrdinaryFinalizers, DecideOrdinary DEF StartAttempt
<1>4. CASE ExecutorReturns \/ ReflectorReturns
  BY <1>4, OrdinaryCommits, DecideOrdinary DEF ExecutorReturns, ReflectorReturns
<1>5. CASE ExecutorCancelled \/ ExecutorExhausts \/ ReflectorExhausts
  BY <1>5, OrdinaryFinalizers, DecideOrdinary
  DEF ExecutorCancelled, ExecutorExhausts, ReflectorExhausts
<1>6. CASE ExecutorFails
  BY <1>6, OrdinaryCommits, OrdinaryFinalizers, DecideOrdinary DEF ExecutorFails, Errors
<1>7. CASE CheckExecuted
  BY <1>7, OrdinaryCommits, OrdinaryFinalizers, DecideOrdinary DEF CheckExecuted, Accept
<1> QED
  BY <1>1, <1>2, <1>3, <1>4, <1>5, <1>6, <1>7 DEF Executing

(* The decisions on a verdict.  An abort without outputs gives no answer.  *)
LEMMA JudgingAnswer ==
    ASSUME AnswerInv, Judging
    PROVE  AnswerInv'
<1> USE DEF ClosedPoints
<1>1. CASE JudgedCancelled \/ ReplanExhausts
  BY <1>1, OrdinaryFinalizers, DecideOrdinary DEF JudgedCancelled, ReplanExhausts
<1>2. CASE JudgedAccept \/ JudgedRetry \/ JudgedReplan
  BY <1>2, OrdinaryCommits, DecideOrdinary DEF JudgedAccept, JudgedRetry, JudgedReplan, Accept
<1>3. CASE JudgedAbort
  <2>1. CASE outputs = {}
    <3>1. PICK s : s = FailTask(cur) \o <<SkipPending>> \o FinalizeFailed("aborted")
      OBVIOUS
    <3>2. /\ pc = "judged" /\ pc' = "finished" /\ todo' = s
          /\ UNCHANGED <<status, answer, error, outputs>>
      BY <1>3, <2>1, <3>1 DEF JudgedAbort, Decide, durable, local, plan
    <3>3. /\ Len(s) = 5
          /\ s[1] = MarkTask(cur, "failed") /\ s[2].op = "emit"
          /\ s[3] = SkipPending /\ s[4] = SetFailed("aborted") /\ s[5].op = "emit"
      BY <3>1, AbortSpelled, Zenon
    <3>4. \A c \in Waiting' : c.op \notin {"status", "answer"}
      BY <3>2, <3>3 DEF Waiting, MarkTask, SkipPending, SetFailed
    <3>5. answer # "partial"
      BY <3>2 DEF AnswerInv
    <3> QED
      BY <2>1, <3>2, <3>4, <3>5 DEF AnswerInv, AnswerWaits, AbortWaits, Aborted
  <2>2. CASE outputs # {}
    BY <1>3, <2>2, OrdinaryFinalizers, DecideOrdinary DEF JudgedAbort
  <2> QED
    BY <2>1, <2>2
<1>4. CASE ReplanReturns
  <2>1. CASE cancel
    BY <1>4, <2>1, OrdinaryFinalizers, DecideOrdinary DEF ReplanReturns
  <2>2. CASE ~cancel
    <3>1. PICK s, n, e :
             /\ s = <<DropTasks(Dropped), EmitSkipped(Dropped), AddTasks(StartIndex, n),
                      Emit(e)>>
             /\ Decide("replan", "task", s)
      BY <1>4, <2>2 DEF ReplanReturns
    <3>2. AllOrdinary(s)
      BY <3>1, OrdinaryCommits, Zenon
    <3> QED
      BY <3>1, <3>2, DecideOrdinary
  <2> QED
    BY <2>1, <2>2
<1>5. CASE ReplanFails
  BY <1>5, OrdinaryFinalizers, DecideOrdinary DEF ReplanFails, Errors
<1>6. CASE ReplyRaises
  BY <1>6, OrdinaryFinalizers, DecideOrdinary DEF ReplyRaises, Parsing, Errors
<1> QED
  BY <1>1, <1>2, <1>3, <1>4, <1>5, <1>6 DEF Judging

(* The decisions on the answer.  The partial one comes with the abort.     *)
LEMMA AnsweringAnswer ==
    ASSUME AnswerInv, Answering
    PROVE  AnswerInv'
<1> USE DEF ClosedPoints
<1>1. CASE PartialReturns
  <2>1. PICK s, e : /\ s = <<SetPartialAnswer, Emit(e)>> \o FinalizeFailed("aborted")
                    /\ Decide("partial", AfterAnswer, s)
    BY <1>1 DEF PartialReturns
  <2>2. /\ pc' \in ClosedPoints /\ todo' = s
        /\ UNCHANGED <<status, answer, error>>
    BY <2>1 DEF Decide, AfterAnswer, durable
  <2>3. /\ Len(s) = 4
        /\ s[1] = SetPartialAnswer /\ s[2].op = "emit"
        /\ s[3] = SetFailed("aborted") /\ s[4].op = "emit"
    BY <2>1, AbortSpelled, Zenon
  <2>4. /\ \A c \in Waiting' : c.op \in {"answer", "emit"} \/ Aborts(c)
        /\ AnswerWaits' /\ AbortWaits'
    BY <2>2, <2>3 DEF Waiting, AnswerWaits, AbortWaits, Aborts, SetPartialAnswer, SetFailed
  <2> QED
    BY <2>2, <2>4 DEF AnswerInv, Aborts, Writes
<1>2. CASE PartialFails \/ AnswerFails
  BY <1>2, OrdinaryFinalizers, DecideOrdinary DEF PartialFails, AnswerFails, Errors
<1>3. CASE PartialExhausts \/ AnswerExhausts
  BY <1>3, OrdinaryFinalizers, DecideOrdinary DEF PartialExhausts, AnswerExhausts
<1>4. CASE CheckSynthesis \/ AnswerReturns \/ StreamToken
  BY <1>4, OrdinaryCommits, OrdinaryFinalizers, DecideOrdinary
  DEF CheckSynthesis, AnswerReturns, StreamToken
<1>5. CASE StreamDone
  BY <1>5, OrdinaryFinalizers, DecideOrdinary DEF StreamDone
<1>6. CASE WriteMemory
  <2>1. \A s \in {<<>>, <<Emit(Plain("memory.written"))>>} : NoWrite(s)
    BY DEF NoWrite, Writes, Emit
  <2> QED
    BY <1>6, <2>1, DecideLater DEF WriteMemory, plan
<1>7. CASE Cleanup
  <2>1. NoWrite(<<>>)
    BY DEF NoWrite
  <2> QED
    BY <1>7, <2>1, DecideLater DEF Cleanup, plan
<1> QED
  BY <1>1, <1>2, <1>3, <1>4, <1>5, <1>6, <1>7 DEF Answering

(* The commits.  Those behind the one that ends the run write nothing.     *)
LEMMA CommittingAnswer ==
    ASSUME TypeOK, TasksInv, OutcomeInv, OutcomeInv', AnswerInv, Committing
    PROVE  AnswerInv'
<1> DEFINE c == Head(todo)
<1>1. /\ todo # <<>> /\ UNCHANGED <<pc, cur, last, outputs>>
      /\ \/ todo' = Tail(todo)
         \/ \E S : todo' = <<EmitSkipped(S)>> \o Tail(todo)
  BY DEF Committing, CommitStatus, CommitFailed, CommitDone, CommitPartialAnswer,
     CommitMark, CommitSkip, CommitDrop, CommitAdd, CommitAttempt, CommitReflection,
     CommitEmit, CommitEmitSkipped, Pending, Performed, local, plan
<1>2. Performs(c)
  BY <1>1 DEF Performs
<1> HIDE DEF c
<1>3. /\ c \in Waiting
      /\ \A d \in Waiting : d = c \/ d \in Waiting'
      /\ \A d \in Waiting' : d.op = "emitSkipped" \/ d \in Waiting
  BY <1>2, AfterCommit DEF TasksInv
<1>4. /\ \A d \in Waiting' : status' \in TerminalRunStatuses => ~Writes(d)
      /\ \A d \in Waiting : status \in TerminalRunStatuses => ~Writes(d)
  BY DEF OutcomeInv, NoWrite, Waiting
<1>5. \A d \in Waiting' : Writes(d) \/ Aborts(d) => d \in Waiting
  BY <1>3 DEF Writes, Aborts
<1> USE DEF AnswerInv, Aborted, AnswerWaits, AbortWaits, Aborts, Writes, TerminalRunStatuses
<1>6. CASE CommitStatus
  <2>1. /\ c.op = "status" /\ status' = c.status /\ UNCHANGED <<answer, error>>
    BY <1>6 DEF CommitStatus, Pending, c
  <2> QED
    BY <1>1, <1>3, <1>4, <1>5, <2>1
<1>7. CASE CommitFailed
  <2>1. /\ c.op = "failed" /\ status' = "failed" /\ error' = c.error /\ answer' = answer
    BY <1>7 DEF CommitFailed, Pending, c
  <2> QED
    BY <1>1, <1>3, <1>4, <1>5, <2>1
<1>8. CASE CommitDone
  <2>1. /\ c.op = "done" /\ status' = "done" /\ answer' = "full" /\ error' = error
    BY <1>8 DEF CommitDone, Pending, c
  <2> QED
    BY <1>1, <1>3, <1>4, <1>5, <2>1
<1>9. CASE CommitPartialAnswer
  <2>1. /\ c.op = "answer" /\ answer' = "partial" /\ UNCHANGED <<status, error>>
    BY <1>9 DEF CommitPartialAnswer, Pending, c
  <2> QED
    BY <1>1, <1>3, <1>4, <1>5, <2>1
<1>10. CASE \/ CommitMark \/ CommitSkip \/ CommitDrop \/ CommitAdd \/ CommitAttempt
            \/ CommitReflection \/ CommitEmit \/ CommitEmitSkipped
  <2>1. ~Writes(c) /\ UNCHANGED <<status, answer, error>>
    BY <1>10 DEF CommitMark, CommitSkip, CommitDrop, CommitAdd, CommitAttempt,
       CommitReflection, CommitEmit, CommitEmitSkipped, Pending, c, durable, rows
  <2> QED
    BY <1>1, <1>3, <1>4, <1>5, <2>1
<1> QED
  BY <1>6, <1>7, <1>8, <1>9, <1>10 DEF Committing

(* Every step keeps the invariant.                                         *)
LEMMA AnswerStep ==
    ASSUME TypeOK, TasksInv, OutcomeInv, OutcomeInv', AnswerInv, [Next]_vars
    PROVE  AnswerInv'
<1>1. CASE CreateRun
  <2>1. /\ pc = "none" /\ status' = "created" /\ todo' = <<Emit(Plain("run.created"))>>
        /\ UNCHANGED <<answer, error, outputs>>
    BY <1>1 DEF CreateRun, local, plan
  <2>2. status # "done" /\ answer # "partial"
    BY <2>1 DEF OutcomeInv, AnswerInv, ClosedPoints, TerminalRunStatuses
  <2>3. \A d \in Waiting' : d.op = "emit"
    BY <2>1 DEF Waiting, Emit
  <2> QED
    BY <2>1, <2>2, <2>3 DEF AnswerInv, Aborted, AnswerWaits, AbortWaits, Aborts
<1>2. CASE CancelRun \/ Ended \/ UNCHANGED vars
  <2>1. UNCHANGED <<status, answer, error, pc, todo, outputs>>
    BY <1>2 DEF CancelRun, Ended, vars, durable, local, plan
  <2> QED
    BY <2>1 DEF AnswerInv, Aborted, AnswerWaits, AbortWaits, Aborts, Writes, Waiting
<1>3. CASE Planning \/ Executing \/ Judging \/ Answering
  BY <1>3, PlanningAnswer, ExecutingAnswer, JudgingAnswer, AnsweringAnswer
<1>4. CASE Committing
  BY <1>4, CommittingAnswer
<1> QED
  BY <1>1, <1>2, <1>3, <1>4 DEF Next, Execute

(* In every reachable state a partial answer and the abort go together.    *)
THEOREM AnswerInvariant == Spec => []AnswerInv
<1>1. Init => AnswerInv
  BY DEF Init, AnswerInv, Aborted, AnswerWaits, AbortWaits, Waiting
<1> QED
  BY <1>1, AnswerStep, TypeInvariant, TasksInvariant, OutcomeSettled, PTL DEF Spec

(* The answer that is stored is the one the outcome allows: the full one   *)
(* with done only, a partial one only for an aborted run, which has it if  *)
(* it had completed tasks, and none else.                                  *)
THEOREM AnswersMatch == Spec => []AnswerMatchesOutcome
<1>1. OutcomeInv /\ AnswerInv => AnswerMatchesOutcome
  <2> SUFFICES ASSUME OutcomeInv, AnswerInv PROVE AnswerMatchesOutcome
    OBVIOUS
  <2>1. status \in TerminalRunStatuses => ~AnswerWaits /\ ~AbortWaits
    BY DEF OutcomeInv, NoWrite, AnswerWaits, AbortWaits, Waiting, Writes, Aborts
  <2> QED
    BY <2>1 DEF AnswerInv, Aborted, AnswerMatchesOutcome, TerminalRunStatuses
<1> QED
  BY <1>1, AnswerInvariant, OutcomeSettled, PTL
=============================================================================
