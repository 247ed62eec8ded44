------------------------------- MODULE Ledger -------------------------------
(***************************************************************************)
(* The vocabulary of one run's event ledger, and the pure fold that reads  *)
(* it: fold_events (recovery/replay.py), the project's canonical reducer.  *)
(*                                                                         *)
(* Payloads are reduced to what the folds read: the index of a task event, *)
(* the index range of a plan event and the tasks it drops, the cause of a  *)
(* failure, and whether an answer is the full one or a partial one.  Event names, statuses and     *)
(* their spelling are the code's.                                          *)
(***************************************************************************)
EXTENDS Naturals

(* RunStatus and TERMINAL_RUN_STATUSES; "paused" is declared in the enum   *)
(* and never assigned, so it is not a value of the model.                  *)
RunStatuses == {"created", "planning", "running", "done", "failed", "cancelled"}
TerminalRunStatuses == {"done", "failed", "cancelled"}

(* TaskStatus, and the statuses the reconciler treats as open.             *)
OpenTaskStatuses == {"pending", "running", "retrying"}
TerminalTaskStatuses == {"done", "failed", "skipped", "cancelled"}
TaskStatuses == OpenTaskStatuses \cup TerminalTaskStatuses

(* An answer is absent, the full synthesis, a graceful abort's partial, or *)
(* (in a fold only) the tokens streamed so far.                            *)
Answers == {"none", "full", "partial"}

(* What RunRow.error says, reduced to its cause.                           *)
Errors == {"none", "planning", "llm", "task", "replan", "aborted", "budget",
           "unexpected", "interrupted"}

(* The task.* events and the status each implies (_TASK_EVENT_STATUS).     *)
TaskEventTypes == {"task.started", "task.completed", "task.failed",
                   "task.retrying", "task.skipped", "task.cancelled"}

TaskEventStatus(type) ==
    CASE type = "task.started"   -> "running"
      [] type = "task.completed" -> "done"
      [] type = "task.failed"    -> "failed"
      [] type = "task.retrying"  -> "retrying"
      [] type = "task.skipped"   -> "skipped"
      [] type = "task.cancelled" -> "cancelled"

(* Events that no fold of status, answer, error or checklist reads.        *)
SilentEventTypes == {"task.reflected", "budget.exceeded",
                     "memory.recalled", "memory.written"}

PlainEventTypes ==
    {"run.created", "run.started", "run.completed", "run.cancelled",
     "answer.token"} \cup SilentEventTypes

Event ==
         [type : PlainEventTypes]
    \cup [type : {"run.failed"}, error : Errors]
    \cup [type : {"answer.completed"}, text : Answers]
    \cup [type : TaskEventTypes, index : Nat]
    \cup [type : {"plan.created"}, start : Nat, count : Nat]
    \cup [type : {"plan.replanned"}, dropped : SUBSET Nat, start : Nat, count : Nat]

-----------------------------------------------------------------------------
(* Partial functions from task indices to statuses.                        *)

IsChecklist(f) ==
    /\ f = [i \in DOMAIN f |-> f[i]]
    /\ \A i \in DOMAIN f : i \in Nat /\ f[i] \in TaskStatuses

NoTasks == [i \in {} |-> "pending"]

(* f with the tasks start .. start+count-1 present and pending.            *)
WithPlan(f, start, count) ==
    [i \in DOMAIN f \cup start .. (start + count - 1) |->
        IF i \in start .. (start + count - 1) THEN "pending" ELSE f[i]]

(* f with task i, known before or not, in status s.                        *)
WithTask(f, i, s) ==
    [j \in DOMAIN f \cup {i} |-> IF j = i THEN s ELSE f[j]]

-----------------------------------------------------------------------------
(* fold_events: ReplayState and one step of the canonical reducer.  tokens *)
(* counts answer_tokens up to "some": the fold only asks whether there are *)
(* any.                                                                    *)

ReplayState0 ==
    [status |-> "created", terminal |-> FALSE, tasks |-> NoTasks,
     answer |-> "none", tokens |-> FALSE, error |-> "none"]

IsReplayState(v) ==
    /\ v = [status |-> v.status, terminal |-> v.terminal, tasks |-> v.tasks,
            answer |-> v.answer, tokens |-> v.tokens, error |-> v.error]
    /\ v.status \in RunStatuses
    /\ v.terminal \in BOOLEAN
    /\ IsChecklist(v.tasks)
    /\ v.answer \in Answers
    /\ v.tokens \in BOOLEAN
    /\ v.error \in Errors

FoldStep(v, e) ==
    CASE e.type = "run.created" -> [v EXCEPT !.status = "created"]
      [] e.type = "run.started" -> [v EXCEPT !.status = "running"]
      [] e.type = "run.completed" ->
            [v EXCEPT !.status = "done", !.terminal = TRUE]
      [] e.type = "run.cancelled" ->
            [v EXCEPT !.status = "cancelled", !.terminal = TRUE]
      [] e.type = "run.failed" ->
            [v EXCEPT !.status = "failed", !.terminal = TRUE, !.error = e.error]
      [] e.type \in {"plan.created", "plan.replanned"} ->
            [v EXCEPT !.tasks = WithPlan(@, e.start, e.count)]
      [] e.type \in TaskEventTypes ->
            [v EXCEPT !.tasks = WithTask(@, e.index, TaskEventStatus(e.type))]
      [] e.type = "answer.token" -> [v EXCEPT !.tokens = TRUE]
      [] e.type = "answer.completed" -> [v EXCEPT !.answer = e.text]
      [] OTHER -> v

(* The answer fold_events returns: without an answer.completed, whatever   *)
(* tokens were streamed.                                                   *)
FoldAnswer(v) ==
    IF v.answer = "none" /\ v.tokens THEN "tokens" ELSE v.answer
=============================================================================
