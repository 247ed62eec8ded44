----------------------------- MODULE BrowserView -----------------------------
(***************************************************************************)
(* What a browser makes of a run: the second reducer of the project,       *)
(* reduceEvent (frontend/lib/runReducer.ts), which folds the events on the *)
(* live page and in the history replay, beside the run that emits them.    *)
(* The first one, fold_events, is FoldStep of Ledger and feeds view.       *)
(*                                                                         *)
(* page is the fold of the events appended so far, so a state of this      *)
(* module is a run together with a page that has received all of its       *)
(* events, and every prefix of the ledger, where the replay's cursor can   *)
(* stand, is the page of an earlier state.  Delivery is in EventStream.    *)
(***************************************************************************)
EXTENDS RunManager

VARIABLE page       \* RunDerived, reduced to what the backend decides

pageVars == <<vars, page>>

(* INITIAL_DERIVED.  attempt is 0 where the checklist shows none; answer   *)
(* is "tokens" as long as it is pieced together from answer.token events.  *)
InitialDerived ==
    [status |-> "created", tasks |-> NoTasks, attempt |-> [i \in {} |-> 0],
     answer |-> "none", error |-> "none", partial |-> FALSE]

(* patchTask: a task the checklist does not have is not added.             *)
PatchTask(p, i, s) ==
    [p EXCEPT !.tasks = [j \in DOMAIN @ |-> IF j = i THEN s ELSE @[j]]]

PatchAttempt(p, i, n) ==
    [p EXCEPT !.attempt = [j \in DOMAIN @ |-> IF j = i THEN n ELSE @[j]]]

(* A list of pending tasks start .. start+count-1, beside the ones kept.   *)
Listed(kept, e) ==
    [i \in DOMAIN kept \cup e.start .. (e.start + e.count - 1) |->
        IF i \in DOMAIN kept THEN kept[i] ELSE "pending"]

(* applyReplan: the dropped tasks are skipped, the new ones follow.        *)
ApplyReplan_Restarts(kept, e) == Listed(NoTasks, e)

ApplyReplan(kept, e) ==
    Listed([i \in DOMAIN kept |-> IF i \in e.dropped THEN "skipped" ELSE kept[i]], e)

WithTasks(p, list) ==
    [p EXCEPT !.tasks = list,
              !.attempt = [i \in DOMAIN list |-> IF i \in DOMAIN @ THEN @[i] ELSE 0]]

(* reduceEvent; n is the attempt number a task event carries.              *)
ReduceEvent(p, e, n) ==
    CASE e.type = "run.started"   -> [p EXCEPT !.status = "planning"]
      [] e.type = "plan.created"  -> WithTasks([p EXCEPT !.attempt = <<>>], Listed(NoTasks, e))
      [] e.type = "plan.replanned" -> WithTasks(p, ApplyReplan(p.tasks, e))
      [] e.type = "task.started" ->
            PatchAttempt(PatchTask([p EXCEPT !.status = "running"], e.index, "running"),
                         e.index, n)
      [] e.type \in {"task.completed", "task.retrying"} ->
            PatchAttempt(PatchTask(p, e.index, TaskEventStatus(e.type)), e.index, n)
      [] e.type \in {"task.failed", "task.skipped", "task.cancelled"} ->
            PatchTask(p, e.index, TaskEventStatus(e.type))
      [] e.type = "answer.token"     -> [p EXCEPT !.answer = "tokens"]
      [] e.type = "answer.completed" -> [p EXCEPT !.answer = e.text]
      [] e.type = "run.completed" -> [p EXCEPT !.status = "done"]
      [] e.type = "run.cancelled" -> [p EXCEPT !.status = "cancelled"]
      [] e.type = "run.failed" ->
            [p EXCEPT !.status = "failed", !.error = e.error,
                      !.partial = p.answer # "none"]
      [] OTHER -> p

-----------------------------------------------------------------------------
PageInit == Init /\ page = InitialDerived

(* The event whose append is the commit about to be performed.             *)
EventDue ==
    IF Head(todo).op = "emit"
    THEN Head(todo).event
    ELSE TaskEvent("task.skipped", CHOOSE i \in Head(todo).tasks :
                                       \A j \in Head(todo).tasks : i <= j)

Appending == Pending("emit") \/ Pending("emitSkipped")

(* An append, the step that takes an event from todo, is folded as it      *)
(* happens; every other step leaves the page.                              *)
PageNext ==
    /\ Next
    /\ page' = IF Appending /\ todo' # todo
               THEN ReduceEvent(page, EventDue, attempt)
               ELSE page

PageFairSpec == PageInit /\ [][PageNext]_pageVars /\ WF_vars(Execute)

-----------------------------------------------------------------------------
(* What the history shows with its cursor at the end (RunReplay): status   *)
(* and answer of the row before those of the fold.                         *)
ReplayStatus == status
ReplayAnswer == IF answer # "none" THEN answer ELSE page.answer

(* The two reducers agree on every prefix of every ledger a run can write: *)
(* the checklist, the outcome, the error and the answer.  They differ only *)
(* in what they call a run between its start and its end.                  *)
FoldsAgree ==
    /\ page.tasks = view.tasks
    /\ page.answer = FoldAnswer(view)
    /\ page.error = view.error
    /\ view.terminal => page.status = view.status
    /\ ~view.terminal => page.status \notin TerminalRunStatuses

(* Whenever the run has nothing left to commit, the page shows its rows:   *)
(* the checklist (a second attempt is still shown as retrying), the number *)
(* of attempts a completed task took, and the status, which turns running  *)
(* with the first task only.                                               *)
ShowsRows ==
    /\ DOMAIN page.tasks = DOMAIN tasks
    /\ \A i \in DOMAIN tasks :
           /\ \/ page.tasks[i] = tasks[i]
              \/ page.tasks[i] = "retrying" /\ tasks[i] = "running"
           /\ tasks[i] = "done" => page.attempt[i] = attempts[i]
    /\ \/ page.status = status
       \/ page.status = "created" /\ status = "none"
       \/ page.status = "planning" /\ status = "running"

(* A finished run is shown with its outcome: its answer is marked partial  *)
(* exactly if the row has a partial one, and the replay, which puts the    *)
(* row before the fold, ends on what the live page ended on.               *)
ShowsOutcome ==
    /\ page.partial <=> answer = "partial"
    /\ page.error = error
    /\ page.status = ReplayStatus
    /\ page.answer = ReplayAnswer

PageTellsRun ==
    todo = <<>> => ShowsRows /\ (pc = "ended" => ShowsOutcome)
=============================================================================
