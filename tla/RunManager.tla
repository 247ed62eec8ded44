----------------------------- MODULE RunManager -----------------------------
(***************************************************************************)
(* One run of ATLAS, as runtime/manager.py orchestrates it.                *)
(*                                                                         *)
(* The code alternates between decisions (a cancel check, the outcome of a *)
(* model call, a verdict) and short fixed sequences of durable commits:    *)
(* database transactions and ledger appends, each awaited on its own.  The *)
(* model keeps that shape.  A decision is taken at a control point pc with *)
(* nothing left to commit, and leaves in todo the commits it has decided   *)
(* on; each of them is then a step of its own, so a cancel request, a      *)
(* reader or a crash can come between any two.  Cancellation is consulted  *)
(* at decisions only, exactly where the code reads cancel.is_set().        *)
(*                                                                         *)
(* A component call (planner, executor, reflector, synthesizer) is one     *)
(* step, at its return: it spends some model and tool calls of the budget  *)
(* and yields one of the outcomes its code allows.  Everything up to the   *)
(* previous commit happened before the call, so requests that arrive while *)
(* the call is out are interleaved in front of it.                         *)
(***************************************************************************)
EXTENDS Naturals, Sequences, Ledger, Budget

CONSTANTS
    MaxTasks,       \* agent_max_tasks: cap on a plan's length
    MaxRetries,     \* agent_max_retries: retries of one task
    MaxReplans,     \* agent_max_replans: replans of one run
    PlannerCalls,   \* longest planner or reflector turn: 1 + repair attempts
    ExecutorCalls,  \* longest executor turn: iterations * (1 + repairs)
    ExecutorTools,  \* most tool calls in one executor turn: iterations
    MaxTokens,      \* words of the longest answer
    Reflection,     \* agent_enable_reflection
    ForceSynthesis, \* agent_force_synthesis
    MemoryEnabled   \* memory_enabled

ASSUME LimitsAssumption ==
    /\ MaxTasks \in Nat \ {0}
    /\ MaxRetries \in Nat
    /\ MaxReplans \in Nat
    /\ PlannerCalls \in Nat \ {0}
    /\ ExecutorCalls \in Nat \ {0}
    /\ ExecutorTools \in Nat \ {0}
    /\ MaxTokens \in Nat \ {0}

ASSUME SwitchesAssumption ==
    /\ Reflection \in BOOLEAN
    /\ ForceSynthesis \in BOOLEAN
    /\ MemoryEnabled \in BOOLEAN

VARIABLES
    \* The run's row and its task rows (durable).
    status,         \* RunRow.status; "none" before the row exists
    answer,         \* RunRow.answer
    error,          \* RunRow.error, reduced to its cause
    tasks,          \* TaskRow.status, by task index
    attempts,       \* TaskRow.attempt_count, by task index
    \* The ledger (durable), as the canonical fold of what was appended.
    view,
    \* The asyncio task that executes the run.
    pc,             \* control point
    todo,           \* commits decided on and not performed yet
    registered,     \* the run has an entry in RunManager._cancels
    cancel,         \* its cancel event is set
    cur, last,      \* pending tasks of the current generation: cur .. last
    outputs,        \* indices in the list of completed outputs
    attempt,        \* attempt number of the current task
    output,         \* the executor's output: "good", or empty / "ERROR: ..."
    verdict,        \* the reflector's decision
    tokens,         \* words of the answer still to stream
    \* Its RunBudget, beside the calls that Budget counts.
    replansUsed,
    retries         \* _retries: retries used, by task index

outcome == <<status, answer, error>>
rows    == <<status, answer, error, tasks, attempts>>
durable == <<status, answer, error, tasks, attempts, view>>
plan    == <<cur, last, outputs>>
turn    == <<attempt, output, verdict>>
budget  == <<modelCalls, toolCalls, replansUsed, retries>>
handle  == <<registered, cancel>>
local   == <<handle, plan, turn, tokens, budget>>
vars    == <<durable, pc, todo, local>>

ControlPoints ==
    {"none", "register", "start", "planning", "recall", "plan", "planned",
     "task", "execute", "executed", "reflect", "judged", "retry", "replan",
     "partial", "synthesize", "answer", "stream", "memory",
     "finished", "handled", "ended"}

Verdicts == {"accept", "retry", "replan", "abort"}

-----------------------------------------------------------------------------
(* The commits: one per repository transaction the manager runs, and one   *)
(* per ledger append.                                                      *)

SetStatus(s)      == [op |-> "status", status |-> s]
SetFailed(e)      == [op |-> "failed", error |-> e]     \* error and status
SetDone           == [op |-> "done"]                    \* answer and status
SetPartialAnswer  == [op |-> "answer"]
MarkTask(i, s)    == [op |-> "mark", index |-> i, status |-> s]
SkipPending       == [op |-> "skip"]                    \* every pending task
DropTasks(S)      == [op |-> "drop", tasks |-> S]       \* bulk_skip
AddTasks(s, n)    == [op |-> "add", start |-> s, count |-> n]
RecordAttempt(i, n)  == [op |-> "attempt", index |-> i, number |-> n]
RecordReflection  == [op |-> "reflection"]
Emit(e)           == [op |-> "emit", event |-> e]
EmitSkipped(S)    == [op |-> "emitSkipped", tasks |-> S] \* one per task of S

Commit ==
         [op : {"status"}, status : RunStatuses]
    \cup [op : {"failed"}, error : Errors]
    \cup [op : {"done", "answer", "skip", "reflection"}]
    \cup [op : {"mark"}, index : Nat, status : TaskStatuses]
    \cup [op : {"drop", "emitSkipped"}, tasks : SUBSET Nat]
    \cup [op : {"add"}, start : Nat, count : Nat]
    \cup [op : {"attempt"}, index : Nat, number : Nat]
    \cup [op : {"emit"}, event : Event]

Plain(type)         == [type |-> type]
TaskEvent(type, i)  == [type |-> type, index |-> i]
PlanEvent(s, n)     == [type |-> "plan.created", start |-> s, count |-> n]
ReplanEvent(S, s, n) ==
    [type |-> "plan.replanned", dropped |-> S, start |-> s, count |-> n]

(* The helpers of manager.py that only commit: what each performs, in the  *)
(* order of its awaits.  A definition named X_Y, here and below, is X with *)
(* a slip Y in it; nothing uses it, it shows what the properties catch.    *)

FailTask_Unannounced(i) == <<MarkTask(i, "failed")>>

FailTask(i) ==
    <<MarkTask(i, "failed"), Emit(TaskEvent("task.failed", i))>>

CancelTask(i) ==
    <<MarkTask(i, "cancelled"), Emit(TaskEvent("task.cancelled", i))>>

CompleteTask_EventFirst(i) ==
    <<Emit(TaskEvent("task.completed", i)), MarkTask(i, "done")>>

CompleteTask(i) ==
    <<MarkTask(i, "done"), Emit(TaskEvent("task.completed", i))>>

FinalizeFailed_EventFirst(e) ==
    <<Emit([type |-> "run.failed", error |-> e]), SetFailed(e)>>

FinalizeFailed(e) ==
    <<SetFailed(e), Emit([type |-> "run.failed", error |-> e])>>

FinalizeCancelled ==
    <<SetStatus("cancelled"), Emit(Plain("run.cancelled"))>>

FinalizeDone ==
    <<SetDone, Emit([type |-> "answer.completed", text |-> "full"]),
      Emit(Plain("run.completed"))>>

(* Cancel the in-flight task if there is one, skip the rest, cancel the run. *)
FinalizeCancelledRun(inFlight) ==
    (IF inFlight THEN CancelTask(cur) ELSE <<>>)
        \o <<SkipPending>> \o FinalizeCancelled

(* A cancellation observed by now takes precedence over the budget.        *)
FinalizeBudgetExceeded_KeepsPending(inFlight) ==
    IF cancel
    THEN FinalizeCancelledRun(inFlight)
    ELSE <<Emit(Plain("budget.exceeded"))>>
            \o (IF inFlight THEN FailTask(cur) ELSE <<>>) \o FinalizeFailed("budget")

FinalizeBudgetExceeded(inFlight) ==
    IF cancel
    THEN FinalizeCancelledRun(inFlight)
    ELSE <<Emit(Plain("budget.exceeded"))>>
            \o (IF inFlight THEN FailTask(cur) ELSE <<>>)
            \o <<SkipPending>> \o FinalizeFailed("budget")

-----------------------------------------------------------------------------
(* RunBudget: the retries and replans, which gate decisions.               *)

RetriesUsed(i) == IF i \in DOMAIN retries THEN retries[i] ELSE 0

RetriesLeft(i) == RetriesUsed(i) < MaxRetries

ReplansLeft_OneMore == replansUsed <= MaxReplans
ReplansLeft == replansUsed < MaxReplans

ChargeRetry(i) ==
    retries' = [j \in DOMAIN retries \cup {i} |->
                    IF j = i THEN RetriesUsed(i) + 1 ELSE retries[j]]

-----------------------------------------------------------------------------
Init ==
    /\ status = "none" /\ answer = "none" /\ error = "none"
    /\ tasks = NoTasks
    /\ attempts = [i \in {} |-> 0]
    /\ view = ReplayState0
    /\ pc = "none"
    /\ todo = <<>>
    /\ registered = FALSE /\ cancel = FALSE
    /\ cur = 0 /\ last = 0
    /\ outputs = {}
    /\ attempt = 1 /\ output = "good" /\ verdict = "accept"
    /\ tokens = 0
    /\ modelCalls = 0 /\ toolCalls = 0 /\ replansUsed = 0
    /\ retries = [i \in {} |-> 0]

(* A decision taken at control point from with nothing left to commit,     *)
(* going on to control point to and leaving commits to be performed.       *)
Decide(from, to, commits) ==
    /\ pc = from
    /\ todo = <<>>
    /\ pc' = to
    /\ todo' = commits
    /\ UNCHANGED durable

-----------------------------------------------------------------------------
(* Public API: create_run, cancel_run (and shutdown, which cancels every   *)
(* run).  A cancel request before the run is registered, or after its      *)
(* cleanup, finds no event to set and changes nothing.                     *)

CreateRun ==
    /\ pc = "none"
    /\ pc' = "register"
    /\ status' = "created"
    /\ todo' = <<Emit(Plain("run.created"))>>
    /\ UNCHANGED <<answer, error, tasks, attempts, view, local>>

Register ==
    /\ Decide("register", "start", <<>>)
    /\ registered' = TRUE
    /\ UNCHANGED <<cancel, plan, turn, tokens, budget>>

CancelRun ==
    /\ registered
    /\ cancel' = TRUE
    /\ UNCHANGED <<durable, pc, todo, registered, plan, turn, tokens, budget>>

-----------------------------------------------------------------------------
(* _plan                                                                   *)

StartPlanning ==
    /\ Decide("start", "planning",
              <<SetStatus("planning"), Emit(Plain("run.started"))>>)
    /\ UNCHANGED local

CheckPlanning ==
    /\ \/ /\ cancel
          /\ Decide("planning", "finished", FinalizeCancelled)
       \/ /\ ~cancel
          /\ Decide("planning", IF MemoryEnabled THEN "recall" ELSE "plan", <<>>)
    /\ UNCHANGED local

(* Recall is best-effort: it may find nothing, or fail, and emit nothing.  *)
Recall ==
    /\ \E commits \in {<<>>, <<Emit(Plain("memory.recalled"))>>} :
           Decide("recall", "plan", commits)
    /\ UNCHANGED local

PlannerReturns ==
    /\ \E n \in 1 .. MaxTasks :
           /\ Decide("plan", "planned",
                     <<AddTasks(0, n), Emit(PlanEvent(0, n))>>)
           /\ last' = n - 1
    /\ SpendSome(PlannerCalls, 0)
    /\ UNCHANGED <<handle, cur, outputs, turn, tokens, replansUsed, retries>>

(* PlannerError or LLMError, handled by _execute.                          *)
PlannerFails ==
    /\ \E e \in {"planning", "llm"} :
           Decide("plan", "handled", FinalizeFailed(e))
    /\ SpendSome(PlannerCalls, 0)
    /\ UNCHANGED <<handle, plan, turn, tokens, replansUsed, retries>>

PlannerExhausts ==
    /\ Decide("plan", "handled", FinalizeBudgetExceeded(FALSE))
    /\ Exhaust(PlannerCalls, 0)
    /\ UNCHANGED <<handle, plan, turn, tokens, replansUsed, retries>>

CheckPlanned ==
    /\ \/ /\ cancel
          /\ Decide("planned", "finished", FinalizeCancelledRun(FALSE))
       \/ /\ ~cancel
          /\ Decide("planned", "task", <<SetStatus("running")>>)
    /\ UNCHANGED local

-----------------------------------------------------------------------------
(* _run_tasks and _run_task                                                *)

(* The next pending task starts its first attempt.  The second cancel      *)
(* check, at the head of the attempt loop, follows the first without an    *)
(* await in between.                                                       *)
StartTask ==
    /\ cur <= last
    /\ \/ /\ cancel
          /\ Decide("task", "finished", FinalizeCancelledRun(FALSE))
          /\ UNCHANGED turn
       \/ /\ ~cancel
          /\ Decide("task", "execute",
                    <<MarkTask(cur, "running"), Emit(TaskEvent("task.started", cur))>>)
          /\ attempt' = 1
          /\ UNCHANGED <<output, verdict>>
    /\ UNCHANGED <<handle, plan, tokens, budget>>

TasksDone ==
    /\ cur > last
    /\ Decide("task", "synthesize", <<>>)
    /\ UNCHANGED local

(* A further attempt; only the first one emits task.started.               *)
StartAttempt ==
    /\ \/ /\ cancel
          /\ Decide("retry", "finished", FinalizeCancelledRun(TRUE))
       \/ /\ ~cancel
          /\ Decide("retry", "execute", <<MarkTask(cur, "running")>>)
    /\ UNCHANGED local

ExecutorReturns ==
    /\ Decide("execute", "executed", <<RecordAttempt(cur, attempt)>>)
    /\ output' \in {"good", "bad"}
    /\ SpendSome(ExecutorCalls, ExecutorTools)
    /\ UNCHANGED <<handle, plan, attempt, verdict, tokens, replansUsed, retries>>

(* The executor checks cancel before every iteration.                      *)
ExecutorCancelled ==
    /\ cancel
    /\ Decide("execute", "finished", FinalizeCancelledRun(TRUE))
    /\ Spend(ExecutorCalls, ExecutorTools)
    /\ UNCHANGED <<handle, plan, turn, tokens, replansUsed, retries>>

(* ExecutorError or LLMError.  With reflection on it is an attempt whose   *)
(* output is "ERROR: ..."; without, it fails the task and the run.         *)
ExecutorFails ==
    /\ \/ /\ cancel
          /\ Decide("execute", "finished", FinalizeCancelledRun(TRUE))
          /\ UNCHANGED output
       \/ /\ ~cancel /\ ~Reflection
          /\ Decide("execute", "finished",
                    FailTask(cur) \o FinalizeFailed("task"))
          /\ UNCHANGED output
       \/ /\ ~cancel /\ Reflection
          /\ Decide("execute", "executed", <<RecordAttempt(cur, attempt)>>)
          /\ output' = "bad"
    /\ SpendSome(ExecutorCalls, ExecutorTools)
    /\ UNCHANGED <<handle, plan, attempt, verdict, tokens, replansUsed, retries>>

ExecutorExhausts ==
    /\ Decide("execute", "finished", FinalizeBudgetExceeded(TRUE))
    /\ Exhaust(ExecutorCalls, ExecutorTools)
    /\ UNCHANGED <<handle, plan, turn, tokens, replansUsed, retries>>

(* The task is accepted: its row, its event, its output for later tasks.   *)
Accept(from) ==
    /\ Decide(from, "task", CompleteTask(cur))
    /\ cur' = cur + 1
    /\ outputs' = outputs \cup {cur}
    /\ UNCHANGED last

(* After the attempt is recorded: honour a cancellation, then reflect; or, *)
(* with reflection off, accept at once.                                    *)
CheckExecuted ==
    /\ \/ /\ cancel
          /\ Decide("executed", "finished", FinalizeCancelledRun(TRUE))
          /\ UNCHANGED plan
       \/ /\ ~cancel /\ Reflection
          /\ Decide("executed", "reflect", <<>>)
          /\ UNCHANGED plan
       \/ /\ ~cancel /\ ~Reflection
          /\ Accept("executed")
    /\ UNCHANGED <<handle, turn, tokens, budget>>

(* Judged: record the verdict and publish it.  The pre-check turns an      *)
(* empty or error output into a retry without a model call; a failed or    *)
(* unparseable reflection, or an under-confident retry or replan, accepts. *)
ReflectorReturns ==
    /\ Decide("reflect", "judged",
              <<RecordReflection, Emit(Plain("task.reflected"))>>)
    /\ \/ /\ output = "bad"
          /\ verdict' = "retry"
          /\ UNCHANGED calls
       \/ /\ output = "good"
          /\ verdict' \in Verdicts
          /\ SpendSome(PlannerCalls, 0)
    /\ UNCHANGED <<handle, plan, attempt, output, tokens, replansUsed, retries>>

ReflectorExhausts ==
    /\ output = "good"
    /\ Decide("reflect", "finished", FinalizeBudgetExceeded(TRUE))
    /\ Exhaust(PlannerCalls, 0)
    /\ UNCHANGED <<handle, plan, turn, tokens, replansUsed, retries>>

-----------------------------------------------------------------------------
(* Acting on the verdict: accept, retry, or escalate                       *)

JudgedCancelled ==
    /\ cancel
    /\ Decide("judged", "finished", FinalizeCancelledRun(TRUE))
    /\ UNCHANGED local

JudgedAccept ==
    /\ ~cancel
    /\ verdict = "accept"
    /\ Accept("judged")
    /\ UNCHANGED <<handle, turn, tokens, budget>>

JudgedRetry ==
    /\ ~cancel
    /\ verdict = "retry"
    /\ RetriesLeft(cur)
    /\ Decide("judged", "retry",
              <<MarkTask(cur, "retrying"), Emit(TaskEvent("task.retrying", cur))>>)
    /\ ChargeRetry(cur)
    /\ attempt' = attempt + 1
    /\ UNCHANGED <<handle, plan, output, verdict, tokens, calls, replansUsed>>

(* The verdict asks for more than this task's retries can give.            *)
Escalates ==
    \/ verdict = "retry" /\ ~RetriesLeft(cur)
    \/ verdict \in {"replan", "abort"}

(* _escalate raises _Replan and _do_replan charges it, without an await.   *)
JudgedReplan ==
    /\ ~cancel
    /\ Escalates
    /\ verdict # "abort"
    /\ ReplansLeft
    /\ Decide("judged", "replan", <<>>)
    /\ replansUsed' = replansUsed + 1
    /\ UNCHANGED <<handle, plan, turn, tokens, calls, retries>>

(* _graceful_abort, up to the synthesis of the partial answer.             *)
JudgedAbort_JudgesAgain ==
    /\ ~cancel
    /\ Escalates
    /\ verdict = "abort" \/ ~ReplansLeft
    /\ Decide("judged", "reflect", <<>>)
    /\ UNCHANGED local

JudgedAbort ==
    /\ ~cancel
    /\ Escalates
    /\ verdict = "abort" \/ ~ReplansLeft
    /\ \/ /\ outputs = {}
          /\ Decide("judged", "finished",
                    FailTask(cur) \o <<SkipPending>> \o FinalizeFailed("aborted"))
       \/ /\ outputs # {}
          /\ Decide("judged", "partial", FailTask(cur) \o <<SkipPending>>)
    /\ UNCHANGED local

-----------------------------------------------------------------------------
(* _do_replan                                                              *)

(* The obsolete tasks: the triggering one and everything after it.         *)
Dropped_AfterTrigger == (cur + 1) .. last
Dropped == cur .. last

(* remaining[-1].index + 1                                                 *)
StartIndex_Reused == last
StartIndex == last + 1

(* The planner returned.  A cancellation wins; otherwise the triggering    *)
(* task and all after it are dropped and a new generation is appended.     *)
ReplanReturns ==
    /\ \/ /\ cancel
          /\ Decide("replan", "finished", FinalizeCancelledRun(TRUE))
          /\ UNCHANGED plan
       \/ /\ ~cancel
          /\ \E n \in 1 .. MaxTasks :
                /\ Decide("replan", "task",
                          <<DropTasks(Dropped), EmitSkipped(Dropped),
                            AddTasks(StartIndex, n),
                            Emit(ReplanEvent(Dropped, StartIndex, n))>>)
                /\ last' = StartIndex + n - 1
          /\ cur' = StartIndex
          /\ UNCHANGED outputs
    /\ SpendSome(PlannerCalls, 0)
    /\ UNCHANGED <<handle, turn, tokens, replansUsed, retries>>

(* PlannerError or LLMError: the triggering task fails, and the run.       *)
ReplanFails ==
    /\ Decide("replan", "finished", FailTask(cur) \o FinalizeFailed("replan"))
    /\ SpendSome(PlannerCalls, 0)
    /\ UNCHANGED <<handle, plan, turn, tokens, replansUsed, retries>>

ReplanExhausts ==
    /\ Decide("replan", "finished", FinalizeBudgetExceeded(TRUE))
    /\ Exhaust(PlannerCalls, 0)
    /\ UNCHANGED <<handle, plan, turn, tokens, replansUsed, retries>>

-----------------------------------------------------------------------------
(* Parsing a reply may raise what neither the component nor anything above *)
(* it expects (ComponentCall's Raises): the last except clause of _execute *)
(* fails the run and leaves its tasks as they stand, the one in flight     *)
(* included.  The pre-check of a bad output asks nobody.                   *)
Parsing == {"plan", "execute", "reflect", "replan"}

ReplyRaises ==
    /\ \E from \in Parsing :
           /\ from = "reflect" => output = "good"
           /\ Decide(from, "handled", FinalizeFailed("unexpected"))
    /\ IF pc = "execute"
       THEN SpendSome(ExecutorCalls, ExecutorTools)
       ELSE SpendSome(PlannerCalls, 0)
    /\ UNCHANGED <<handle, plan, turn, tokens, replansUsed, retries>>

-----------------------------------------------------------------------------
(* Synthesis.  A single output is relayed without a model call.            *)

NeedsSynthesis ==
    ForceSynthesis \/ \E i, j \in outputs : i # j

Synthesizes ==
    IF NeedsSynthesis THEN SpendSome(1, 0) ELSE UNCHANGED calls

(* Only a delivered answer is distilled into a memory.                     *)
AfterAnswer == IF MemoryEnabled THEN "memory" ELSE "finished"

(* The rest of _graceful_abort: the partial answer, then the failure.      *)
PartialReturns_AnswerLast ==
    /\ Decide("partial", AfterAnswer,
              <<SetPartialAnswer>> \o FinalizeFailed("aborted")
                  \o <<Emit([type |-> "answer.completed", text |-> "partial"])>>)
    /\ Synthesizes
    /\ UNCHANGED <<handle, plan, turn, tokens, replansUsed, retries>>

PartialReturns ==
    /\ Decide("partial", AfterAnswer,
              <<SetPartialAnswer, Emit([type |-> "answer.completed", text |-> "partial"])>>
                  \o FinalizeFailed("aborted"))
    /\ Synthesizes
    /\ UNCHANGED <<handle, plan, turn, tokens, replansUsed, retries>>

(* LLMError is not handled before _execute.                                *)
PartialFails ==
    /\ NeedsSynthesis
    /\ Decide("partial", "handled", FinalizeFailed("llm"))
    /\ SpendSome(1, 0)
    /\ UNCHANGED <<handle, plan, turn, tokens, replansUsed, retries>>

PartialExhausts_KeepsPartial ==
    /\ NeedsSynthesis
    /\ Decide("partial", "finished",
              <<SetPartialAnswer>> \o FinalizeBudgetExceeded(FALSE))
    /\ Exhaust(1, 0)
    /\ UNCHANGED <<handle, plan, turn, tokens, replansUsed, retries>>

PartialExhausts ==
    /\ NeedsSynthesis
    /\ Decide("partial", "finished", FinalizeBudgetExceeded(FALSE))
    /\ Exhaust(1, 0)
    /\ UNCHANGED <<handle, plan, turn, tokens, replansUsed, retries>>

(* _synthesize                                                             *)
CheckSynthesis ==
    /\ \/ /\ cancel
          /\ Decide("synthesize", "finished", FinalizeCancelled)
       \/ /\ ~cancel
          /\ Decide("synthesize", "answer", <<>>)
    /\ UNCHANGED local

AnswerReturns ==
    /\ Decide("answer", "stream", <<>>)
    /\ Synthesizes
    /\ tokens' \in 1 .. MaxTokens
    /\ UNCHANGED <<handle, plan, turn, replansUsed, retries>>

AnswerFails ==
    /\ NeedsSynthesis
    /\ Decide("answer", "handled", FinalizeFailed("llm"))
    /\ SpendSome(1, 0)
    /\ UNCHANGED <<handle, plan, turn, tokens, replansUsed, retries>>

AnswerExhausts ==
    /\ NeedsSynthesis
    /\ Decide("answer", "handled", FinalizeBudgetExceeded(FALSE))
    /\ Exhaust(1, 0)
    /\ UNCHANGED <<handle, plan, turn, tokens, replansUsed, retries>>

(* _stream_answer: cancel is checked before every word, not after the last. *)
StreamToken_Deaf ==
    /\ tokens > 0
    /\ Decide("stream", "stream", <<Emit(Plain("answer.token"))>>)
    /\ tokens' = tokens - 1
    /\ UNCHANGED <<handle, plan, turn, budget>>

StreamToken ==
    /\ tokens > 0
    /\ \/ /\ cancel
          /\ Decide("stream", "finished", FinalizeCancelled)
          /\ UNCHANGED tokens
       \/ /\ ~cancel
          /\ Decide("stream", "stream", <<Emit(Plain("answer.token"))>>)
          /\ tokens' = tokens - 1
    /\ UNCHANGED <<handle, plan, turn, budget>>

StreamDone ==
    /\ tokens = 0
    /\ Decide("stream", AfterAnswer, FinalizeDone)
    /\ UNCHANGED local

(* _write_memory, best-effort: may distill with one model call, and may    *)
(* write nothing.  Whatever it raises is swallowed.                        *)
WriteMemory ==
    /\ \E commits \in {<<>>, <<Emit(Plain("memory.written"))>>} :
           Decide("memory", "finished", commits)
    /\ Spend(1, 0)
    /\ UNCHANGED <<handle, plan, turn, tokens, replansUsed, retries>>

(* _cleanup, the done-callback of the run's task.                          *)
Cleanup ==
    /\ \E from \in {"finished", "handled"} : Decide(from, "ended", <<>>)
    /\ registered' = FALSE
    /\ UNCHANGED <<cancel, plan, turn, tokens, budget>>

-----------------------------------------------------------------------------
(* Performing the first commit of todo.  Each is one database transaction: *)
(* it happens wholly or not at all.                                        *)

Pending(op) == todo # <<>> /\ Head(todo).op = op

Performed ==
    /\ todo' = Tail(todo)
    /\ UNCHANGED <<pc, local>>

CommitStatus ==
    /\ Pending("status")
    /\ status' = Head(todo).status
    /\ Performed
    /\ UNCHANGED <<answer, error, tasks, attempts, view>>

CommitFailed ==
    /\ Pending("failed")
    /\ error' = Head(todo).error
    /\ status' = "failed"
    /\ Performed
    /\ UNCHANGED <<answer, tasks, attempts, view>>

CommitDone ==
    /\ Pending("done")
    /\ answer' = "full"
    /\ status' = "done"
    /\ Performed
    /\ UNCHANGED <<error, tasks, attempts, view>>

CommitPartialAnswer ==
    /\ Pending("answer")
    /\ answer' = "partial"
    /\ Performed
    /\ UNCHANGED <<status, error, tasks, attempts, view>>

(* TaskRepository._set: a task that has no row is left alone.              *)
CommitMark ==
    /\ Pending("mark")
    /\ tasks' = [i \in DOMAIN tasks |->
                    IF i = Head(todo).index THEN Head(todo).status ELSE tasks[i]]
    /\ Performed
    /\ UNCHANGED <<status, answer, error, attempts, view>>

(* One transaction reads the tasks that are still pending and skips them;  *)
(* their task.skipped events follow.                                       *)
CommitSkip ==
    /\ Pending("skip")
    /\ LET pending == {i \in DOMAIN tasks : tasks[i] = "pending"} IN
           /\ tasks' = [i \in DOMAIN tasks |->
                           IF i \in pending THEN "skipped" ELSE tasks[i]]
           /\ todo' = IF pending = {}
                      THEN Tail(todo)
                      ELSE <<EmitSkipped(pending)>> \o Tail(todo)
    /\ UNCHANGED <<pc, local, status, answer, error, attempts, view>>

CommitDrop ==
    /\ Pending("drop")
    /\ tasks' = [i \in DOMAIN tasks |->
                    IF i \in Head(todo).tasks THEN "skipped" ELSE tasks[i]]
    /\ Performed
    /\ UNCHANGED <<status, answer, error, attempts, view>>

(* bulk_create and append_generation.                                      *)
CommitAdd ==
    /\ Pending("add")
    /\ LET start == Head(todo).start
           count == Head(todo).count
       IN  /\ tasks' = WithPlan(tasks, start, count)
           /\ attempts' = [i \in DOMAIN tasks \cup start .. (start + count - 1) |->
                              IF i \in start .. (start + count - 1)
                              THEN 0 ELSE attempts[i]]
    /\ Performed
    /\ UNCHANGED <<status, answer, error, view>>

CommitAttempt ==
    /\ Pending("attempt")
    /\ attempts' = [i \in DOMAIN attempts |->
                      IF i = Head(todo).index THEN Head(todo).number ELSE attempts[i]]
    /\ Performed
    /\ UNCHANGED <<status, answer, error, tasks, view>>

(* The verdict goes onto the attempt's row, whose content no step reads.   *)
CommitReflection ==
    /\ Pending("reflection")
    /\ Performed
    /\ UNCHANGED durable

CommitEmit ==
    /\ Pending("emit")
    /\ view' = FoldStep(view, Head(todo).event)
    /\ Performed
    /\ UNCHANGED rows

(* The loop that emits one task.skipped per task, in index order.          *)
CommitEmitSkipped ==
    /\ Pending("emitSkipped")
    /\ \E i \in Head(todo).tasks :
           /\ \A j \in Head(todo).tasks : i <= j
           /\ view' = FoldStep(view, TaskEvent("task.skipped", i))
           /\ todo' = IF Head(todo).tasks = {i}
                      THEN Tail(todo)
                      ELSE <<EmitSkipped(Head(todo).tasks \ {i})>> \o Tail(todo)
    /\ UNCHANGED <<pc, local, rows>>

-----------------------------------------------------------------------------
Planning ==
    \/ Register \/ StartPlanning \/ CheckPlanning \/ Recall
    \/ PlannerReturns \/ PlannerFails \/ PlannerExhausts \/ CheckPlanned

Executing ==
    \/ StartTask \/ TasksDone \/ StartAttempt
    \/ ExecutorReturns \/ ExecutorCancelled \/ ExecutorFails \/ ExecutorExhausts
    \/ CheckExecuted \/ ReflectorReturns \/ ReflectorExhausts

Judging ==
    \/ JudgedCancelled \/ JudgedAccept \/ JudgedRetry \/ JudgedReplan \/ JudgedAbort
    \/ ReplanReturns \/ ReplanFails \/ ReplanExhausts \/ ReplyRaises

Answering ==
    \/ PartialReturns \/ PartialFails \/ PartialExhausts
    \/ CheckSynthesis \/ AnswerReturns \/ AnswerFails \/ AnswerExhausts
    \/ StreamToken \/ StreamDone \/ WriteMemory \/ Cleanup

Committing ==
    \/ CommitStatus \/ CommitFailed \/ CommitDone \/ CommitPartialAnswer
    \/ CommitMark \/ CommitSkip \/ CommitDrop \/ CommitAdd
    \/ CommitAttempt \/ CommitReflection \/ CommitEmit \/ CommitEmitSkipped

(* The asyncio task of the run: what the event loop keeps scheduling.      *)
Execute == Planning \/ Executing \/ Judging \/ Answering \/ Committing

(* A finished run has nothing left to do.                                  *)
Ended == pc = "ended" /\ UNCHANGED vars

Next == CreateRun \/ CancelRun \/ Execute \/ Ended

Spec == Init /\ [][Next]_vars

(* The event loop runs every ready coroutine, and every await of the run   *)
(* returns: transactions commit, model and tool calls have timeouts.  A    *)
(* client owes nothing: it may never create the run, nor cancel it.        *)
Fairness == WF_vars(Execute)

FairSpec == Spec /\ Fairness

-----------------------------------------------------------------------------
(* Types, the bounds on retries, replans and calls included.               *)
RowsOK ==
    /\ status \in RunStatuses \cup {"none"}
    /\ answer \in Answers
    /\ error \in Errors
    /\ IsChecklist(tasks)
    /\ attempts = [i \in DOMAIN tasks |-> attempts[i]]
    /\ \A i \in DOMAIN tasks : attempts[i] \in Nat

ControlOK ==
    /\ pc \in ControlPoints
    /\ todo \in Seq(Commit)
    /\ registered \in BOOLEAN /\ cancel \in BOOLEAN

LocalOK ==
    /\ cur \in Nat /\ last \in Nat /\ outputs \in SUBSET Nat
    /\ attempt \in Nat \ {0} /\ output \in {"good", "bad"} /\ verdict \in Verdicts
    /\ tokens \in 0 .. MaxTokens

BudgetOK ==
    /\ modelCalls \in 0 .. MaxModelCalls
    /\ toolCalls \in 0 .. MaxToolCalls
    /\ replansUsed \in 0 .. MaxReplans
    /\ retries = [i \in DOMAIN retries |-> retries[i]]
    /\ \A i \in DOMAIN retries : i \in Nat /\ retries[i] \in 1 .. MaxRetries

TypeOK == RowsOK /\ IsReplayState(view) /\ ControlOK /\ LocalOK /\ BudgetOK

-----------------------------------------------------------------------------
(* Safety                                                                  *)

(* Tasks are worked through in plan order, one at a time: a task leaves    *)
(* pending only when every earlier task is final.  Retries, replans, the   *)
(* skips of a cancellation and of an abort all have to respect it.         *)
ExecutedInOrder ==
    \A i, j \in DOMAIN tasks :
        i < j /\ tasks[j] # "pending" => tasks[i] \in TerminalTaskStatuses

(* A run that was completed, cancelled, aborted by its reflector or        *)
(* stopped by its budget leaves no open task behind, from the very         *)
(* transaction that makes its status terminal (the part of invariant I-4   *)
(* of RFC-0002 that the code establishes).                                 *)
NoOpenTaskLeft ==
    status \in {"done", "cancelled"} \/ error \in {"budget", "aborted"}
        => \A i \in DOMAIN tasks : tasks[i] \in TerminalTaskStatuses

(* The answer stored is the one the outcome allows: full with done only,   *)
(* a partial only for an aborted run that had completed tasks, and none    *)
(* for a cancelled or failed run otherwise, a budget hit while composing   *)
(* the partial included (I-12).                                            *)
AnswerMatchesOutcome ==
    /\ answer = "full" <=> status = "done"
    /\ answer = "partial" /\ status \in TerminalRunStatuses
           => status = "failed" /\ error = "aborted"
    /\ status = "failed" /\ error = "aborted" /\ outputs # {} => answer = "partial"

(* No event announces what the rows do not hold: a client that reads the   *)
(* run because of an event finds at least what the event said.             *)
RowsLeadLedger ==
    /\ view.terminal => status = view.status /\ error = view.error
    /\ view.answer # "none" => answer = view.answer
    /\ \A i \in DOMAIN view.tasks :
           /\ i \in DOMAIN tasks
           /\ view.tasks[i] \in TerminalTaskStatuses => tasks[i] = view.tasks[i]

(* When the run is over, folding its ledger gives back its rows: status,   *)
(* error, every task and the answer (I-24), with two exceptions.  A run    *)
(* stopped while its answer streamed has none, where the fold gives the    *)
(* tokens.  And a further attempt is marked running without an event, so   *)
(* if it raises, its task is left running and the fold has it retrying.    *)
LedgerTellsAll ==
    pc = "ended" =>
        /\ view.terminal
        /\ view.status = status
        /\ view.error = error
        /\ \/ FoldAnswer(view) = answer
           \/ FoldAnswer(view) = "tokens" /\ answer = "none" /\ status # "done"
        /\ DOMAIN view.tasks = DOMAIN tasks
        /\ \A i \in DOMAIN tasks :
              \/ view.tasks[i] = tasks[i]
              \/ /\ error = "unexpected" /\ i = cur
                 /\ view.tasks[i] = "retrying" /\ tasks[i] = "running"

(* A final task never changes again, nor does its attempt count: not when  *)
(* a replan appends a generation, not when the run is torn down (I-1).     *)
FinalTasksKept ==
    [][\A i \in DOMAIN tasks :
          tasks[i] \in TerminalTaskStatuses =>
              /\ i \in DOMAIN tasks'
              /\ tasks'[i] = tasks[i]
              /\ attempts'[i] = attempts[i]]_<<tasks, attempts>>

(* What a finished run reports is final: its status, answer and error.     *)
OutcomeFinal ==
    [][(status \in TerminalRunStatuses) => (outcome' = outcome)]_outcome

(* A cancel request that arrives before the answer is being streamed keeps *)
(* the run from ever being done, whatever the model answers meanwhile.     *)
BeforeStreaming == ControlPoints \ {"stream", "memory", "finished", "handled", "ended"}

CancelPreventsDone ==
    [](cancel /\ pc \in BeforeStreaming => [](status # "done"))

-----------------------------------------------------------------------------
(* Liveness                                                                *)

(* Every run that was scheduled comes to an end, with a terminal status    *)
(* and a terminal event, through every retry, replan and abort (I-10).     *)
Terminates ==
    pc = "start" ~>
        pc = "ended" /\ status \in TerminalRunStatuses /\ view.terminal

-----------------------------------------------------------------------------
(* Refinement                                                              *)

Lifecycle ==
    INSTANCE RunLifecycle
        WITH announced <- IF view.terminal THEN view.status ELSE "none"

(* To its clients the run is a RunLifecycle: statuses advance, a terminal  *)
(* one is final and is announced once, after it is stored, and the run is  *)
(* eventually finished.                                                    *)
ImplementsLifecycle == Lifecycle!FairSpec

=============================================================================
