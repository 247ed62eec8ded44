# ATLAS: the run, its recovery, its event stream, its pages and its memory in TLA+

ATLAS executes a *run*: a goal is planned into tasks, each task is executed and
judged, and the outputs are synthesized into an answer. Everything a run does is
kept twice: as rows (`RunRow`, `TaskRow`, `TaskAttemptRow`) and as an append-only
ledger of events that readers fold. These modules model how a run is orchestrated,
what a call of one of its agents may do and what becomes of a model's reply, how a run
survives a crash, how its events reach a page and what the page makes of them, the
memory that runs share and what a goal recalls of it, and how a server starts on the file
that an earlier release or a crash has left. TLC checks them on small
instances and TLAPS proves the properties listed under *Proofs* for all of them.

## Inventory

| Component | Code (`src/backend/atlas/` unless said) | State | Operations | What makes it correct |
|---|---|---|---|---|
| Run orchestration | `runtime/manager.py` | run's asyncio task, cancel events, lessons | create, cancel, shutdown, the whole execution | every run ends, once, announced as stored; tasks closed; finished work kept; cancel honoured |
| Run budget | `runtime/budget.py` | counters of one run | charge, remaining | no counter passes its cap; a charge at the cap ends the run |
| Rows | `persistence/repositories.py`, `models.py`, `database.py` | run, task, attempt, event, memory rows | one transaction each | atomic; roll back when they raise |
| Ledger and fold | `events/types.py`, `recovery/replay.py` | – (pure) | `fold_events` | folding a ledger gives back the rows |
| Recovery | `recovery/reconciler.py`, `api/app.py` | – | startup scan, reconcile | nothing stays open after a restart; nothing finished is touched; idempotent |
| Emission and hub | `events/emit.py`, `events/hub.py` | emit lock, subscriptions and their queues | emit, publish, subscribe | gapless numbers; only durable events are delivered; subscriptions are released |
| Stream | `api/ws.py` | a handler per connection | backfill, live delivery | no gap, no duplicate |
| Live page | `src/frontend/lib/useRunStream.ts`, `components/RunPage.tsx` | run shown, cursor, closed flag, a socket or a timer per run | submit, connect, receive, reconnect, go on to the next run | the view is a prefix of the ledger of the run shown and catches up; one run at a time |
| Browser fold | `src/frontend/lib/runReducer.ts`, `components/RunReplay.tsx` | – (pure) | `reduceEvent` | agrees with `fold_events` and the rows |
| Agent components | `agent/executor.py`, `planner.py`, `reflector.py`, `synthesizer.py`, `memory/writer.py` | the messages of one call | model and tool calls with repairs | bounded; cancel seen each iteration; a result or a declared error |
| Replies | `agent/jsonio.py`, `reflector.py`, `planner.py`, `executor.py`, `schemas.py` | – (pure) | extract, judge, normalize, repair | the object meant is found; no verdict or plan nobody gave |
| Memory | `memory/service.py`, `MemoryRepository` | memory rows | recall, write, prune, pin, delete | best-effort; cap and expiry hold; pinned rows stay |
| Recall | `memory/ranking.py`, `recall.py` | – (pure) | search, score, select | fits the budget; the best that match; no reason missing |
| Schema | `persistence/database.py`, `models.py` | tables, columns, indexes, triggers, stamp | `create_all`, the triggers | any file can be started from; the stamp is true; the index mirrors the rows |
| HTTP API | `api/routes.py` | – | reads, create, cancel, memory admin | – |
| Tools, LLM providers, prompts, metrics, logging, integrity check, history and memory pages, configuration | `tools/`, `llm/`, `agent/prompts.py`, `obs/`, ... | little or none | pure I/O or text | – |

How they interact: a route calls `RunManager.create_run` or `cancel_run`; the manager
awaits the agent components, commits rows through the repositories and appends events
through `EventEmitter.emit`, which publishes to the `EventHub`; WebSocket handlers read
the ledger and their queue; the page folds what it receives. At startup, before any
request, `Database.create_all` brings the file up to date and the `Reconciler` reads rows
and ledger and finishes what a crash interrupted.

What is hard: a cancel request can arrive at any await; a row and its event are two
transactions, so a reader or a crash comes between them; failures take a dozen
different ways through the finalizers; a page reconnects while its old handler still
lives, and goes on to another run while its old socket still closes; two reducers in two
languages fold one ledger; schema statements commit one by one. `PROJECT.json` lists these hazards with their lines and the properties that watch
over them.

## Modules

```
Ledger  <- RunLifecycle (abstract)
Ledger, Budget <- RunManager <- RunRecovery
                  RunManager <- BrowserView
                  RunManager <- RunManagerProofs
RunRecovery, BrowserView, RunManagerProofs <- RunLedgerProofs
Budget  <- ComponentCall (abstract)
Budget  <- AgentTurn <- AgentTurnProofs
EventStream <- EventStreamProofs
PageSession <- PageSessionProofs
MemoryStore <- MemoryStoreProofs
Recall, Replies <- MCAlgorithms
Recall, Replies <- AlgorithmProofs
Startup <- StartupProofs
MC*: the roots TLC is run on
```

**Ledger** – statuses and event types by the code's names, and `FoldStep`, one step of
`fold_events`. A payload is reduced to what the fold reads. The ledger of a run is kept
in `RunManager` as its fold `view`, since every property of it is about the fold; the
sequence itself is in `EventStream`.

**Budget** – the two hard caps of `RunBudget`: a charge, and what a whole turn of a
component may have charged when it returns (`Spend`) or raises (`Exhaust`).

**RunManager** – one run. The code alternates between decisions and fixed sequences of
awaited commits; the model has the same shape. An action such as `JudgedRetry` or
`PlannerReturns` is a decision at a control point `pc`; it leaves in `todo` the commits
the code performs next, in order, and each commit (`CommitMark`, `CommitEmit`, ...) is a
step of its own. So everything that can happen between two awaits can happen between two
steps. `cancel` is read only in decisions, at the lines where the code calls
`cancel.is_set()`; where the code checks twice without an await in between, the model
checks once. A call of planner, executor, reflector or synthesizer is one step, at its
return: it spends up to its longest turn's calls and has the outcomes its code allows.
The commit helpers (`FailTask`, `FinalizeBudgetExceeded`, ...) have the names of the
methods they stand for. The executor's own events (`agent.thinking`, `tool.*`) and the
attempt rows' contents are read by no fold and left out.

| Code | Model |
|---|---|
| `create_run` | `CreateRun`, `Register` |
| `cancel_run`, `shutdown` | `CancelRun` |
| `_plan` | `StartPlanning` .. `CheckPlanned` |
| `_run_tasks`, `_run_task` | `StartTask` .. `JudgedRetry` |
| `_escalate`, `_graceful_abort` | `JudgedReplan`, `JudgedAbort`, `Partial*` |
| `_do_replan` | `Replan*` |
| `_synthesize`, `_stream_answer` | `CheckSynthesis` .. `StreamDone` |
| `except` clauses of `_execute` | the `*Fails` and `*Exhausts` actions that go to `handled`; `ReplyRaises` for the last one |
| `_write_memory`, `_cleanup` | `WriteMemory`, `Cleanup` |

**RunLifecycle** – the abstract specification: a status that advances and ends once, an
answer that fits the outcome, one announcement. `ImplementsLifecycle` is
`RunLifecycle!FairSpec` under the mapping `announced <- IF view.terminal THEN view.status
ELSE "none"`; it covers safety and the promise that a run ends.

**RunRecovery** – `RunManager` in a process that can crash between any two transactions
(`Crash`: rows and ledger stay, the rest is lost), with transactions that can raise
(`Fault`: rolled back, then the way of the exception: swallowed by the memory service,
caught by the last clause of `_execute`, or escaping from a handler), and the startup
that reconciles. The reconciler's transactions are commits in `todo` like the manager's,
so a crash or a fault can come between them as well.

**AgentTurn** – one call of planner, executor, reflector, synthesizer or memory
distillation, from any state of the budget: iterations, repairs, each model and tool call
charged before it is made, a cancel request at any point. `tool.call` is emitted before
the charge, as in `_invoke_tool`. A reply may raise while planner, executor or reflector
parse it (`ReplyRaises`): each catches `JSONDecodeError` only, and `json.loads` and `float`
raise others; the run then ends in the last clause of `_execute`. **ComponentCall** is the
same call as one step, with the outcomes and charges `RunManager` takes for granted; `ImplementsCall` is its `FairSpec`
with the counters of the entry until the turn is over. So the coarse steps of `RunManager`
are themselves checked against the loops.

**MemoryStore** – several runs that recall, touch, write and prune, and an administrator
who pins and deletes, on one table. A prune is its three statements: count, SELECT, and
the UPDATEs and DELETE in one commit. SQLite under the Python driver opens a transaction
at the first write, so what the first two have read may be stale. Which memories a goal
recalls is left open; retention is salience less 0.01 a day, in tenths and ticks of ten
days. Any statement may fail and is swallowed. `undisturbed` is an auxiliary variable:
the prunes whose count no write or pin has made stale.

**BrowserView** – `RunManager` with a page that folds each event as it is appended, by
`reduceEvent`. A state is a run together with a page that has received everything so far;
as every prefix of the ledger is the page of an earlier state, that is also every position
of the replay's cursor. Titles, timestamps and tool calls are left out.

**Replies** – text to object to decision. `Extracted` is `extract_json` on text reduced to
the characters it tells apart: the fenced block, then the scan from the first brace with
its depth, string and escape flags. `ScanFindsFirst` holds it against a grammar written
independently. The decisions are on the fields they read: `Gated` and `Coerced` of the
reflector, `Normalize` of the planner, and the repair loop around them with what each
caller does when the repairs are used up, or when a reply makes the parser raise.

**Recall** – the search (full text or `LIKE`), the score in exact integers, and the greedy
loop, one step per candidate. Words are sets and lessons have lengths; that FTS5's
tokenizer and `_tokens` of the code split text alike is assumed.

**Startup** – the statements of `create_all` in order, each a commit of its own, on files
of every release (`M2` .. `M5`) and of startups that crashed; and the triggers that keep
the full-text index while the server serves. Tables come by the depth of their foreign keys
and then as declared, each followed by one statement per index, whose order among
themselves SQLAlchemy leaves to a set. That SQLite was built with FTS5 or without
does not change while the model runs.

**PageSession** – the page over several runs: one effect of `useRunStream` per run shown,
sharing the refs, and the callbacks of sockets left behind. The server is reduced to what
`EventStream` shows of it. `revived` is an auxiliary variable: the runs whose socket was
reopened after its cleanup, the one slip of this code (`claim_page`); the other properties
are about what holds apart from it.

**EventStream** – the ledger as a sequence, the emitter, the hub, one handler per
connection and one page. A cut connection takes what is on the wire with it; the handler
finds out when a send raises, and sends may go unnoticed before. A second page would be
another subscriber without effect on the first, and lingering handlers already are that.

Definitions named `X_Y` (`ReplansLeft_OneMore`, `Publish_ToReaders`) are variants of `X`
with a plausible slip in them. Nothing uses them; substituted for `X`, each makes the
property named in `PROJECT.json` fail.

## Runs

| Run | Checks | Shows |
|---|---|---|
| `run` | `TypeOK`, `ExecutedInOrder`, `NoOpenTaskLeft`, `AnswerMatchesOutcome`, `LedgerTellsAll`, `FoldsAgree`, `PageTellsRun`, `FinalTasksKept`, `CancelPreventsDone`, `Terminates`, `ImplementsLifecycle` | rows, tasks, answer, ledger and page agree in every interleaving with a cancel request, through retry, replan, abort and budget; both folds of the ledger tell the same; every scheduled run ends, stored and announced; the lifecycle is implemented |
| `recovery_faults` | `NoOrphanRun`, `InterruptedTasksClosed`, `RowsLeadLedger`, `FinishedUntouched`, `SealedLedger` | two crashes and a fault per life of the process leave nothing open after a startup, and nothing finished is changed |
| `recovery_crashes` | `EventuallyTerminal`, `OutcomeFinal` | reflection off, forced synthesis, three tasks: with crashes only, every run is finished in the end, and its outcome is final |
| `turn` | `ToolCallsAnswered`, `CancelStopsSpending`, `ImplementsCall` | budget and tool events of one call agree, a cancelled call soon stops, a call is one of the steps `RunManager` makes of it |
| `stream` | `ViewIsPrefix`, `DeliveredIsDurable`, `PageCatchesUp`, `HubEmpties` | no gap, duplicate or reordering at the page; nothing delivered is lost by a crash; the page comes to show the run; subscriptions are released |
| `page` | `ShowsOwnRun`, `OneRunAtATime`, `PageFollows` | a page that goes from run to run shows the run it names, leaves none behind at work and follows its run to the end, unless a socket outlives its cleanup |
| `memory` | `PruneBounds`, `SoftBeforeHard`, `ForgottenStaysForgotten` | the cap holds after a prune, whatever other prunes do; rows are hidden before they are lost; nothing forgotten comes back |
| `algorithms` | `LessonsFit`, `SelectionJustified`, `PinnedFirst`, `ScanFindsFirst`, `VerdictJustified`, `PlanUsable` | over all bounded inputs: a recall fits and is the one its rules ask for; the scanner finds what the grammar says; verdicts and plans are justified by the replies |
| `startup` | `StampTellsSchema`, `IndexMirrors`, `ComesUp` | every file can be started from, the stamp promises nothing that is not there, and the index holds what the rows hold |

Runs that expect a violation each check one sentence of the documentation that the code
does not meet; the sentence and the line are in `PROJECT.json`, "findings".

| Run | Sentence | What happens |
|---|---|---|
| `claim_recovery_announced` | recovery handles an interrupted finalize | status stored, event not: the run is never announced |
| `claim_pinned` | pinned memories are never pruned | a pin committed between the SELECT and the UPDATE of a prune is ignored |
| `claim_page` | the hook drives a single run | the close of the old socket comes after the new run has reset the flag: the page reconnects to the old run and mixes its events in |

### Bounds

*run*, *recovery_faults*: two tasks per plan, one retry per task, one replan: a run
has up to four tasks in two generations, which is the least that has completed, current
and pending tasks in both. Model calls are capped at a number a long run just reaches
(11: two generations, a retry, an abort and its partial answer), so that each
`*Exhausts` action fires at each phase; `PlannerCalls` above the cap lets the very first
turn run into it. Turns of one or two calls and an answer of one or two words are enough:
a turn only spends, and the cancel check precedes every word. Two crashes let recovery
itself be interrupted and repeated; one fault per life strikes every commit once. Larger
values repeat these situations: a third task behaves as the second, a second replan as
the first (`JudgedReplan` has no memory of generations). *recovery_crashes* has three
tasks in the single-attempt configuration, where there are no generations.

*turn*: three iterations with one repair, caps of 7 model and 4 tool calls, every entry
state of the budget: both caps are met before, inside and after each iteration.

*memory*: three runs, so that two prune while a third has just written or still holds
what it recalled; a cap of one record makes every second write prune; two ticks of the
clock with an expiry of one let a row be hidden, be too young to remove, and be removed.
The runs are symmetric.

*stream*: a ledger of two events up to the terminal one, then `memory.written`; one cut
and one crash give up to three connections, so that handlers left behind are alive beside
the current one. An event is in the backlog, in the queue or in both, on the wire or
lost; a gap shows as soon as one event is missing before the terminal one, and a
duplicate needs one event.

*page*: three runs, so that a socket of the first can meet the third; two events, the
last of them terminal; one drop, at any time, or one lost request.

*algorithms*: a library of ten memories, chosen to have ties in score and age, pairs alike and
unlike, pinned, hidden and empty ones, of which a store holds any five; up to three
lessons; budgets of nothing, of one character, and on either side of the share (3) and its
double. Texts of up to six tokens, which is an escaped quote inside a string inside an
object; two repairs; lists of up to four tasks against a cap of two; confidences on both
sides of every floor, out of range, and of each kind that is no number.

*startup*: two memories and two texts, so that one may be reworded or replaced by another;
three crashes, so that a startup that continues one that continued another is cut as well.

### Fairness

`RunManager` assumes weak fairness of `Execute`: the event loop runs a ready coroutine,
transactions finish, and model and tool calls return because they have timeouts
(`llm_timeout_seconds`, `tool_timeout_seconds` in `core/config.py`). `RunRecovery` adds that a stopped
server is started again and its startup proceeds; `EventStream` that the emit under way,
each handler and the page's callbacks proceed; `PageSession` the same of server and
browser; `Startup` that a server is started and its statements executed; `AgentTurn` that
the turn's own steps do, by the same timeouts. `MemoryStore`, `Recall` and `Replies` state no liveness and assume none. Nothing is assumed of clients: no run need
be created, no cancel need come, the user may leave at any time, and crashes, cuts and
faults need not happen. No strong fairness is used.

`EventStream`, `PageSession`, `AgentTurn`, `MemoryStore`, `Startup` and the algorithms are
checked without deadlock detection: when the run is over and the page done or left, the
turn has ended, the runs are done and the memories deleted, every crash allowed has
happened, or the decision is made, the system is at rest. `RunManager` has the step `Ended` for that.

## Proofs

`RunManagerProofs` proves, for every value of the limits and switches that satisfies
`LimitsAssumption` and `SwitchesAssumption`:

* `TypeInvariant`: `Spec => []TypeOK`. One lemma per group of actions, one step per
  action; `HelperTypes` and `FoldStepType` say that commit helpers build commits and
  that the fold keeps replay states. `BudgetOK`, part of it, is the statement that no
  counter passes its cap.
* `OutcomeIsFinal`: `Spec => OutcomeFinal`, once finished, a run's status, answer and
  error never change. This is not inductive: a state with a terminal status and another
  status commit waiting would break it. The strengthening `OutcomeInv` says that (1)
  behind a commit that ends the run nothing waits that writes the outcome, (2) unless
  the run has reached a *closed* control point (`memory`, `finished`, `handled`, `ended`)
  no such commit waits and the status is not terminal, and (3) once it is terminal nothing
  that waits writes the outcome. `OutcomeSettled` is `Spec => []OutcomeInv`. (1) rests on `ConcatCloses` and
  `TailCloses` about sequences, and `HelperCloses` about the finalizers.
* `CancelIsHonoured`: `Spec => CancelPreventsDone`, with `CancelledInTime`, which every
  step preserves: no commit waits that makes the run done, and an answer about to stream
  still has a word left, before which the request is seen. `OutcomeInv` (2) gives it at the
  moment of the request.

It also proves, for the same limits and so for plans of any length, the
properties of the run `run` that are about rows. Three are about tasks: `TasksInOrder`,
`NothingLeftOpen` and `FinalTasksAreKept`. The rows are behind the decisions (`cur` moves on while the commits
that finish its task still wait), so `TasksInv` says of each task what it is *or will be*:
`WillEnd` is "final, or a waiting commit ends it". `LoopInv` places the tasks around `cur`
while the loop runs; `Fits` says that a waiting commit touches no final task and none
whose predecessors are open, and that a new generation comes after all others; `Tidy` that
a list of commits changes tasks once (a replan: drops, then adds), skips after that, and
settles the run last; `SettleInv` that a commit that settles the run waits only where every
task will end. From that, the moment it is performed nothing else is left to wait for.
Decisions are proved by kind (`DecideWithin` a phase, `DecideToLeave` it, and `AcceptTasks`,
`StartTasks`, `ReplanTasks` of their own), commits by what they do to tasks. `AnswersMatch` is about the answer: `AnswerInv` ties a
partial answer, had or waited for, to the failure as aborted, had or waited for; with
`OutcomeInv`, nothing of that waits any more once the run is finished.

`RunLedgerProofs` proves what relates rows, ledger, page and restarts, from the same
assumptions and `FailureAssumption`. All of it rests on one habit of the manager, `Paired`:
it commits a row and appends the event about it right after.

* `RowsLead`: `Spec => []RowsLeadLedger`, no event announces what the rows do not hold.
  `BookInv` adds to the pairs that an event at the head of `todo` is true of the rows, that
  the commit that ends the run is the last that waits (`EndInv`), and that each task still
  to be worked through has a row or one waiting (`PlanInv`).
* `LedgerTells`: `Spec => []LedgerTellsAll`, the converse when the run is over.
  `EndedRunsAreClosed` says that no way out of `_execute` misses a finalizer; `ToldInv` that
  what the ledger does not tell yet is what the event at the head of `todo` says, save a
  task marked as running again, which has no event (`FlightInv`); an unexpected exception
  leaves just that task so (`Broken`, `LeavesBroken`). So nothing else is missing once
  `todo` is empty.
* `RunImplementsLifecycle`: `Spec => Lifecycle!Spec`, the safety part of
  `ImplementsLifecycle`: the initial state maps to `RunLifecycle`'s, each decision to a
  stutter, each commit to a stutter or the one action it stands for. `StatusInv` says which
  status goes with which control point, so that a status commit is always an advance.
* Across failures, for any number of crashes and faults: `RecoveryTypes`, `OrphansAreClosed`,
  `InterruptedAreClosed`, `RowsLeadAcrossFailures`, `RowsStayOrderly` (the invariants about
  tasks hold of what a crash leaves), `FinishedAreUntouched`, `LedgerIsSealed` and
  `FinalTasksOutliveCrashes`. The manager's invariants speak of what waits, and a crash or a
  fault takes that away; so `RecoveryInv` has them while the manager works, what they say of
  rows and ledger alone (`RestInv`) while the reconciler does, and for the latter's commits
  an order of their own (`ReconcilingInv`). `EndInv` is stated so that it survives a fault
  in a finalizer, after which the run fails once more.
* `OutcomeOutlivesCrashes`: `RecoverySpec => OutcomeFinal`, assuming `MaxFaults = 0` as
  the run `recovery_crashes` does; `OutcomeNeedsAFault` says without that assumption that
  a finished outcome changes only in a life of the process that has met a fault (see
  *Known disagreements*).
* `ReducersAgree` and `PageTells`: `PageFairSpec => []FoldsAgree` and `[]PageTellsRun`, for
  every ledger a run can write. The two reducers disagree on many sequences of events; they
  agree on those that occur, so `WaitInv` says which event may wait in which state (a plan
  only before anything is started, a token only before the answer), and `PageInv` what of
  the page follows from the fold (`IsDerived`) and what from the rows (the attempts, the
  partial answer).

`AgentTurnProofs` proves, from `CapsAssumption` and `LoopAssumption`:

* `TurnTypes` (counters within their caps), `TurnAnswersTools` and `TurnStopsSpending`, the
  two invariants of the run `turn`. `LoopInv` says which counters each point allows; `SpentInv` splits
  `CancelStopsSpending` by point, since "one iteration's calls" is not inductive before it
  says how much of the iteration is left.
* `TurnImplementsCall`: every step of `AgentTurn` is a step of `ComponentCall` or a
  stutter, a turn that ends in an exception included. `ChargeInv` bounds what a turn has
  charged by iterations begun and repairs made; `LastStep` turns that into the witnesses of
  `Spend` and `Exhaust`. The product `iterations * (1 + repairs)` stays folded in `Turns`.

`MemoryStoreProofs` proves, from `MemoryAssumption`, the types (`MemoryTypeOK`) and the
three properties of the run `memory` for any finite set of runs: `ForgottenForGood`,
`HiddenBeforeLost` and `StoreIsBounded`. The last needs `PruneInv`: between the count
and the commit of an undisturbed prune, the active rows number at most the cap and the
surplus counted, and after the SELECT those not selected are within the cap or all
pinned. `KeepsPrune` says that nobody else's step breaks this, as long as it only removes
active rows and takes no pin off.

`EventStreamProofs` proves, for any number of events, cuts and crashes,
`OnlyDurableIsDelivered` and `PageShowsPrefix`, from `StreamInvariant`. What the page shows
is far from inductive: it depends on what is on the wire, that on the handler's backlog and
queue, and those on the emitter and the hub. `StreamInv` says that all of these are pieces
of one sequence that fit together: `LedgerInv` (rows are numbered without gap, and at most
the last is not published), `QueueInv` (a queue holds consecutive events up to the last
published), `HandlerInv` (where each handler is, its cursor and backlog meet the queue),
`LinkInv` (the wire of the page's connection ends at its handler's cursor), `CountInv` (a
handler is never counted beyond `Conns`, so a new one always has a fresh number) and
`PageInv` (the view ends where the wire begins).

`PageSessionProofs` proves, for any number of runs, events and drops, `PageShowsItsRun`
and `NoneLeftAtWork`. Both are about pages on which no socket outlived its cleanup
(`revived = {}`), and so is most of `SessionInv`: `OwnInv` (only the run shown has a live
socket or timer), `ShownInv` (its view is a prefix that ends at the cursor) and `DoneInv`
(the page goes on after the last event only).

`AlgorithmProofs` proves, for any finite store, `k` and budget, `LessonsAlwaysFit`,
`SelectionIsJustified` and `PinnedComeFirst`. `BudgetInv` says that the room left always
suffices for the lessons still to come, each with its full share; `OrderInv` that what is
picked comes before what the loop has not reached, and that each candidate passed by had a
reason that later picks do not take away. `TotalBounds` shows that no score without a pin
reaches one with it: the shares that `_minmax` and the relevance give stay within `Scale`
(`ShareOfScale`), as a finite pool has a highest and a lowest value (`HighestExists`).
For any replies and limits it proves `VerdictIsJustified` and `PlanIsUsable`. `AskingInv`
says that an undecided caller has seen no usable reply; `GoodKeep` what the pass of
`_normalize` has after each task, by induction over the tasks. The library's induction
theorems take an operator and cannot be used; that strict inclusion of finite sets is
well-founded (`FS_StrictSubsetOrderingWellFounded`) can, and gives induction for sets in
place of predicates (`InductiveSet`, and `Downwards` and `Upwards` on intervals).

`ScanFindsObject` is about texts of any length: the scan of `first_balanced_object` finds
exactly what the grammar has. Both are recursive functions; that there is such a function
at all comes from `RecursionExists`. One direction, `ItemsScanStep`: what the grammar calls
a sequence of objects and literals leaves the scan at the depth it came with. The other,
`PassedStep`: a stretch the scan leaves at the depth it came with, and never below it, is
such a sequence. Both are inductions over the length of the stretch, with one over the
characters of a literal inside (`LiteralScan`, `LiteralIsFound`).

`StartupProofs` proves, for files of every release, any memories and any number of
crashes, `StampIsTrue` and `IndexIsMirror`. `StartupInv` says that every statement a startup
has come past has had its effect, whether in this startup or in an earlier one (`Done`),
that a startup past the last statement has stamped and only such a one serves, and that a
stamped file has all it requires. Since memories are written only while the server serves,
each write then meets its trigger, whence the mirror.

Only model-checked:

* Liveness (`Terminates`, `EventuallyTerminal`, `PageCatchesUp`, `HubEmpties`, `PageFollows`,
  `ComesUp`, and the fairness parts of `ImplementsLifecycle` and `ImplementsCall`): the
  prover knows neither fairness nor `ENABLED`.

Every safety invariant of the passing runs is proved.

## Known disagreements

Besides the three findings, the model has these behaviours of the code, which a document,
a comment or a reader's expectation speaks against. The properties are stated so that they
say what does hold.

* `docs/ARCHITECTURE.md:110` says every finalizer leaves all tasks terminal (I-4). The
  error paths (a planner, provider or synthesizer error, `runtime/manager.py:198-207`, and
  a failed replan, 837-844) finish the run with tasks pending, an unexpected one with a task
  running. `NoOpenTaskLeft` is about
  the outcomes that do close them.
* `docs/adr/0014:30-31` says cancellation takes precedence over an abort. One that arrives
  while the partial answer is composed (`manager.py:737-750`) is not looked at again, and
  the run ends failed.
* `docs/rfc/0002-m4-architecture-validation.md:106` calls terminal states sinks. When a
  commit of a finalizer raises, the last clause of `_execute` (`manager.py:205-207`)
  finalizes again, and a done or cancelled row becomes failed. `FinishedUntouched` and
  `SealedLedger` say what recovery and ledger keep all the same; `OutcomeFinal` is checked
  in runs without such faults.
* `frontend/lib/runReducer.ts:3-8` says a replay shows exactly what the live page showed.
  `memory.written` follows the terminal event, where the handler returns (`api/ws.py:71`):
  the history shows it, the live page never does.
* A run that was interrupted, or failed by a fault, while its answer streamed has the
  tokens as its answer in the fold and on the page; its row has none. That is known and
  intended; `LedgerTellsAll` says so. The page also marks such an answer as partial, while it
  is live.
* `docs/rfc/0004-m6-hardening.md:700-702` (I-24) says that derived state is a pure function
  of the ledger. A further attempt of a task is marked running without an event
  (`manager.py:354-356`). When it ends in an exception nothing expects, no more is written
  of the task: the row of the finished run says running, its fold says retrying.
  `LedgerTellsAll` allows this task and the tokens above, and no other difference.
* `Reflector.reflect` says "Never raises" (`agent/reflector.py:71`), and catches `LLMError`
  only (82). `float` of an integer beyond its range (237) raises `OverflowError`;
  `json.loads` of an integer of more than 4300 digits (184) raises a plain `ValueError`, of
  deep nesting `RecursionError`, where `JSONDecodeError` is caught (185). The run fails, its
  task left running, although every other unusable verdict is an accept. What
  `json.loads` raises leaves planner and executor the same way. `ReplyRaises` of `AgentTurn` and `RunManager` and
  `Raises` of `ComponentCall` are these exits; without the latter, `ImplementsCall` fails.
* A confidence that is NaN is clamped to 1.0 (`agent/reflector.py:245`), so that it passes
  the gate with full confidence.
* `docs/rfc/0003-m5-episodic-memory.md:295-298` says that `memory_recall_char_budget` caps
  the total injected characters and that the block is hard-capped. Where one character is
  left, `_truncate` (`memory/ranking.py:160-163`) takes one and the ellipsis, and the lessons
  come to the budget and one: with `k` = 3, a minimum share of 3 and a budget of 7, to 8.
  It needs a budget below `k` minimum shares (160 characters each, `ranking.py:39`), as may be
  configured, but not the default one. `LessonsFit` says exactly this.
* `extract_json` prefers a fenced block wherever it is: one inside a string of the reply's
  object is taken instead of the object. Its scan tries the first brace only, so a stray
  brace before the object hides it.
* "Pinned memories are always eligible" (`docs/rfc/0003-m5-episodic-memory.md:184`): they
  have to match the goal, and rank within the rows that the query fetches, as any other.
* A crash between a CREATE TABLE and its CREATE INDEX loses the index: the next startup
  finds the table and passes both by. Queries get slower, nothing else.
* The full-text index is created empty and never rebuilt. A file that was served by a build
  without FTS5 and is then served by one with it has memories that no recall finds
  (`Startup` does not change builds). The drift check of the integrity report
  (`recovery/integrity.py:54`) reads the same table twice and cannot notice that.

## Not modelled

* Wording: prompts, the windowing of observations, formatting. Its effect is an outcome of
  a call.
* The tools themselves and the LLM providers: one call each with a result, an error or a
  timeout.
* Metrics, logging, configuration and the integrity report: they read rows and counters,
  and no event or row of a run depends on them.
* The history and memory pages: lists fetched on demand.
* `purge` of the memory repository: no route or service calls it.
* A schedule of several runs: they share the emit lock and the database only; each
  run's events have a sequence of their own. The one thing they do share, the memories,
  is `MemoryStore`.

## Plan

1. `BrowserView` across a recovery: a page that shows a run while the server restarts and
   the reconciler appends its events; then the page properties proved there as well.
2. The bounds behind `EventuallyTerminal`: that each life of the process shortens what is
   left of a run, as far as it can be said without fairness.
