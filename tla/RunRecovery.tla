----------------------------- MODULE RunRecovery -----------------------------
(***************************************************************************)
(* A run across failures of its process and of its database: the lifespan  *)
(* of the server (api/app.py), the startup reconciler                      *)
(* (recovery/reconciler.py), and the last except clause of                 *)
(* RunManager._execute.                                                    *)
(*                                                                         *)
(* A crash can come between any two transactions; it loses the asyncio     *)
(* task and everything the process remembered of the run, and keeps the    *)
(* rows and the ledger.  A fault is a transaction that raises: it is       *)
(* rolled back, and the exception takes the way the code gives it.  The    *)
(* reconciler's transactions are commits in todo like the manager's, so it *)
(* can crash half-way too.                                                 *)
(***************************************************************************)
EXTENDS RunManager

CONSTANTS
    MaxCrashes,     \* bound on crashes
    MaxFaults,      \* bound on faults in one life of the process
    RecoveryEnabled \* recovery_enabled

ASSUME FailureAssumption ==
    /\ MaxCrashes \in Nat
    /\ MaxFaults \in Nat
    /\ RecoveryEnabled \in BOOLEAN

VARIABLES
    server,         \* the process: "up", "down", or in its startup
    crashes,        \* crashes so far
    faults          \* faults in this life of the process

process == <<server, crashes, faults>>
allVars == <<vars, process>>

Servers == {"up", "down", "scan", "reconcile"}

RecoveryInit ==
    /\ Init
    /\ server = "up" /\ crashes = 0 /\ faults = 0

(* The manager runs while the server is up.                                *)
Manage(A) ==
    /\ server = "up"
    /\ A
    /\ UNCHANGED process

-----------------------------------------------------------------------------
(* Faults                                                                  *)

(* MemoryService wraps its work in a try of its own; its events are the    *)
(* only commits that may fail without the run noticing.                    *)
BestEffort ==
    /\ Head(todo).op = "emit"
    /\ Head(todo).event.type \in {"memory.recalled", "memory.written"}

(* Whatever reaches _execute finalizes the run as unexpectedly failed ...  *)
Unexpected ==
    /\ pc' = "handled"
    /\ todo' = FinalizeFailed("unexpected")
    /\ UNCHANGED <<durable, local>>

(* ... unless it is raised by one of _execute's own handlers, or by        *)
(* create_run before the run is scheduled: then the run's task is over (or *)
(* never begins) with its row as it stands.                                *)
Escapes ==
    /\ pc' = "ended"
    /\ todo' = <<>>
    /\ registered' = FALSE
    /\ UNCHANGED <<durable, cancel, plan, turn, tokens, budget>>

CommitRaises ==
    /\ todo # <<>>
    /\ \/ /\ BestEffort
          /\ todo' = Tail(todo)
          /\ UNCHANGED <<durable, pc, local>>
       \/ ~BestEffort /\ pc \notin {"register", "handled"} /\ Unexpected
       \/ pc \in {"register", "handled"} /\ Escapes

(* The executor's own events (agent.thinking and the tool calls) are appended inside  *)
(* its turn.                                                               *)
TurnRaises ==
    /\ pc = "execute"
    /\ todo = <<>>
    /\ Unexpected

Fault ==
    /\ server = "up"
    /\ faults < MaxFaults
    /\ faults' = faults + 1
    /\ CommitRaises \/ TurnRaises
    /\ UNCHANGED <<server, crashes>>

-----------------------------------------------------------------------------
(* Crash and startup                                                       *)

(* The process is gone, and with it the run's task, its cancel event and   *)
(* its budget.                                                             *)
Crash ==
    /\ server # "down"
    /\ crashes < MaxCrashes
    /\ server' = "down" /\ crashes' = crashes + 1 /\ faults' = 0
    /\ pc' = IF pc = "none" THEN "none" ELSE "ended"
    /\ todo' = <<>>
    /\ registered' = FALSE /\ cancel' = FALSE
    /\ cur' = 0 /\ last' = 0 /\ outputs' = {}
    /\ attempt' = 1 /\ output' = "good" /\ verdict' = "accept" /\ tokens' = 0
    /\ modelCalls' = 0 /\ toolCalls' = 0 /\ replansUsed' = 0
    /\ retries' = [i \in {} |-> 0]
    /\ UNCHANGED durable

Boot ==
    /\ server = "down"
    /\ server' = IF RecoveryEnabled THEN "scan" ELSE "up"
    /\ UNCHANGED <<vars, crashes, faults>>

CancelOpen       == [op |-> "cancelOpen"]
EmitCancelled(S) == [op |-> "emitCancelled", tasks |-> S]

RecoveryCommit ==
    [op : {"cancelOpen"}] \cup [op : {"emitCancelled"}, tasks : SUBSET Nat]

(* list_non_terminal.                                                      *)
Interrupted == status \notin TerminalRunStatuses \cup {"none"}

(* _reconcile_one: fold the ledger; if it holds a terminal event, the row  *)
(* catches up; otherwise the open tasks are cancelled and the run failed.  *)
Reconcile_AnyRow ==
    /\ server = "scan"
    /\ status # "none"
    /\ server' = "reconcile"
    /\ todo' = IF view.terminal
               THEN <<SetStatus(view.status)>>
               ELSE <<CancelOpen>> \o FinalizeFailed("interrupted")
    /\ UNCHANGED <<durable, pc, local, crashes, faults>>

Reconcile_KeepsTasks ==
    /\ server = "scan"
    /\ Interrupted
    /\ server' = "reconcile"
    /\ todo' = FinalizeFailed("interrupted")
    /\ UNCHANGED <<durable, pc, local, crashes, faults>>

Reconcile ==
    /\ server = "scan"
    /\ Interrupted
    /\ server' = "reconcile"
    /\ todo' = IF view.terminal
               THEN <<SetStatus(view.status)>>
               ELSE <<CancelOpen>> \o FinalizeFailed("interrupted")
    /\ UNCHANGED <<durable, pc, local, crashes, faults>>

(* Nothing to reconcile, or done with it: the server takes requests.       *)
Serve_WithoutScan ==
    /\ \/ server = "scan"
       \/ server = "reconcile" /\ todo = <<>>
    /\ server' = "up"
    /\ UNCHANGED <<vars, crashes, faults>>

Serve ==
    /\ \/ server = "scan" /\ ~Interrupted
       \/ server = "reconcile" /\ todo = <<>>
    /\ server' = "up"
    /\ UNCHANGED <<vars, crashes, faults>>

(* One bad run does not block the startup: its exception is logged.        *)
ReconcileRaises ==
    /\ server = "reconcile"
    /\ todo # <<>>
    /\ faults < MaxFaults
    /\ faults' = faults + 1
    /\ server' = "up"
    /\ todo' = <<>>
    /\ UNCHANGED <<durable, pc, local, crashes>>

(* _cancel_open_tasks: one transaction cancels every open task, and their  *)
(* events follow.                                                          *)
CommitCancelOpen ==
    /\ Pending("cancelOpen")
    /\ LET open == {i \in DOMAIN tasks : tasks[i] \in OpenTaskStatuses} IN
           /\ tasks' = [i \in DOMAIN tasks |->
                           IF i \in open THEN "cancelled" ELSE tasks[i]]
           /\ todo' = IF open = {}
                      THEN Tail(todo)
                      ELSE <<EmitCancelled(open)>> \o Tail(todo)
    /\ UNCHANGED <<pc, local, status, answer, error, attempts, view>>

CommitEmitCancelled ==
    /\ Pending("emitCancelled")
    /\ \E i \in Head(todo).tasks :
           /\ \A j \in Head(todo).tasks : i <= j
           /\ view' = FoldStep(view, TaskEvent("task.cancelled", i))
           /\ todo' = IF Head(todo).tasks = {i}
                      THEN Tail(todo)
                      ELSE <<EmitCancelled(Head(todo).tasks \ {i})>> \o Tail(todo)
    /\ UNCHANGED <<pc, local, rows>>

Recovering ==
    /\ server = "reconcile"
    /\ \/ CommitCancelOpen \/ CommitEmitCancelled
       \/ CommitStatus \/ CommitFailed \/ CommitEmit
    /\ UNCHANGED process

-----------------------------------------------------------------------------
Startup == Boot \/ Reconcile \/ Serve \/ Recovering

RecoveryNext ==
    \/ Manage(CreateRun) \/ Manage(CancelRun) \/ Manage(Execute) \/ Manage(Ended)
    \/ Fault \/ Crash \/ Startup \/ ReconcileRaises

RecoverySpec == RecoveryInit /\ [][RecoveryNext]_allVars

(* The event loop schedules the run's task while the process lives, and a  *)
(* stopped server is started again.  Nothing makes the environment crash.  *)
RecoveryFairSpec ==
    RecoverySpec /\ WF_allVars(Manage(Execute)) /\ WF_allVars(Startup)

-----------------------------------------------------------------------------
RecoveryTypeOK ==
    /\ RowsOK /\ IsReplayState(view) /\ LocalOK /\ BudgetOK
    /\ pc \in ControlPoints
    /\ todo \in Seq(Commit \cup RecoveryCommit)
    /\ registered \in BOOLEAN /\ cancel \in BOOLEAN
    /\ server \in Servers
    /\ crashes \in 0 .. MaxCrashes
    /\ faults \in 0 .. MaxFaults

(* After a startup, every run that has no task is in a terminal status,    *)
(* whatever crashed or escaped in the lives of the process before it, for  *)
(* as long as this life meets no fault (I-26).                             *)
NoOrphanRun ==
    RecoveryEnabled /\ server = "up" /\ faults = 0 /\ pc = "ended"
        => status \in TerminalRunStatuses

(* A run the reconciler failed has no open task: its tasks were closed     *)
(* before its status was.                                                  *)
InterruptedTasksClosed ==
    error = "interrupted" =>
        \A i \in DOMAIN tasks : tasks[i] \in TerminalTaskStatuses

(* Recovery does not touch a run that is finished, whatever its tasks and  *)
(* its ledger look like: "it cannot corrupt a healthy run" (ADR-0021).     *)
FinishedUntouched ==
    [][(server # "up" /\ status \in TerminalRunStatuses) => (rows' = rows)]_rows

(* Nothing the folds read follows a terminal event on the ledger: neither  *)
(* the failure of a later commit nor recovery announces a second outcome.  *)
SealedLedger == [][view.terminal => view' = view]_view

(* Every run that exists reaches a terminal status, through any number of  *)
(* crashes (I-10, I-26).                                                   *)
EventuallyTerminal ==
    status \in {"created", "planning", "running"} ~> status \in TerminalRunStatuses

-----------------------------------------------------------------------------
(* A claim of the documentation that the code does not meet                *)

(* An interrupted finalize is handled by recovery: after a restart, the    *)
(* ledger of every finished run holds its terminal event.                  *)
FinishedAnnouncedAfterRestart ==
    server = "up" /\ crashes > 0 /\ pc = "ended"
        => (status \in TerminalRunStatuses => view.terminal)
=============================================================================
