------------------------------ MODULE AgentTurn ------------------------------
(***************************************************************************)
(* One call of an agent component, call by call: the ReAct loop of         *)
(* agent/executor.py, and the single question with repairs that the        *)
(* planner, the reflector, the synthesizer and the memory distillation     *)
(* ask.  Each model and tool call is charged to the run's budget first.    *)
(* It implements ComponentCall, the one step RunManager makes of it.       *)
(***************************************************************************)
EXTENDS Budget

CONSTANTS
    MaxIterations,  \* agent_max_iterations
    RepairAttempts  \* agent_repair_attempts

ASSUME LoopAssumption ==
    /\ MaxIterations \in Nat \ {0}
    /\ RepairAttempts \in Nat

VARIABLES
    component,      \* which component was called
    entry,          \* the counters of the budget when it was called
    pc,             \* what it does next, or awaits
    iteration,      \* iterations begun, of the executor
    repairs,        \* repairs asked for in this iteration
    called,         \* tool.call events of this turn
    answered,       \* tool.result events of this turn
    cancel,         \* the run's cancel event
    atCancel,       \* the counters when it was set
    outcome

loop   == <<iteration, repairs>>
ledger == <<called, answered>>
signal == <<cancel, atCancel>>
vars   == <<component, entry, pc, loop, ledger, signal, outcome, calls>>

Counters == [model |-> modelCalls, tool |-> toolCalls]

Init ==
    /\ component \in {"planner", "executor", "reflector", "synthesizer", "distiller"}
    /\ modelCalls \in 0 .. MaxModelCalls
    /\ toolCalls \in 0 .. MaxToolCalls
    /\ entry = Counters
    /\ pc = IF component = "executor" THEN "iterate" ELSE "ask"
    /\ iteration = 0 /\ repairs = 0
    /\ called = 0 /\ answered = 0
    /\ cancel = FALSE /\ atCancel = Counters
    /\ outcome = "pending"

Goto(next) ==
    /\ pc' = next
    /\ UNCHANGED <<component, entry, signal, outcome>>

Finish(o) ==
    /\ pc' = "done"
    /\ outcome' = o
    /\ UNCHANGED <<component, entry, signal, loop>>

CancelRun ==
    /\ outcome = "pending"
    /\ cancel' = TRUE
    /\ atCancel' = IF cancel THEN atCancel ELSE Counters
    /\ UNCHANGED <<component, entry, pc, loop, ledger, outcome, calls>>

(* The head of the executor's loop: out of iterations, cancelled, or on.   *)
Iterate_ChecksFirstOnly ==
    /\ pc = "iterate"
    /\ \/ iteration = MaxIterations /\ Finish("failed")
       \/ iteration = 0 /\ cancel /\ Finish("cancelled")
       \/ /\ iteration < MaxIterations
          /\ iteration = 0 => ~cancel
          /\ iteration' = iteration + 1
          /\ repairs' = 0
          /\ Goto("ask")
    /\ UNCHANGED <<ledger, calls>>

Iterate ==
    /\ pc = "iterate"
    /\ \/ iteration = MaxIterations /\ Finish("failed")
       \/ iteration < MaxIterations /\ cancel /\ Finish("cancelled")
       \/ /\ iteration < MaxIterations /\ ~cancel
          /\ iteration' = iteration + 1
          /\ repairs' = 0
          /\ Goto("ask")
    /\ UNCHANGED <<ledger, calls>>

(* BudgetedGateway.complete: charge, then ask the model.                   *)
Ask ==
    /\ pc = "ask"
    /\ ChargeModelCall
    /\ Goto("asked")
    /\ UNCHANGED <<loop, ledger>>

(* The distillation takes an exhausted budget, like any failure, for a     *)
(* reason to fall back on its heuristic.                                   *)
AskExhausted ==
    /\ pc = "ask"
    /\ ModelCallsExhausted
    /\ Finish(IF component = "distiller" THEN "returned" ELSE "exhausted")
    /\ UNCHANGED <<ledger, calls>>

(* The provider fails (LLMError).  The reflector accepts, the distillation *)
(* falls back, the others let it pass.                                     *)
ModelFails ==
    /\ pc = "asked"
    /\ Finish(IF component \in {"reflector", "distiller"} THEN "returned" ELSE "failed")
    /\ UNCHANGED <<ledger, calls>>

(* An answer that cannot be parsed is asked for again while repairs last.  *)
Repairable_OneMore ==
    component \in {"planner", "executor", "reflector"} /\ repairs <= RepairAttempts

Repairable ==
    component \in {"planner", "executor", "reflector"} /\ repairs < RepairAttempts

Repair ==
    /\ pc = "asked"
    /\ Repairable
    /\ repairs' = repairs + 1
    /\ Goto("ask")
    /\ UNCHANGED <<iteration, ledger, calls>>

(* Repairs are used up: no plan; but the executor takes the text for an    *)
(* answer and the reflector accepts.                                       *)
GiveUp ==
    /\ pc = "asked"
    /\ component \in {"planner", "executor", "reflector"}
    /\ ~Repairable
    /\ Finish(IF component = "planner" THEN "failed" ELSE "returned")
    /\ UNCHANGED <<ledger, calls>>

(* A plan, a verdict, a text, or the executor's finish.                    *)
ModelAnswers ==
    /\ pc = "asked"
    /\ Finish("returned")
    /\ UNCHANGED <<ledger, calls>>

(* Parsing the reply may raise what no caller of the parser handles: a     *)
(* plain ValueError of json.loads, of which JSONDecodeError alone is       *)
(* caught, or the OverflowError of a huge confidence.  Only the            *)
(* distillation survives it.                                               *)
ReplyRaises ==
    /\ pc = "asked"
    /\ component \in {"planner", "executor", "reflector"}
    /\ Finish("raised")
    /\ UNCHANGED <<ledger, calls>>

(* The executor's action names a tool: tool.call is in the ledger before   *)
(* BudgetedToolRegistry charges the call.                                  *)
EmitToolCall ==
    /\ pc = "asked"
    /\ component = "executor"
    /\ called' = called + 1
    /\ Goto("charge")
    /\ UNCHANGED <<loop, answered, calls>>

ExecuteTool ==
    /\ pc = "charge"
    /\ ChargeToolCall
    /\ Goto("tool")
    /\ UNCHANGED <<loop, ledger>>

ToolExhausted ==
    /\ pc = "charge"
    /\ ToolCallsExhausted
    /\ Finish("exhausted")
    /\ UNCHANGED <<ledger, calls>>

(* Whatever the tool does, unknown, timed out or raising, is an            *)
(* observation.                                                            *)
ToolReturns_Raising ==
    /\ pc = "tool"
    /\ \/ answered' = answered + 1 /\ Goto("iterate") /\ UNCHANGED loop
       \/ Finish("failed") /\ UNCHANGED answered
    /\ UNCHANGED <<called, calls>>

ToolReturns ==
    /\ pc = "tool"
    /\ answered' = answered + 1
    /\ Goto("iterate")
    /\ UNCHANGED <<loop, called, calls>>

Work ==
    \/ Iterate \/ Ask \/ AskExhausted \/ ModelFails \/ Repair \/ GiveUp
    \/ ModelAnswers \/ ReplyRaises \/ EmitToolCall \/ ExecuteTool \/ ToolExhausted \/ ToolReturns

Next == CancelRun \/ Work

Spec == Init /\ [][Next]_vars

(* Model and tool calls have timeouts and the event loop goes on.          *)
FairSpec == Spec /\ WF_vars(Work)

-----------------------------------------------------------------------------
(* Types, the caps included.                                               *)
TypeOK ==
    /\ component \in {"planner", "executor", "reflector", "synthesizer", "distiller"}
    /\ entry \in [model : 0 .. MaxModelCalls, tool : 0 .. MaxToolCalls]
    /\ atCancel \in [model : 0 .. MaxModelCalls, tool : 0 .. MaxToolCalls]
    /\ pc \in {"iterate", "ask", "asked", "charge", "tool", "done"}
    /\ iteration \in 0 .. MaxIterations
    /\ repairs \in 0 .. RepairAttempts
    /\ called \in 0 .. MaxIterations /\ answered \in 0 .. MaxIterations
    /\ cancel \in BOOLEAN
    /\ outcome \in {"pending", "returned", "failed", "cancelled", "exhausted", "raised"}
    /\ modelCalls \in 0 .. MaxModelCalls
    /\ toolCalls \in 0 .. MaxToolCalls

(* The ledger accounts for the budget: every tool call charged has its     *)
(* tool.call and, once it is over, its tool.result; a call without result  *)
(* is left only by a turn that ran into the cap on tool calls.             *)
ToolCallsAnswered ==
    /\ toolCalls - entry.tool = answered + (IF pc = "tool" THEN 1 ELSE 0)
    /\ called \in {answered, answered + 1}
    /\ called # answered =>
           \/ pc \in {"charge", "tool"}
           \/ outcome = "exhausted" /\ toolCalls = MaxToolCalls

(* A cancelled run spends little more: from the moment cancel is set, the  *)
(* turn makes at most one iteration's calls, whatever the model answers.   *)
CancelStopsSpending ==
    cancel => /\ modelCalls - atCancel.model <= 1 + RepairAttempts
              /\ toolCalls - atCancel.tool <= 1

(* To the run the whole turn is one step of ComponentCall, with the calls  *)
(* charged when it ends.                                                   *)
Call ==
    INSTANCE ComponentCall
        WITH modelCalls <- IF outcome = "pending" THEN entry.model ELSE modelCalls,
             toolCalls  <- IF outcome = "pending" THEN entry.tool ELSE toolCalls

(* The turn ends, and the way it ends and what it has charged by then are  *)
(* what RunManager expects of the component.                               *)
ImplementsCall == Call!FairSpec

=============================================================================
