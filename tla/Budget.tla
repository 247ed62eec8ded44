------------------------------- MODULE Budget -------------------------------
(***************************************************************************)
(* The hard caps of runtime/budget.py: every model and tool call of a run  *)
(* is charged to one RunBudget before it is made, and a charge at the cap  *)
(* raises BudgetExceeded instead.  Shared by AgentTurn, which charges call *)
(* by call, and RunManager, which sees what a whole turn has charged.      *)
(***************************************************************************)
EXTENDS Naturals

CONSTANTS
    MaxModelCalls,  \* agent_max_model_calls: hard cap, whole run
    MaxToolCalls    \* agent_max_tool_calls: hard cap, whole run

ASSUME CapsAssumption ==
    /\ MaxModelCalls \in Nat \ {0}
    /\ MaxToolCalls \in Nat \ {0}

VARIABLES modelCalls, toolCalls

calls == <<modelCalls, toolCalls>>

(* One charge, and whether it raises.                                      *)
ModelCallsExhausted == modelCalls >= MaxModelCalls

ChargeModelCall ==
    /\ ~ModelCallsExhausted
    /\ modelCalls' = modelCalls + 1
    /\ UNCHANGED toolCalls

ToolCallsExhausted == toolCalls >= MaxToolCalls

ChargeToolCall ==
    /\ ~ToolCallsExhausted
    /\ toolCalls' = toolCalls + 1
    /\ UNCHANGED modelCalls

(* A component call that returns, after at most k model and t tool calls.  *)
Spend(k, t) ==
    \E m \in 0 .. k, n \in 0 .. t :
        /\ n <= m
        /\ modelCalls + m <= MaxModelCalls
        /\ toolCalls + n <= MaxToolCalls
        /\ modelCalls' = modelCalls + m
        /\ toolCalls' = toolCalls + n

(* ... and one that makes at least one model call.                         *)
SpendSome(k, t) ==
    Spend(k, t) /\ modelCalls' > modelCalls

(* A component call that raises BudgetExceeded: one of its charges finds   *)
(* its counter at the cap.                                                 *)
Exhaust(k, t) ==
    \/ /\ modelCalls + k > MaxModelCalls
       /\ modelCalls' = MaxModelCalls
       /\ \E n \in 0 .. t : toolCalls + n <= MaxToolCalls
                            /\ n <= MaxModelCalls - modelCalls
                            /\ toolCalls' = toolCalls + n
    \/ /\ toolCalls + t > MaxToolCalls
       /\ toolCalls' = MaxToolCalls
       /\ \E m \in 1 .. k : modelCalls + m <= MaxModelCalls
                            /\ MaxToolCalls - toolCalls < m
                            /\ modelCalls' = modelCalls + m
=============================================================================
