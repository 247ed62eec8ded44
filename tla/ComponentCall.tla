---------------------------- MODULE ComponentCall ----------------------------
(***************************************************************************)
(* What a call of an agent component promises the run that awaits it: one  *)
(* step, in which it returns, fails, raises what nobody expects, sees a    *)
(* cancellation or runs into the budget, having charged no more than its   *)
(* longest turn.  These are the outcomes the actions of RunManager take    *)
(* for granted.                                                            *)
(***************************************************************************)
EXTENDS Budget

CONSTANTS
    MaxIterations,  \* agent_max_iterations
    RepairAttempts  \* agent_repair_attempts

VARIABLES component, cancel, outcome

Components == {"planner", "executor", "reflector", "synthesizer", "distiller"}
Outcomes   == {"pending", "returned", "failed", "cancelled", "exhausted", "raised"}

(* The most calls one turn makes: a malformed answer is asked for again,   *)
(* and an executor goes round its loop.                                    *)
ModelCallsOf(c) ==
    CASE c = "executor" -> MaxIterations * (1 + RepairAttempts)
      [] c \in {"planner", "reflector"} -> 1 + RepairAttempts
      [] c \in {"synthesizer", "distiller"} -> 1

ToolCallsOf(c) == IF c = "executor" THEN MaxIterations ELSE 0

vars == <<component, cancel, outcome, calls>>

Init ==
    /\ component \in Components
    /\ cancel = FALSE
    /\ outcome = "pending"
    /\ modelCalls \in 0 .. MaxModelCalls
    /\ toolCalls \in 0 .. MaxToolCalls

CancelRun ==
    /\ outcome = "pending"
    /\ cancel' = TRUE
    /\ UNCHANGED <<component, outcome, calls>>

Ends(o) ==
    /\ outcome = "pending"
    /\ outcome' = o
    /\ UNCHANGED <<component, cancel>>

(* Distilling a memory is best-effort: it returns even if no call is left. *)
Returns ==
    /\ Ends("returned")
    /\ IF component = "distiller"
       THEN Spend(ModelCallsOf(component), 0)
       ELSE SpendSome(ModelCallsOf(component), ToolCallsOf(component))

(* Its own error or the provider's (PlannerError, ExecutorError, LLMError), *)
(* which RunManager expects of it.  A reflector accepts instead.           *)
Fails ==
    /\ component \in {"planner", "executor", "synthesizer"}
    /\ Ends("failed")
    /\ SpendSome(ModelCallsOf(component), ToolCallsOf(component))

(* Any other exception, out of the parsing of a reply: a component that    *)
(* parses what it is told may raise it, unless it is best-effort.          *)
Raises ==
    /\ component \in {"planner", "executor", "reflector"}
    /\ Ends("raised")
    /\ SpendSome(ModelCallsOf(component), ToolCallsOf(component))

SeesCancel ==
    /\ component = "executor"
    /\ cancel
    /\ Ends("cancelled")
    /\ Spend(ModelCallsOf(component), ToolCallsOf(component))

Exhausts ==
    /\ component # "distiller"
    /\ Ends("exhausted")
    /\ Exhaust(ModelCallsOf(component), ToolCallsOf(component))

End == Returns \/ Fails \/ Raises \/ SeesCancel \/ Exhausts

Next == CancelRun \/ End

FairSpec == Init /\ [][Next]_vars /\ WF_vars(End)

=============================================================================
