--------------------------- MODULE AgentTurnProofs ---------------------------
(***************************************************************************)
(* AgentTurn for every number of iterations and repairs and every cap: the *)
(* properties of the run "turn", and the step simulation of ComponentCall. *)
(***************************************************************************)
EXTENDS AgentTurn, TLAPS

(* What the loops leave behind at each point.  Only an executor iterates   *)
(* and calls tools; an iteration has at most one tool call, made last.     *)
LoopInv ==
    /\ pc = "done" <=> outcome # "pending"
    /\ component # "executor" =>
           pc \in {"ask", "asked", "done"} /\ iteration = 0 /\ called = 0
    /\ answered <= called
    /\ called <= iteration
    /\ pc \in {"ask", "asked"} =>
           called = answered /\ (component = "executor" => called < iteration)
    /\ pc = "iterate" => called = answered
    /\ pc \in {"charge", "tool"} => called = answered + 1

(* CancelStopsSpending by point: once cancel is set no new iteration       *)
(* begins, so what the turn may still ask for is what is left of this one. *)
SpentInv ==
    cancel =>
        /\ modelCalls - atCancel.model <=
               CASE pc = "ask"   -> repairs
                 [] pc = "asked" -> repairs + 1
                 [] OTHER        -> 1 + RepairAttempts
        /\ toolCalls - atCancel.tool <=
               IF pc \in {"ask", "asked", "charge"} THEN 0 ELSE 1

TurnInv == TypeOK /\ ToolCallsAnswered /\ LoopInv /\ SpentInv

LEMMA TurnInit == Init => TurnInv
<1> USE CapsAssumption, LoopAssumption
<1> SUFFICES ASSUME Init PROVE TurnInv
  OBVIOUS
<1>1. TypeOK
  <2>1. Counters \in [model : 0 .. MaxModelCalls, tool : 0 .. MaxToolCalls]
    BY DEF Init, Counters
  <2>2. /\ entry = Counters /\ atCancel = Counters
        /\ pc \in {"iterate", "ask"}
    BY DEF Init
  <2>3. /\ iteration \in 0 .. MaxIterations /\ repairs \in 0 .. RepairAttempts
        /\ called \in 0 .. MaxIterations /\ answered \in 0 .. MaxIterations
    BY DEF Init
  <2> QED
    BY <2>1, <2>2, <2>3, Zenon DEF Init, TypeOK
<1>2. ToolCallsAnswered
  BY DEF Init, ToolCallsAnswered, Counters
<1>3. LoopInv
  BY DEF Init, LoopInv
<1>4. SpentInv
  BY DEF Init, SpentInv
<1> QED
  BY <1>1, <1>2, <1>3, <1>4 DEF TurnInv

LEMMA TurnStep == TurnInv /\ [Next]_vars => TurnInv'
<1> USE CapsAssumption, LoopAssumption
<1> SUFFICES ASSUME TurnInv, [Next]_vars PROVE TurnInv'
  OBVIOUS
<1> USE DEF TurnInv, TypeOK, ToolCallsAnswered, LoopInv, SpentInv
<1>1. CASE CancelRun
  BY <1>1 DEF CancelRun, Counters, loop, ledger, calls
<1>2. CASE Iterate
  BY <1>2 DEF Iterate, Goto, Finish, loop, ledger, signal, calls
<1>3. CASE Ask
  BY <1>3 DEF Ask, ChargeModelCall, ModelCallsExhausted, Goto, loop, ledger, signal
<1>4. CASE AskExhausted
  BY <1>4 DEF AskExhausted, Finish, loop, ledger, signal, calls
<1>5. CASE ModelFails
  BY <1>5 DEF ModelFails, Finish, loop, ledger, signal, calls
<1>6. CASE Repair
  BY <1>6 DEF Repair, Repairable, Goto, ledger, signal, calls
<1>7. CASE GiveUp
  BY <1>7 DEF GiveUp, Finish, loop, ledger, signal, calls
<1>8. CASE ModelAnswers
  BY <1>8 DEF ModelAnswers, Finish, loop, ledger, signal, calls
<1>9. CASE EmitToolCall
  BY <1>9 DEF EmitToolCall, Goto, loop, signal, calls
<1>10. CASE ExecuteTool
  BY <1>10 DEF ExecuteTool, ChargeToolCall, ToolCallsExhausted, Goto, loop, ledger, signal
<1>11. CASE ToolExhausted
  BY <1>11 DEF ToolExhausted, ToolCallsExhausted, Finish, loop, ledger, signal, calls
<1>12. CASE ToolReturns
  BY <1>12 DEF ToolReturns, Goto, loop, signal, calls
<1>13. CASE ReplyRaises
  BY <1>13 DEF ReplyRaises, Finish, loop, ledger, signal, calls
<1>14. CASE UNCHANGED vars
  BY <1>14 DEF vars, loop, ledger, signal, calls
<1> QED
  BY <1>1, <1>2, <1>3, <1>4, <1>5, <1>6, <1>7, <1>8, <1>9, <1>10, <1>11, <1>12, <1>13,
     <1>14 DEF Next, Work

LEMMA TurnInvariant == Spec => []TurnInv
  BY TurnInit, TurnStep, PTL DEF Spec

(* No counter of the budget passes its cap and the loops keep their bounds *)
(* (types of agent/executor.py and runtime/budget.py).                     *)
THEOREM TurnTypes == Spec => []TypeOK
  BY TurnInvariant, PTL DEF TurnInv

(* Every tool call charged is in the ledger with its result, but one that  *)
(* ran into the cap (Executor._invoke_tool).                               *)
THEOREM TurnAnswersTools == Spec => []ToolCallsAnswered
  BY TurnInvariant, PTL DEF TurnInv

(* After a cancel request the turn spends at most one iteration's calls.   *)
THEOREM TurnStopsSpending == Spec => []CancelStopsSpending
<1>1. TurnInv => CancelStopsSpending
  BY CapsAssumption, LoopAssumption DEF TurnInv, TypeOK, SpentInv, CancelStopsSpending
<1> QED
  BY <1>1, TurnInvariant, PTL

-----------------------------------------------------------------------------
(* What i iterations of an executor may charge.  Kept folded below, so     *)
(* that no leaf has a product to multiply out.                             *)
Turns(i) == i * (1 + RepairAttempts)

LEMMA TurnsOf ==
    /\ Turns(0) = 0
    /\ \A i \in Nat : /\ Turns(i) \in Nat
                      /\ Turns(i + 1) = Turns(i) + 1 + RepairAttempts
<1>1. 1 + RepairAttempts \in Nat
  BY LoopAssumption
<1>2. \A i, k \in Nat : i * k \in Nat /\ 0 * k = 0 /\ (i + 1) * k = i * k + k
  OBVIOUS
<1> QED
  BY <1>1, <1>2, LoopAssumption DEF Turns

LEMMA TurnsGrow ==
    ASSUME NEW i \in Nat, NEW j \in Nat, i <= j
    PROVE  Turns(i) <= Turns(j)
<1>1. 1 + RepairAttempts \in Nat
  BY LoopAssumption
<1>2. \A a, b, k \in Nat : a <= b => a * k <= b * k
  OBVIOUS
<1> QED
  BY <1>1, <1>2 DEF Turns

Charged == modelCalls - entry.model

(* What the turn has charged at each point, in iterations and repairs.     *)
ChargeInv ==
    /\ pc # "done" =>
           /\ called <= Charged
           /\ component \in {"synthesizer", "distiller"} => repairs = 0
    /\ pc = "ask" =>
           IF component = "executor"
           THEN called = iteration - 1 /\ Charged <= Turns(iteration - 1) + repairs
           ELSE Charged <= repairs
    /\ pc = "asked" =>
           /\ called < Charged
           /\ IF component = "executor"
              THEN called = iteration - 1 /\ Charged <= Turns(iteration - 1) + repairs + 1
              ELSE Charged <= repairs + 1
    /\ pc \in {"iterate", "charge", "tool"} =>
           called = iteration /\ Charged <= Turns(iteration)

LEMMA ChargeInit == Init => ChargeInv
<1> SUFFICES ASSUME Init PROVE ChargeInv
  OBVIOUS
<1>1. Charged = 0 /\ called = 0 /\ iteration = 0 /\ repairs = 0
  BY CapsAssumption DEF Init, Charged, Counters
<1>2. Turns(0) = 0
  BY TurnsOf
<1> QED
  BY <1>1, <1>2 DEF Init, ChargeInv

LEMMA ChargeStep == TurnInv /\ ChargeInv /\ [Next]_vars => ChargeInv'
<1> USE CapsAssumption, LoopAssumption
<1> SUFFICES ASSUME TurnInv, ChargeInv, [Next]_vars PROVE ChargeInv'
  OBVIOUS
<1> USE DEF ChargeInv, Charged, TurnInv, TypeOK, LoopInv
<1>0. /\ iteration \in Nat
      /\ iteration # 0 => /\ Turns(iteration - 1) \in Nat
                          /\ Turns(iteration) = Turns(iteration - 1) + 1 + RepairAttempts
  BY TurnsOf
<1>1. CASE CancelRun
  BY <1>1 DEF CancelRun, loop, ledger, calls
<1>2. CASE Iterate
  BY <1>2, TurnsOf DEF Iterate, Goto, Finish, loop, ledger, signal, calls
<1>3. CASE Ask
  BY <1>3, <1>0 DEF Ask, ChargeModelCall, ModelCallsExhausted, Goto, loop, ledger, signal
<1>4. CASE AskExhausted \/ ModelFails \/ GiveUp \/ ModelAnswers \/ ReplyRaises
           \/ ToolExhausted
  BY <1>4 DEF AskExhausted, ModelFails, GiveUp, ModelAnswers, ReplyRaises, ToolExhausted,
              Finish
<1>5. CASE Repair
  BY <1>5, <1>0 DEF Repair, Repairable, Goto, ledger, signal, calls
<1>6. CASE EmitToolCall
  BY <1>6, <1>0 DEF EmitToolCall, Goto, loop, signal, calls
<1>7. CASE ExecuteTool
  BY <1>7 DEF ExecuteTool, ChargeToolCall, Goto, loop, ledger, signal
<1>8. CASE ToolReturns
  BY <1>8 DEF ToolReturns, Goto, loop, signal, calls
<1>9. CASE UNCHANGED vars
  BY <1>9 DEF vars, loop, ledger, signal, calls
<1> QED
  BY <1>1, <1>2, <1>3, <1>4, <1>5, <1>6, <1>7, <1>8, <1>9 DEF Next, Work

-----------------------------------------------------------------------------
(* The step simulation.  The abstract counters are those of the entry      *)
(* while the turn is under way, so only its last step is a step of         *)
(* ComponentCall; every other one is a stutter or the cancel request.      *)

CallModel == IF outcome = "pending" THEN entry.model ELSE modelCalls
CallTool  == IF outcome = "pending" THEN entry.tool ELSE toolCalls

LEMMA CallInit == Init => Call!Init
  BY DEF Init, Counters, Call!Init, Call!Components

(* A turn under way has charged no more than its longest turn's calls: at  *)
(* its next question, less.                                                *)
LEMMA UnderWay ==
    ASSUME TurnInv, ChargeInv, outcome = "pending"
    PROVE  LET k == Call!ModelCallsOf(component)
               t == Call!ToolCallsOf(component)
           IN  /\ k \in Nat /\ t \in Nat
               /\ Charged \in 0 .. k
               /\ toolCalls - entry.tool \in 0 .. t
               /\ toolCalls - entry.tool <= Charged
               /\ pc = "ask" => Charged < k
               /\ pc = "asked" => Charged >= 1
               /\ pc = "charge" => /\ toolCalls - entry.tool < t
                                   /\ toolCalls - entry.tool < Charged
<1> USE CapsAssumption, LoopAssumption
<1> USE DEF TurnInv, TypeOK, LoopInv, ToolCallsAnswered, ChargeInv, Charged
<1>1. CASE component = "executor"
  <2>1. Call!ModelCallsOf(component) = Turns(MaxIterations)
    BY <1>1 DEF Call!ModelCallsOf, Turns
  <2>2. Call!ToolCallsOf(component) = MaxIterations
    BY <1>1 DEF Call!ToolCallsOf
  <2>3. Turns(MaxIterations) \in Nat /\ Turns(iteration) \in Nat
    BY TurnsOf
  <2>4. Turns(iteration) <= Turns(MaxIterations)
    BY TurnsGrow
  <2>5. iteration # 0 => /\ Turns(iteration - 1) \in Nat
                         /\ Turns(iteration) = Turns(iteration - 1) + 1 + RepairAttempts
    BY TurnsOf
  <2>6. toolCalls - entry.tool = answered + (IF pc = "tool" THEN 1 ELSE 0)
    OBVIOUS
  <2>7. /\ toolCalls - entry.tool \in 0 .. MaxIterations
        /\ toolCalls - entry.tool <= Charged
        /\ pc = "charge" => /\ toolCalls - entry.tool < MaxIterations
                            /\ toolCalls - entry.tool < Charged
    BY <1>1, <2>6
  <2>8. /\ Charged \in 0 .. Turns(MaxIterations)
        /\ pc = "ask" => Charged < Turns(MaxIterations)
        /\ pc = "asked" => Charged >= 1
    BY <1>1, <2>3, <2>4, <2>5
  <2> QED
    BY <2>1, <2>2, <2>3, <2>7, <2>8
<1>2. CASE component # "executor"
  <2>1. /\ Call!ModelCallsOf(component) =
               IF component \in {"planner", "reflector"} THEN 1 + RepairAttempts ELSE 1
        /\ Call!ToolCallsOf(component) = 0
    BY <1>2 DEF Call!ModelCallsOf, Call!ToolCallsOf
  <2> QED
    BY <1>2, <2>1
<1> QED
  BY <1>1, <1>2

(* The last step of a turn: what it has charged fits a call that returns,  *)
(* or, at a cap, one that raises.                                          *)
LEMMA LastStep ==
    ASSUME TurnInv, ChargeInv, outcome = "pending", outcome' # "pending",
           UNCHANGED <<component, entry, calls>>
    PROVE  LET k == Call!ModelCallsOf(component)
               t == Call!ToolCallsOf(component)
           IN  /\ Call!Spend(k, t)
               /\ Charged >= 1 => Call!SpendSome(k, t)
               /\ pc = "ask" /\ ModelCallsExhausted => Call!Exhaust(k, t)
               /\ pc = "charge" /\ ToolCallsExhausted => Call!Exhaust(k, t)
<1> DEFINE k == Call!ModelCallsOf(component)
           t == Call!ToolCallsOf(component)
           m == modelCalls - entry.model
           n == toolCalls - entry.tool
<1> USE CapsAssumption
<1>1. /\ k \in Nat /\ t \in Nat /\ m \in 0 .. k /\ n \in 0 .. t /\ n <= m
      /\ pc = "ask" => m < k
      /\ pc = "charge" => n < t /\ n < m
  BY UnderWay DEF Charged
<1>2. /\ modelCalls \in 0 .. MaxModelCalls /\ toolCalls \in 0 .. MaxToolCalls
      /\ entry.model \in 0 .. MaxModelCalls /\ entry.tool \in 0 .. MaxToolCalls
  BY DEF TurnInv, TypeOK
<1>3. modelCalls' = entry.model + m /\ toolCalls' = entry.tool + n
  BY <1>2 DEF calls
<1> HIDE DEF k, t
<1>4. Call!Spend(k, t)
  BY <1>1, <1>2, <1>3 DEF Call!Spend
<1>5. Charged >= 1 => Call!SpendSome(k, t)
  BY <1>2, <1>3, <1>4 DEF Call!SpendSome, Charged
<1>6. ASSUME pc = "ask", ModelCallsExhausted PROVE Call!Exhaust(k, t)
  BY <1>1, <1>2, <1>3, <1>6 DEF Call!Exhaust, ModelCallsExhausted
<1>7. ASSUME pc = "charge", ToolCallsExhausted PROVE Call!Exhaust(k, t)
  BY <1>1, <1>2, <1>3, <1>7 DEF Call!Exhaust, ToolCallsExhausted
<1> QED
  BY <1>4, <1>5, <1>6, <1>7 DEF k, t

LEMMA CallStep == TurnInv /\ ChargeInv /\ [Next]_vars => [Call!Next]_(Call!vars)
<1> SUFFICES ASSUME TurnInv, ChargeInv, [Next]_vars
             PROVE  Call!Next \/ UNCHANGED Call!vars
  OBVIOUS
<1> DEFINE k == Call!ModelCallsOf(component)
           t == Call!ToolCallsOf(component)
<1>1. CASE CancelRun
  BY <1>1 DEF CancelRun, Call!Next, Call!CancelRun, Call!calls, calls
<1>2. CASE outcome = "pending" /\ outcome' = "pending"
           /\ UNCHANGED <<component, entry, cancel>>
  BY <1>2 DEF Call!vars, Call!calls
<1>3. CASE UNCHANGED vars
  BY <1>3 DEF vars, calls, signal, Call!vars, Call!calls
<1>4. CASE (\E next \in {"ask", "asked", "charge", "tool", "iterate"} : Goto(next))
           /\ pc # "done"
  BY <1>2, <1>4 DEF Goto, signal, TurnInv, LoopInv
<1>5. CASE Iterate
  <2>1. CASE iteration = MaxIterations /\ Finish("failed")
    <3>1. /\ component = "executor" /\ outcome = "pending" /\ Charged >= 1
          /\ UNCHANGED <<component, entry, cancel, calls>> /\ outcome' = "failed"
      BY <1>5, <2>1, LoopAssumption
         DEF Iterate, Finish, signal, TurnInv, TypeOK, LoopInv, ChargeInv, Charged
    <3>2. Call!SpendSome(k, t)
      BY <3>1, LastStep
    <3> QED
      BY <3>1, <3>2 DEF Call!Next, Call!End, Call!Fails, Call!Ends
  <2>2. CASE cancel /\ Finish("cancelled")
    <3>1. /\ component = "executor" /\ outcome = "pending"
          /\ UNCHANGED <<component, entry, cancel, calls>> /\ outcome' = "cancelled"
      BY <1>5, <2>2 DEF Iterate, Finish, signal, TurnInv, LoopInv
    <3>2. Call!Spend(k, t)
      BY <3>1, LastStep
    <3> QED
      BY <2>2, <3>1, <3>2 DEF Call!Next, Call!End, Call!SeesCancel, Call!Ends
  <2> QED
    BY <1>4, <1>5, <2>1, <2>2 DEF Iterate
<1>6. CASE AskExhausted
  <2>1. /\ outcome = "pending" /\ pc = "ask" /\ ModelCallsExhausted
        /\ UNCHANGED <<component, entry, cancel, calls>>
        /\ outcome' = IF component = "distiller" THEN "returned" ELSE "exhausted"
    BY <1>6 DEF AskExhausted, Finish, signal, TurnInv, LoopInv
  <2>2. Call!Spend(k, t) /\ Call!Exhaust(k, t)
    BY <2>1, LastStep
  <2>3. component = "distiller" => t = 0
    BY DEF Call!ToolCallsOf
  <2> QED
    BY <2>1, <2>2, <2>3
       DEF Call!Next, Call!End, Call!Returns, Call!Exhausts, Call!Ends
<1>7. CASE ModelFails \/ GiveUp \/ ModelAnswers \/ ReplyRaises
  <2>1. /\ outcome = "pending" /\ pc = "asked"
        /\ UNCHANGED <<component, entry, cancel, calls>>
        /\ \/ outcome' = "returned"
           \/ outcome' = "failed" /\ component \in {"planner", "executor", "synthesizer"}
           \/ outcome' = "raised" /\ component \in {"planner", "executor", "reflector"}
    BY <1>7 DEF ModelFails, GiveUp, ModelAnswers, ReplyRaises, Finish, signal, TurnInv, TypeOK, LoopInv
  <2>2. Charged >= 1
    BY <2>1, UnderWay
  <2>3. Call!Spend(k, t) /\ Call!SpendSome(k, t)
    BY <2>1, <2>2, LastStep
  <2>4. component = "distiller" => t = 0
    BY DEF Call!ToolCallsOf
  <2> QED
    BY <2>1, <2>3, <2>4 DEF Call!Next, Call!End, Call!Returns, Call!Fails, Call!Raises,
                        Call!Ends
<1>8. CASE ToolExhausted
  <2>1. /\ outcome = "pending" /\ pc = "charge" /\ ToolCallsExhausted
        /\ component = "executor"
        /\ UNCHANGED <<component, entry, cancel, calls>> /\ outcome' = "exhausted"
    BY <1>8 DEF ToolExhausted, Finish, signal, TurnInv, LoopInv
  <2>2. Call!Exhaust(k, t)
    BY <2>1, LastStep
  <2> QED
    BY <2>1, <2>2 DEF Call!Next, Call!End, Call!Exhausts, Call!Ends
<1>9. CASE Ask \/ Repair \/ EmitToolCall \/ ExecuteTool \/ ToolReturns
  BY <1>4, <1>9 DEF Ask, Repair, EmitToolCall, ExecuteTool, ToolReturns
<1> QED
  BY <1>1, <1>3, <1>5, <1>6, <1>7, <1>8, <1>9 DEF Next, Work

(* A turn is one step of ComponentCall, whatever the model answers and     *)
(* however much the budget has left: what RunManager assumes of the        *)
(* components, but for their ending.                                       *)
THEOREM TurnImplementsCall == Spec => Call!Init /\ [][Call!Next]_(Call!vars)
<1>1. Init => ChargeInv
  BY ChargeInit
<1>2. TurnInv /\ ChargeInv /\ [Next]_vars => ChargeInv'
  BY ChargeStep
<1>3. TurnInv /\ ChargeInv /\ [Next]_vars => [Call!Next]_(Call!vars)
  BY CallStep
<1> QED
  BY <1>1, <1>2, <1>3, CallInit, TurnInvariant, PTL DEF Spec

=============================================================================
