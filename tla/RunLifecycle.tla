---------------------------- MODULE RunLifecycle ----------------------------
(***************************************************************************)
(* What a run promises to the clients of the API, with nothing of how it   *)
(* is executed: the lifecycle of RunStatus, and one terminal announcement  *)
(* on the ledger.                                                          *)
(*                                                                         *)
(*   - A run goes created, planning, running, and ends done, failed or     *)
(*     cancelled; it is done only after it was running.                    *)
(*   - A terminal status is final, and so are the answer and the outcome   *)
(*     that come with it: full with done, none or a partial with failed,   *)
(*     none with cancelled.                                                *)
(*   - The outcome is announced once, after it is stored, as it is stored. *)
(*   - A run that exists is eventually finished and announced.             *)
(***************************************************************************)
EXTENDS Ledger

VARIABLES
    status,     \* what GET /runs/{id} reports; "none" before the run exists
    answer,     \* the answer it reports
    announced   \* the outcome its terminal event names, "none" before it

vars == <<status, answer, announced>>

Init == status = "none" /\ answer = "none" /\ announced = "none"

Create ==
    /\ status = "none"
    /\ status' = "created"
    /\ UNCHANGED <<answer, announced>>

Progress ==
    /\ \/ status = "created" /\ status' = "planning"
       \/ status = "planning" /\ status' = "running"
    /\ UNCHANGED <<answer, announced>>

(* A partial answer is stored before the failure it goes with.             *)
KeepPartial ==
    /\ status = "running"
    /\ answer = "none"
    /\ answer' = "partial"
    /\ UNCHANGED <<status, announced>>

Finish ==
    /\ \/ /\ status = "running" /\ answer = "none"
          /\ status' = "done" /\ answer' = "full"
       \/ /\ status \in {"planning", "running"}
          /\ status' = "failed" /\ UNCHANGED answer
       \/ /\ status \in {"planning", "running"} /\ answer = "none"
          /\ status' = "cancelled" /\ UNCHANGED answer
    /\ UNCHANGED announced

Announce ==
    /\ status \in TerminalRunStatuses
    /\ announced = "none"
    /\ announced' = status
    /\ UNCHANGED <<status, answer>>

Next == Create \/ Progress \/ KeepPartial \/ Finish \/ Announce

Spec == Init /\ [][Next]_vars

FairSpec == Spec /\ WF_vars(Progress \/ KeepPartial \/ Finish) /\ WF_vars(Announce)
=============================================================================
