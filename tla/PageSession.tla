----------------------------- MODULE PageSession -----------------------------
(***************************************************************************)
(* The run page over several runs (frontend/components/RunPage.tsx with    *)
(* the hook useRunStream): the user submits a goal, the page follows that  *)
(* run to its end, and goes on to the next one.                            *)
(*                                                                         *)
(* Each run the page shows has one effect of the hook, whose closure holds *)
(* one socket or one retry timer at a time; lastSeqRef and closedRef are   *)
(* shared by all of them.  So a connection is named by its run.  The       *)
(* server is what EventStream shows it to be: it sends the events after    *)
(* the cursor in order, each once, and closes after the terminal one.      *)
(***************************************************************************)
EXTENDS Naturals, Sequences

CONSTANTS
    MaxRuns,    \* bound on runs created
    MaxEvents,  \* length of a finished run's ledger
    MaxCuts     \* bound on connections cut

ASSUME SessionAssumption ==
    MaxRuns \in Nat \ {0} /\ MaxEvents \in Nat \ {0} /\ MaxCuts \in Nat

Runs == 1 .. MaxRuns

(* The n-th event of run r.  The last one is terminal; the others set the  *)
(* status to planning or running, as run.started and task.started do.      *)
EventOf(r, n) == [run |-> r, seq |-> n]
Terminal(e) == e.seq = MaxEvents

VARIABLES
    \* The server.
    created,    \* runs created so far: 1 .. created
    ledger,     \* by run: its number of durable events
    \* The effects of useRunStream, by run.
    conn,       \* "none", "open", "shut" by the other side, "closing" by the
                \* page, "timer" before it reconnects, or "done"
    sent,       \* the last event sent on its socket
    wire,       \* the events under way on it
    cuts,
    \* The page.
    request,    \* createRun: "none", "sent", or "answered"
    runId,      \* the run it shows, 0 before the first
    left,       \* the user has left it
    cursor,     \* lastSeqRef
    closed,     \* closedRef
    active,     \* the status it shows is not terminal
    applied,    \* the events given to reduceEvent since INITIAL
    \* Auxiliary: runs whose socket was reopened after their effect's cleanup.
    revived

server == <<created, ledger>>
sockets == <<conn, sent, wire>>
page == <<request, runId, left, cursor, closed, active, applied>>
vars == <<server, sockets, cuts, page, revived>>

ConnStates == {"none", "open", "shut", "closing", "timer", "done"}

Init ==
    /\ created = 0 /\ ledger = [r \in Runs |-> 0]
    /\ conn = [r \in Runs |-> "none"]
    /\ sent = [r \in Runs |-> 0]
    /\ wire = [r \in Runs |-> <<>>]
    /\ cuts = 0
    /\ request = "none" /\ runId = 0 /\ left = FALSE
    /\ cursor = 0 /\ closed = FALSE /\ active = FALSE /\ applied = <<>>
    /\ revived = {}

-----------------------------------------------------------------------------
(* The server                                                              *)

AppendEvent(r) ==
    /\ r \in 1 .. created
    /\ ledger[r] < MaxEvents
    /\ ledger' = [ledger EXCEPT ![r] = @ + 1]
    /\ UNCHANGED <<created, sockets, cuts, page, revived>>

(* After a terminal event the handler closes the socket; what it has sent  *)
(* still arrives.  A cursor behind the terminal event leaves it waiting.   *)
Send(r) ==
    /\ conn[r] = "open"
    /\ sent[r] < ledger[r]
    /\ LET e == EventOf(r, sent[r] + 1) IN
           /\ wire' = [wire EXCEPT ![r] = Append(@, e)]
           /\ conn' = IF Terminal(e) THEN [conn EXCEPT ![r] = "shut"] ELSE conn
    /\ sent' = [sent EXCEPT ![r] = @ + 1]
    /\ UNCHANGED <<server, cuts, page, revived>>

(* The network or the server drops the connection and what is under way.   *)
Cut(r) ==
    /\ \/ conn[r] = "open"
       \/ conn[r] = "shut" /\ wire[r] # <<>>
    /\ cuts < MaxCuts
    /\ cuts' = cuts + 1
    /\ conn' = [conn EXCEPT ![r] = "shut"]
    /\ wire' = [wire EXCEPT ![r] = <<>>]
    /\ UNCHANGED <<server, sent, page, revived>>

-----------------------------------------------------------------------------
(* onSubmit                                                                *)

Submit_Always ==
    /\ ~left
    /\ request = "none"
    /\ request' = "sent"
    /\ UNCHANGED <<server, sockets, cuts, runId, left, cursor, closed, active,
                   applied, revived>>

(* The button is disabled while a request is out or the run is active.     *)
Submit ==
    /\ ~left
    /\ request = "none"
    /\ runId = 0 \/ ~active
    /\ request' = "sent"
    /\ UNCHANGED <<server, sockets, cuts, runId, left, cursor, closed, active,
                   applied, revived>>

(* POST /runs                                                              *)
Create ==
    /\ request = "sent"
    /\ created < MaxRuns
    /\ created' = created + 1
    /\ request' = "answered"
    /\ UNCHANGED <<ledger, sockets, cuts, runId, left, cursor, closed, active,
                   applied, revived>>

(* The request or its answer is lost: the page reports an error and allows *)
(* another submission.  A run may have been created all the same.          *)
CreateFails ==
    /\ ~left
    /\ request \in {"sent", "answered"}
    /\ cuts < MaxCuts
    /\ cuts' = cuts + 1
    /\ request' = "none"
    /\ UNCHANGED <<server, sockets, runId, left, cursor, closed, active,
                   applied, revived>>

(* The cleanup of the effect of run r: clearTimeout and ws.close().  A     *)
(* closing socket delivers no message, but its onclose is still to come.   *)
Cleaned(r) ==
    [conn EXCEPT ![r] = CASE @ \in {"open", "shut"} -> "closing"
                          [] @ = "timer"            -> "done"
                          [] OTHER                  -> @]

(* setRunId: the cleanup of the old effect, then the body of the new one,  *)
(* which resets the view and both refs and connects.                       *)
ShowRun ==
    /\ request = "answered"
    /\ ~left
    /\ request' = "none"
    /\ runId' = created
    /\ conn' = [(IF runId = 0 THEN conn ELSE Cleaned(runId)) EXCEPT ![created] = "open"]
    /\ wire' = [r \in Runs |-> IF r = runId THEN <<>> ELSE wire[r]]
    /\ sent' = [sent EXCEPT ![created] = 0]
    /\ cursor' = 0 /\ closed' = FALSE /\ active' = TRUE /\ applied' = <<>>
    /\ UNCHANGED <<server, cuts, left, revived>>

Leave ==
    /\ ~left
    /\ left' = TRUE
    /\ closed' = TRUE
    /\ conn' = IF runId = 0 THEN conn ELSE Cleaned(runId)
    /\ wire' = [r \in Runs |-> IF r = runId THEN <<>> ELSE wire[r]]
    /\ UNCHANGED <<server, sent, cuts, request, runId, cursor, active, applied, revived>>

-----------------------------------------------------------------------------
(* The callbacks of useRunStream                                           *)

(* onmessage, applyEvent                                                   *)
Receive(r) ==
    /\ conn[r] \in {"open", "shut"}
    /\ wire[r] # <<>>
    /\ LET e == Head(wire[r]) IN
           /\ applied' = Append(applied, e)
           /\ cursor' = IF e.seq > cursor THEN e.seq ELSE cursor
           /\ active' = ~Terminal(e)
           /\ closed' = (closed \/ Terminal(e))
    /\ wire' = [wire EXCEPT ![r] = Tail(@)]
    /\ UNCHANGED <<server, conn, sent, cuts, request, runId, left, revived>>

OnClose_GivesUp(r) ==
    /\ \/ conn[r] = "closing"
       \/ conn[r] = "shut" /\ wire[r] = <<>>
    /\ conn' = [conn EXCEPT ![r] = "done"]
    /\ UNCHANGED <<server, sent, wire, cuts, page, revived>>

(* onclose: wait and reconnect, unless closedRef says that it was meant.   *)
(* By then closedRef may be that of the next run.                          *)
OnClose(r) ==
    /\ \/ conn[r] = "closing"
       \/ conn[r] = "shut" /\ wire[r] = <<>>
    /\ conn' = [conn EXCEPT ![r] = IF closed THEN "done" ELSE "timer"]
    /\ revived' = IF r # runId /\ ~closed THEN revived \cup {r} ELSE revived
    /\ UNCHANGED <<server, sent, wire, cuts, page>>

Reconnect_FromStart(r) ==
    /\ conn[r] = "timer"
    /\ conn' = [conn EXCEPT ![r] = "open"]
    /\ sent' = [sent EXCEPT ![r] = 0]
    /\ UNCHANGED <<server, wire, cuts, page, revived>>

(* connect, by the timer: to the run of the closure, from the cursor of    *)
(* whichever run the page shows.                                           *)
Reconnect(r) ==
    /\ conn[r] = "timer"
    /\ conn' = [conn EXCEPT ![r] = "open"]
    /\ sent' = [sent EXCEPT ![r] = cursor]
    /\ UNCHANGED <<server, wire, cuts, page, revived>>

-----------------------------------------------------------------------------
Serve == Create \/ \E r \in Runs : Send(r)

Browse == ShowRun \/ \E r \in Runs : Receive(r) \/ OnClose(r) \/ Reconnect(r)

Next ==
    \/ Serve \/ Browse
    \/ Submit \/ CreateFails \/ Leave
    \/ \E r \in Runs : AppendEvent(r) \/ Cut(r)

Spec == Init /\ [][Next]_vars

(* Server and browser go on; what the user does, what a run appends and    *)
(* what the network drops are up to them.                                  *)
FairSpec == Spec /\ WF_vars(Serve) /\ WF_vars(Browse)

-----------------------------------------------------------------------------
TypeOK ==
    /\ created \in 0 .. MaxRuns
    /\ ledger \in [Runs -> 0 .. MaxEvents]
    /\ conn \in [Runs -> ConnStates]
    /\ sent \in [Runs -> 0 .. MaxEvents]
    /\ cuts \in 0 .. MaxCuts
    /\ request \in {"none", "sent", "answered"}
    /\ runId \in 0 .. created
    /\ left \in BOOLEAN /\ closed \in BOOLEAN /\ active \in BOOLEAN
    /\ cursor \in 0 .. MaxEvents
    /\ revived \subseteq Runs

(* As long as no socket outlives its effect's cleanup, the page shows a    *)
(* prefix of the ledger of the run it names, through drops, reconnections  *)
(* and changes of run.                                                     *)
ShowsOwnRun ==
    revived = {} =>
        /\ Len(applied) <= MaxEvents
        /\ \A i \in DOMAIN applied : applied[i] = EventOf(runId, i)

(* ... and a run it has shown is over when it goes on to the next one: the *)
(* disabled button, fed by the events received, is the only thing that     *)
(* keeps the page from abandoning a run that is still at work.             *)
OneRunAtATime ==
    revived = {} =>
        \A r \in Runs :
            conn[r] # "none" /\ r # runId => ledger[r] = MaxEvents

(* ... and every event of the run it shows reaches it, if it stays.        *)
PageFollows ==
    \A r \in Runs, n \in 1 .. MaxEvents :
        runId = r /\ ledger[r] >= n
            ~> Len(applied) >= n \/ runId # r \/ left \/ revived # {}

-----------------------------------------------------------------------------
(* A claim of a comment that the code does not meet                        *)

(* The hook drives a single run: whatever it applies is of the run shown.  *)
DrivesSingleRun == \A i \in DOMAIN applied : applied[i].run = runId
=============================================================================
