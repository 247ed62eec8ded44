----------------------------- MODULE EventStream -----------------------------
(***************************************************************************)
(* How the events of one run reach a browser: EventEmitter.emit appends to *)
(* the ledger and publishes (events/emit.py), the EventHub fans out to a   *)
(* queue per subscription (events/hub.py), a WebSocket handler backfills   *)
(* and then streams (api/ws.py), and the page applies what it gets and     *)
(* reconnects with a cursor when it is cut off (frontend/lib/              *)
(* useRunStream.ts).                                                       *)
(*                                                                         *)
(* There is one page and it opens one connection after the other; each has *)
(* a handler of its own.  A handler notices that its connection is cut     *)
(* only when a send raises, so old handlers linger beside the new one and  *)
(* are subscribers of the hub like those of other pages.                   *)
(*                                                                         *)
(* Who decides what is emitted is not modelled here (RunManager,           *)
(* RunRecovery): any events up to a terminal one, and after it at most a   *)
(* memory.written.                                                         *)
(***************************************************************************)
EXTENDS Naturals, Sequences, FiniteSets

CONSTANTS
    MaxEvents,  \* bound on the ledger's length, its terminal event included
    MaxCuts,    \* bound on connections cut, by the network or by an exception
    MaxCrashes  \* bound on crashes of the server

ASSUME StreamAssumption ==
    MaxEvents \in Nat \ {0} /\ MaxCuts \in Nat /\ MaxCrashes \in Nat

(* Every connection after the first follows the end of one before it.      *)
Conns == 1 .. (1 + MaxCuts + MaxCrashes)

(* "end" is one of run.completed, run.failed, run.cancelled; "extra" is    *)
(* memory.written; every other event is "plain".                           *)
Types == {"plain", "end", "extra"}
Event == [seq : 1 .. (MaxEvents + 1), type : Types]

VARIABLES
    \* The server.
    server,     \* "up", "down", or "recovering" before it takes requests
    ledger,     \* the run's event rows (durable)
    emitting,   \* the steps left of the emit that holds the lock
    event,      \* the event it is about
    hub,        \* subscriptions registered with the EventHub
    \* Its handlers, one per connection.
    handler,    \* where stream_run is
    backlog,    \* events read from the ledger, still to send
    queue,      \* the subscription's asyncio.Queue
    lastSent,   \* last_seq
    \* The network.
    link,       \* "none", "open", "shut" by the server, or "cut"
    wire,       \* events sent and not received yet
    cuts, crashes,
    \* The page: useRunStream.
    page,       \* "waiting" to connect, "connected", "done", or "left"
    conn,       \* its current connection, 0 before the first
    cursor,     \* lastSeqRef
    closed,     \* closedRef
    applied     \* the events given to reduceEvent, in order

serverVars  == <<server, ledger, emitting, event>>
handlerVars == <<handler, backlog, queue, lastSent>>
netVars     == <<link, wire, cuts, crashes>>
pageVars    == <<page, conn, cursor, closed, applied>>
vars == <<serverVars, hub, handlerVars, netVars, pageVars>>

HandlerStates ==
    {"none", "accepted", "subscribed", "backlog", "live", "leaving", "gone"}

Ended == \E i \in DOMAIN ledger : ledger[i].type = "end"

Init ==
    /\ server = "up" /\ ledger = <<>> /\ emitting = <<>>
    /\ event = [seq |-> 1, type |-> "plain"]
    /\ hub = {}
    /\ handler  = [k \in Conns |-> "none"]
    /\ backlog  = [k \in Conns |-> <<>>]
    /\ queue    = [k \in Conns |-> <<>>]
    /\ lastSent = [k \in Conns |-> 0]
    /\ link = [k \in Conns |-> "none"]
    /\ wire = [k \in Conns |-> <<>>]
    /\ cuts = 0 /\ crashes = 0
    /\ page = "waiting" /\ conn = 0 /\ cursor = 0 /\ closed = FALSE
    /\ applied = <<>>

-----------------------------------------------------------------------------
(* EventEmitter.emit.  The lock admits one emit at a time; publishing      *)
(* follows the commit.                                                     *)

EmitSteps_PublishFirst == <<"publish", "append">>
EmitSteps == <<"append", "publish">>

NextSeq == Len(ledger) + 1

(* What the run, or at startup the reconciler, may emit next.              *)
MayEmit(type) ==
    \/ type = "plain" /\ ~Ended /\ Len(ledger) + 1 < MaxEvents
    \/ type = "end" /\ ~Ended
    \/ /\ type = "extra" /\ server = "up" /\ Ended
       /\ ledger[Len(ledger)].type = "end"

BeginEmit ==
    /\ server # "down"
    /\ emitting = <<>>
    /\ \E type \in Types :
           /\ MayEmit(type)
           /\ event' = [seq |-> NextSeq, type |-> type]
    /\ emitting' = EmitSteps
    /\ UNCHANGED <<server, ledger, hub, handlerVars, netVars, pageVars>>

Emitting(step) ==
    /\ emitting # <<>>
    /\ Head(emitting) = step
    /\ emitting' = Tail(emitting)
    /\ UNCHANGED <<server, event, hub, handler, backlog, lastSent, netVars, pageVars>>

(* EventRepository.append, committed.                                      *)
AppendEvent ==
    /\ Emitting("append")
    /\ ledger' = Append(ledger, event)
    /\ UNCHANGED queue

(* The transaction fails and is rolled back; the caller gets the           *)
(* exception, and a reconciler that gets it lets the startup go on.        *)
AppendRaises ==
    /\ emitting # <<>> /\ Head(emitting) = "append"
    /\ emitting' = <<>>
    /\ server' = IF server = "recovering" THEN "up" ELSE server
    /\ UNCHANGED <<ledger, event, hub, handlerVars, netVars, pageVars>>

(* EventHub.publish: a put_nowait for every current subscription.          *)
Publish_ToReaders ==
    /\ Emitting("publish")
    /\ queue' = [k \in Conns |->
                    IF k \in hub /\ handler[k] = "live"
                    THEN Append(queue[k], event) ELSE queue[k]]
    /\ UNCHANGED ledger

Publish ==
    /\ Emitting("publish")
    /\ queue' = [k \in Conns |->
                    IF k \in hub THEN Append(queue[k], event) ELSE queue[k]]
    /\ UNCHANGED ledger

-----------------------------------------------------------------------------
(* stream_run, the handler of connection k                                 *)

(* The run's row precedes its id, so the check for an unknown run passes.  *)
Accept(k) ==
    /\ server = "up"
    /\ handler[k] = "none" /\ link[k] = "open"
    /\ handler' = [handler EXCEPT ![k] = "accepted"]
    /\ UNCHANGED <<serverVars, hub, backlog, queue, lastSent, netVars, pageVars>>

Subscribe(k) ==
    /\ handler[k] = "accepted"
    /\ handler' = [handler EXCEPT ![k] = "subscribed"]
    /\ hub' = hub \cup {k}
    /\ UNCHANGED <<serverVars, backlog, queue, lastSent, netVars, pageVars>>

(* list_after(run_id, after): the rows with a greater seq, in its order;   *)
(* a row's seq is its place in the ledger.                                 *)
RowsAfter(seq) == SubSeq(ledger, seq + 1, Len(ledger))

Backfill(k) ==
    /\ handler[k] = "subscribed"
    /\ handler' = [handler EXCEPT ![k] = "backlog"]
    /\ backlog' = [backlog EXCEPT ![k] = RowsAfter(lastSent[k])]
    /\ UNCHANGED <<serverVars, hub, queue, lastSent, netVars, pageVars>>

Terminal_Never(e) == FALSE
Terminal(e) == e.type = "end"

(* send_json, last_seq = event.seq, and the return after a terminal event. *)
(* Into a cut connection it may raise, or go unnoticed.                    *)
Send(k, e) ==
    \/ /\ wire' = IF link[k] = "open"
                  THEN [wire EXCEPT ![k] = Append(@, e)] ELSE wire
       /\ lastSent' = [lastSent EXCEPT ![k] = e.seq]
       /\ handler' = IF Terminal(e)
                     THEN [handler EXCEPT ![k] = "leaving"] ELSE handler
    \/ /\ link[k] = "cut"
       /\ handler' = [handler EXCEPT ![k] = "leaving"]
       /\ UNCHANGED <<wire, lastSent>>

SendBacklog(k) ==
    /\ handler[k] = "backlog"
    /\ backlog[k] # <<>>
    /\ Send(k, Head(backlog[k]))
    /\ backlog' = [backlog EXCEPT ![k] = Tail(@)]
    /\ UNCHANGED <<serverVars, hub, queue, link, cuts, crashes, pageVars>>

GoLive(k) ==
    /\ handler[k] = "backlog"
    /\ backlog[k] = <<>>
    /\ handler' = [handler EXCEPT ![k] = "live"]
    /\ UNCHANGED <<serverVars, hub, backlog, queue, lastSent, netVars, pageVars>>

Delivered_Never(k, e) == FALSE
Delivered(k, e) == e.seq <= lastSent[k]

(* subscription.get(), skipping what the backfill already sent.            *)
SendLive(k) ==
    /\ handler[k] = "live"
    /\ queue[k] # <<>>
    /\ \/ /\ Delivered(k, Head(queue[k]))
          /\ UNCHANGED <<handler, wire, lastSent>>
       \/ /\ ~Delivered(k, Head(queue[k]))
          /\ Send(k, Head(queue[k]))
    /\ queue' = [queue EXCEPT ![k] = Tail(@)]
    /\ UNCHANGED <<serverVars, hub, backlog, link, cuts, crashes, pageVars>>

(* finally: unsubscribe, and close the socket if it is still there.  The   *)
(* handler's own variables and its queue are garbage.                      *)
Unsubscribe(k) ==
    /\ handler[k] = "leaving"
    /\ handler' = [handler EXCEPT ![k] = "gone"]
    /\ hub' = hub \ {k}
    /\ link' = IF link[k] = "open" THEN [link EXCEPT ![k] = "shut"] ELSE link
    /\ backlog' = [backlog EXCEPT ![k] = <<>>]
    /\ queue' = [queue EXCEPT ![k] = <<>>]
    /\ lastSent' = [lastSent EXCEPT ![k] = 0]
    /\ UNCHANGED <<serverVars, wire, cuts, crashes, pageVars>>

(* list_after or a send raises: the handler leaves without a terminal.     *)
HandlerRaises(k) ==
    /\ handler[k] \in {"subscribed", "backlog"}
    /\ link[k] = "open"
    /\ cuts < MaxCuts
    /\ cuts' = cuts + 1
    /\ handler' = [handler EXCEPT ![k] = "leaving"]
    /\ UNCHANGED <<serverVars, hub, backlog, queue, lastSent, link, wire, crashes, pageVars>>

-----------------------------------------------------------------------------
(* The page                                                                *)

(* new WebSocket(streamUrl(runId, lastSeqRef.current)).  An attempt while  *)
(* the server is not up fails and is repeated; it is left out.             *)
Connect ==
    /\ page = "waiting" /\ server = "up"
    /\ page' = "connected" /\ conn' = conn + 1
    /\ link' = [link EXCEPT ![conn'] = "open"]
    /\ lastSent' = [lastSent EXCEPT ![conn'] = cursor]
    /\ UNCHANGED <<serverVars, hub, handler, backlog, queue, wire, cuts, crashes,
                   cursor, closed, applied>>

(* onmessage                                                               *)
Receive ==
    /\ page = "connected"
    /\ wire[conn] # <<>>
    /\ LET e == Head(wire[conn]) IN
           /\ applied' = Append(applied, e)
           /\ cursor' = IF e.seq > cursor THEN e.seq ELSE cursor
           /\ closed' = (closed \/ e.type = "end")
    /\ wire' = [wire EXCEPT ![conn] = Tail(@)]
    /\ UNCHANGED <<serverVars, hub, handlerVars, link, cuts, crashes, page, conn>>

(* onclose: reconnect, unless the run ended.                               *)
OnClose ==
    /\ page = "connected"
    /\ link[conn] \in {"shut", "cut"} /\ wire[conn] = <<>>
    /\ page' = IF closed THEN "done" ELSE "waiting"
    /\ UNCHANGED <<serverVars, hub, handlerVars, netVars, conn, cursor, closed, applied>>

(* The effect's cleanup: the user leaves the page.                         *)
Leave ==
    /\ page # "left"
    /\ page' = "left"
    /\ closed' = TRUE
    /\ link' = [k \in Conns |->
                   IF k = conn /\ link[k] = "open" THEN "cut" ELSE link[k]]
    /\ wire' = [k \in Conns |-> IF k = conn THEN <<>> ELSE wire[k]]
    /\ UNCHANGED <<serverVars, hub, handlerVars, cuts, crashes, conn, cursor, applied>>

-----------------------------------------------------------------------------
(* Failures                                                                *)

(* What is on the wire is lost with the connection.                        *)
Cut ==
    /\ cuts < MaxCuts
    /\ page = "connected" /\ link[conn] = "open"
    /\ cuts' = cuts + 1
    /\ link' = [link EXCEPT ![conn] = "cut"]
    /\ wire' = [wire EXCEPT ![conn] = <<>>]
    /\ UNCHANGED <<serverVars, hub, handlerVars, crashes, pageVars>>

(* The process dies: the ledger stays, an emit that was under way, the hub *)
(* and every handler are gone.                                             *)
Crash ==
    /\ server # "down"
    /\ crashes < MaxCrashes
    /\ crashes' = crashes + 1
    /\ server' = "down"
    /\ emitting' = <<>>
    /\ hub' = {}
    /\ handler' = [k \in Conns |-> IF handler[k] = "none" THEN "none" ELSE "gone"]
    /\ backlog' = [k \in Conns |-> <<>>]
    /\ queue' = [k \in Conns |-> <<>>]
    /\ lastSent' = [k \in Conns |-> 0]
    /\ link' = [k \in Conns |-> IF link[k] = "open" THEN "cut" ELSE link[k]]
    /\ wire' = [k \in Conns |-> IF link[k] = "open" THEN <<>> ELSE wire[k]]
    /\ UNCHANGED <<ledger, event, cuts, pageVars>>

Boot ==
    /\ \/ server = "down" /\ server' = "recovering"
       \/ server = "recovering" /\ emitting = <<>> /\ server' = "up"
    /\ UNCHANGED <<ledger, emitting, event, hub, handlerVars, netVars, pageVars>>

-----------------------------------------------------------------------------
Emit == AppendEvent \/ Publish

Handle(k) ==
    \/ Accept(k) \/ Subscribe(k) \/ Backfill(k) \/ SendBacklog(k) \/ GoLive(k)
    \/ SendLive(k) \/ Unsubscribe(k)

Page == Connect \/ Receive \/ OnClose

Next ==
    \/ BeginEmit \/ Emit \/ AppendRaises \/ (\E k \in Conns : Handle(k) \/ HandlerRaises(k))
    \/ Page \/ Leave \/ Cut \/ Crash \/ Boot

Spec == Init /\ [][Next]_vars

(* The event loops of the server and of the browser go on, and the server  *)
(* is started again.  The run owes no event, and the user stays or leaves. *)
FairSpec ==
    /\ Spec
    /\ WF_vars(Emit) /\ WF_vars(Page) /\ WF_vars(Boot)
    /\ \A k \in Conns : WF_vars(Handle(k))

-----------------------------------------------------------------------------
EventsOK(s) == \A i \in DOMAIN s : s[i] \in Event

TypeOK ==
    /\ server \in {"up", "down", "recovering"}
    /\ EventsOK(ledger) /\ Len(ledger) <= MaxEvents + 1
    /\ emitting \in {<<>>, <<"publish">>, <<"append", "publish">>}
    /\ event \in Event
    /\ hub \subseteq Conns
    /\ handler \in [Conns -> HandlerStates]
    /\ \A k \in Conns : EventsOK(backlog[k]) /\ EventsOK(queue[k]) /\ EventsOK(wire[k])
    /\ lastSent \in [Conns -> 0 .. (MaxEvents + 1)]
    /\ link \in [Conns -> {"none", "open", "shut", "cut"}]
    /\ cuts \in 0 .. MaxCuts /\ crashes \in 0 .. MaxCrashes
    /\ page \in {"waiting", "connected", "done", "left"}
    /\ conn \in 0 .. (1 + MaxCuts + MaxCrashes)
    /\ cursor \in 0 .. (MaxEvents + 1) /\ closed \in BOOLEAN
    /\ EventsOK(applied)

(* What the page shows is a prefix of the ledger: no event is missed,      *)
(* applied twice or out of order, whatever was published while a handler   *)
(* was between its subscription and its backfill, whatever was cut, and    *)
(* however many handlers the page left behind.                             *)
ViewIsPrefix ==
    /\ Len(applied) <= Len(ledger)
    /\ applied = SubSeq(ledger, 1, Len(applied))

(* Subscribers never see an event that is not durable: whatever is queued  *)
(* or under way is a row of the ledger, so that a crash takes back nothing *)
(* that a page was shown, and no number is given out twice.                *)
DeliveredIsDurable ==
    \A k \in Conns :
        \A s \in {queue[k], wire[k]} :
            \A i \in DOMAIN s :
                s[i].seq \in DOMAIN ledger /\ ledger[s[i].seq] = s[i]

(* A page that stays comes to show every event up to the terminal one,     *)
(* through every cut, crash and reconnection.                              *)
UpToEnd(n) == Len(ledger) >= n /\ \A i \in 1 .. (n - 1) : ledger[i].type # "end"

PageCatchesUp ==
    \A n \in 1 .. MaxEvents :
        UpToEnd(n) ~> (Len(applied) >= n \/ page = "left")

(* A run that is over keeps no subscription: handlers whose page is long   *)
(* gone are released by the terminal event at the latest.                  *)
HubEmpties == Ended ~> [](hub = {})
=============================================================================
