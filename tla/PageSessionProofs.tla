-------------------------- MODULE PageSessionProofs --------------------------
(***************************************************************************)
(* PageSession for any number of runs, events and drops: apart from        *)
(* sockets that outlive their cleanup, the page shows the run it names and *)
(* leaves none behind at work.                                             *)
(***************************************************************************)
EXTENDS PageSession, SequenceTheorems, TLAPS

Sent == [run : Nat, seq : Nat]

(* s is a piece of run r's ledger: the events after the n-th.              *)
PieceOf(s, r, n) == \A i \in 1 .. Len(s) : s[i] = EventOf(r, n + i)

LEMMA PieceAppend ==
    ASSUME NEW s \in Seq(Sent), NEW r \in Nat, NEW n \in Nat, PieceOf(s, r, n),
           NEW e \in Sent, e = EventOf(r, n + Len(s) + 1)
    PROVE  PieceOf(Append(s, e), r, n)
<1>1. /\ Len(Append(s, e)) = Len(s) + 1 /\ Len(s) \in Nat
      /\ \A i \in 1 .. Len(s) : Append(s, e)[i] = s[i]
      /\ Append(s, e)[Len(s) + 1] = e
  BY AppendProperties, LenProperties
<1>2. ASSUME NEW i \in 1 .. (Len(s) + 1) PROVE Append(s, e)[i] = EventOf(r, n + i)
  <2>1. CASE i \in 1 .. Len(s)
    BY <1>1, <2>1 DEF PieceOf
  <2>2. CASE i = Len(s) + 1
    <3>1. n + i = n + Len(s) + 1
      BY <1>1, <2>2
    <3> QED
      BY <1>1, <2>2, <3>1
  <2> QED
    BY <1>1, <2>1, <2>2
<1> QED
  BY <1>1, <1>2 DEF PieceOf

LEMMA PieceTail ==
    ASSUME NEW s \in Seq(Sent), s # <<>>, NEW r \in Nat, NEW n \in Nat, PieceOf(s, r, n)
    PROVE  /\ PieceOf(Tail(s), r, n + 1) /\ Head(s) = EventOf(r, n + 1)
           /\ Head(s) \in Sent /\ Tail(s) \in Seq(Sent)
           /\ Len(s) \in Nat \ {0} /\ Len(Tail(s)) = Len(s) - 1
<1>1. /\ Len(s) \in Nat \ {0}
      /\ Tail(s) \in Seq(Sent) /\ Len(Tail(s)) = Len(s) - 1
      /\ \A i \in 1 .. Len(Tail(s)) : Tail(s)[i] = s[i + 1]
      /\ Head(s) \in Sent /\ Head(s) = s[1]
  BY HeadTailProperties, EmptySeq
<1>2. ASSUME NEW i \in 1 .. Len(Tail(s)) PROVE Tail(s)[i] = EventOf(r, (n + 1) + i)
  <2>1. i + 1 \in 1 .. Len(s) /\ n + (i + 1) = (n + 1) + i
    BY <1>1
  <2> QED
    BY <1>1, <2>1 DEF PieceOf
<1> QED
  BY <1>1, <1>2 DEF PieceOf

-----------------------------------------------------------------------------
SessionTypes ==
    /\ created \in 0 .. MaxRuns
    /\ ledger \in [Runs -> 0 .. MaxEvents]
    /\ conn \in [Runs -> ConnStates]
    /\ sent \in [Runs -> Nat]
    /\ wire \in [Runs -> Seq(Sent)]
    /\ request \in {"none", "sent", "answered"}
    /\ runId \in Nat /\ runId <= created
    /\ left \in BOOLEAN /\ closed \in BOOLEAN /\ active \in BOOLEAN
    /\ cursor \in Nat
    /\ applied \in Seq(Sent)

(* Runs are shown in the order of their creation.                          *)
OrderInv ==
    /\ \A r \in Runs : conn[r] # "none" => r <= runId
    /\ request = "answered" => runId < created

(* Every socket or timer that is still in use is that of the run shown.    *)
OwnInv ==
    \A r \in Runs :
        /\ conn[r] \in {"open", "shut", "timer"} => r = runId
        /\ wire[r] # <<>> => r = runId /\ conn[r] \in {"open", "shut"}

(* Shown, then on the wire, then sent next.                                *)
ShownInv ==
    /\ cursor = Len(applied)
    /\ PieceOf(applied, runId, 0)
    /\ runId = 0 => cursor = 0
    /\ runId # 0 =>
          /\ PieceOf(wire[runId], runId, cursor)
          /\ cursor + Len(wire[runId]) <= ledger[runId]
          /\ conn[runId] = "open" => sent[runId] = cursor + Len(wire[runId])

(* A request is out only when the run shown is over, and so were those     *)
(* before it.                                                              *)
DoneInv ==
    /\ runId # 0 /\ ~active => cursor = MaxEvents
    /\ runId # 0 /\ request # "none" => cursor = MaxEvents
    /\ \A r \in Runs : conn[r] # "none" /\ r # runId => ledger[r] = MaxEvents

SessionInv ==
    /\ SessionTypes /\ OrderInv
    /\ revived = {} => OwnInv /\ ShownInv /\ DoneInv

-----------------------------------------------------------------------------
LEMMA RunsAreNumbers == Runs \subseteq Nat \ {0} /\ Runs = 1 .. MaxRuns /\ MaxEvents \in Nat \ {0}
BY SessionAssumption DEF Runs

LEMMA ShownRun ==
    ASSUME SessionTypes, runId # 0
    PROVE  /\ runId \in Runs /\ wire[runId] \in Seq(Sent) /\ Len(wire[runId]) \in Nat
           /\ ledger[runId] \in 0 .. MaxEvents /\ sent[runId] \in Nat
<1>1. runId \in Runs
  BY RunsAreNumbers, SessionAssumption DEF SessionTypes
<1> QED
  BY <1>1, LenProperties DEF SessionTypes

LEMMA InitSession == Init => SessionInv
<1> SUFFICES ASSUME Init PROVE SessionInv
  OBVIOUS
<1>1. <<>> \in Seq(Sent) /\ Len(<<>>) = 0
  BY EmptySeq
<1>2. SessionTypes
  <2>1. 0 \in 0 .. MaxRuns /\ 0 \in 0 .. MaxEvents
    BY SessionAssumption
  <2>2. /\ ledger \in [Runs -> 0 .. MaxEvents] /\ conn \in [Runs -> ConnStates]
        /\ sent \in [Runs -> Nat] /\ wire \in [Runs -> Seq(Sent)]
    BY <1>1, <2>1 DEF Init, ConnStates
  <2>3. /\ created \in 0 .. MaxRuns /\ runId \in Nat /\ runId <= created /\ cursor \in Nat
    BY <2>1 DEF Init
  <2> QED
    BY <1>1, <2>2, <2>3 DEF Init, SessionTypes
<1>3. OrderInv /\ OwnInv /\ DoneInv
  BY DEF Init, OrderInv, OwnInv, DoneInv
<1>4. ShownInv
  BY <1>1 DEF Init, ShownInv, PieceOf
<1> QED
  BY <1>2, <1>3, <1>4 DEF SessionInv

LEMMA AppendEventKeeps ==
    ASSUME SessionInv, NEW r \in Runs, AppendEvent(r)
    PROVE  SessionInv'
<1>1. SessionTypes /\ OrderInv
  BY DEF SessionInv
<1>2. /\ ledger[r] < MaxEvents /\ ledger' = [ledger EXCEPT ![r] = @ + 1]
      /\ UNCHANGED <<created, sockets, cuts, page, revived>>
  BY DEF AppendEvent
<1>3. /\ ledger' \in [Runs -> 0 .. MaxEvents] /\ ledger'[r] = ledger[r] + 1
      /\ \A c \in Runs \ {r} : ledger'[c] = ledger[c]
  BY <1>1, <1>2, RunsAreNumbers DEF SessionTypes
<1>4. SessionTypes' /\ OrderInv'
  BY <1>1, <1>2, <1>3 DEF SessionTypes, OrderInv, sockets, page
<1>5. ASSUME revived = {} PROVE OwnInv' /\ ShownInv' /\ DoneInv'
  <2>1. OwnInv /\ ShownInv /\ DoneInv
    BY <1>5 DEF SessionInv
  <2>2. OwnInv'
    BY <1>2, <2>1 DEF OwnInv, sockets, page
  <2>3. \A c \in Runs : ledger[c] <= ledger'[c] /\ ledger[c] \in Nat /\ ledger'[c] \in Nat
    <3>1. \A c \in Runs : ledger[c] \in 0 .. MaxEvents /\ ledger'[c] \in 0 .. MaxEvents
      BY <1>1, <1>3 DEF SessionTypes
    <3>2. \A c \in Runs : ledger'[c] = ledger[c] \/ ledger'[c] = ledger[c] + 1
      BY <1>3
    <3> QED
      BY <3>1, <3>2, RunsAreNumbers
  <2>4. runId # 0 => cursor + Len(wire[runId]) <= ledger'[runId]
    BY <1>1, <2>1, <2>3, ShownRun DEF ShownInv, SessionTypes
  <2>5. ShownInv'
    BY <1>2, <2>1, <2>4 DEF ShownInv, sockets, page
  <2>6. DoneInv'
    BY <1>2, <1>3, <2>1, RunsAreNumbers DEF DoneInv, sockets, page
  <2> QED
    BY <2>2, <2>5, <2>6
<1>6. revived' = revived
  BY <1>2
<1> QED
  BY <1>4, <1>5, <1>6 DEF SessionInv

LEMMA SendKeeps == ASSUME SessionInv, NEW r \in Runs, Send(r) PROVE SessionInv'
<1>1. SessionTypes /\ OrderInv
  BY DEF SessionInv
<1> DEFINE e == EventOf(r, sent[r] + 1)
<1>2. /\ conn[r] = "open" /\ sent[r] < ledger[r]
      /\ wire' = [wire EXCEPT ![r] = Append(wire[r], e)]
      /\ conn' = IF Terminal(e) THEN [conn EXCEPT ![r] = "shut"] ELSE conn
      /\ sent' = [sent EXCEPT ![r] = sent[r] + 1]
      /\ UNCHANGED <<server, cuts, page, revived>>
  BY DEF Send
<1>3. /\ e \in Sent /\ sent[r] \in Nat /\ ledger[r] \in Nat /\ r \in Nat \ {0}
      /\ wire[r] \in Seq(Sent) /\ Len(wire[r]) \in Nat
  <2>1. /\ sent[r] \in Nat /\ ledger[r] \in Nat /\ r \in Nat \ {0}
        /\ wire[r] \in Seq(Sent) /\ Len(wire[r]) \in Nat
    BY <1>1, RunsAreNumbers, LenProperties DEF SessionTypes
  <2> QED
    BY <2>1 DEF Sent, EventOf
<1>4. e = EventOf(r, sent[r] + 1)
  OBVIOUS
<1> HIDE DEF e
<1>5. /\ wire' \in [Runs -> Seq(Sent)] /\ wire'[r] = Append(wire[r], e)
      /\ Len(wire'[r]) = Len(wire[r]) + 1
      /\ \A c \in Runs \ {r} : wire'[c] = wire[c]
  BY <1>1, <1>2, <1>3, AppendProperties DEF SessionTypes
<1>6. /\ conn' \in [Runs -> ConnStates] /\ conn'[r] \in {"open", "shut"}
      /\ \A c \in Runs \ {r} : conn'[c] = conn[c]
      /\ sent' \in [Runs -> Nat] /\ sent'[r] = sent[r] + 1
  BY <1>1, <1>2, <1>3 DEF SessionTypes, ConnStates
<1>7. SessionTypes' /\ OrderInv'
  BY <1>1, <1>2, <1>5, <1>6 DEF SessionTypes, OrderInv, server, page
<1>8. ASSUME revived = {} PROVE OwnInv' /\ ShownInv' /\ DoneInv'
  <2>1. OwnInv /\ ShownInv /\ DoneInv
    BY <1>8 DEF SessionInv
  <2>2. r = runId /\ runId # 0
    BY <1>2, <1>3, <2>1 DEF OwnInv
  <2>3. OwnInv'
    BY <1>2, <1>5, <1>6, <2>1, <2>2 DEF OwnInv, page
  <2>4. sent[r] = cursor + Len(wire[r]) /\ PieceOf(wire[r], r, cursor) /\ cursor \in Nat
    BY <1>1, <1>2, <2>1, <2>2 DEF ShownInv, SessionTypes
  <2>5. PieceOf(wire'[r], r, cursor)
    BY <1>3, <1>4, <1>5, <2>4, PieceAppend
  <2>6. cursor + Len(wire'[r]) <= ledger[r] /\ sent'[r] = cursor + Len(wire'[r])
    BY <1>2, <1>3, <1>5, <1>6, <2>4
  <2>7. ShownInv'
    BY <1>2, <2>1, <2>2, <2>5, <2>6 DEF ShownInv, server, page
  <2>8. DoneInv'
    BY <1>2, <1>6, <2>1, <2>2 DEF DoneInv, server, page
  <2> QED
    BY <2>3, <2>7, <2>8
<1>9. revived' = revived
  BY <1>2
<1> QED
  BY <1>7, <1>8, <1>9 DEF SessionInv

LEMMA CutKeeps == ASSUME SessionInv, NEW r \in Runs, Cut(r) PROVE SessionInv'
<1>1. SessionTypes /\ OrderInv
  BY DEF SessionInv
<1>2. /\ conn[r] \in {"open", "shut"}
      /\ conn' = [conn EXCEPT ![r] = "shut"] /\ wire' = [wire EXCEPT ![r] = <<>>]
      /\ UNCHANGED <<server, sent, page, revived>>
  BY DEF Cut
<1>3. <<>> \in Seq(Sent) /\ Len(<<>>) = 0
  BY EmptySeq
<1>4. /\ conn'[r] = "shut" /\ wire'[r] = <<>>
      /\ \A c \in Runs \ {r} : conn'[c] = conn[c] /\ wire'[c] = wire[c]
      /\ conn' \in [Runs -> ConnStates] /\ wire' \in [Runs -> Seq(Sent)]
  BY <1>1, <1>2, <1>3 DEF SessionTypes, ConnStates
<1>5. SessionTypes' /\ OrderInv'
  BY <1>1, <1>2, <1>4 DEF SessionTypes, OrderInv, server, page
<1>6. ASSUME revived = {} PROVE OwnInv' /\ ShownInv' /\ DoneInv'
  <2>1. OwnInv /\ ShownInv /\ DoneInv
    BY <1>6 DEF SessionInv
  <2>2. r = runId /\ runId # 0
    BY <1>2, <2>1, RunsAreNumbers DEF OwnInv
  <2>3. OwnInv'
    BY <1>2, <1>4, <2>1, <2>2 DEF OwnInv, page
  <2>4. cursor <= ledger[runId] /\ cursor + 0 = cursor
    BY <1>1, <2>1, <2>2, ShownRun DEF ShownInv, SessionTypes
  <2>5. ShownInv'
    BY <1>2, <1>3, <1>4, <2>1, <2>2, <2>4 DEF ShownInv, PieceOf, server, page
  <2>6. DoneInv'
    BY <1>2, <1>4, <2>1, <2>2 DEF DoneInv, server, page
  <2> QED
    BY <2>3, <2>5, <2>6
<1>7. revived' = revived
  BY <1>2
<1> QED
  BY <1>5, <1>6, <1>7 DEF SessionInv

(* Submit, Create and CreateFails: nothing but the request.                *)
LEMMA RequestKeeps ==
    ASSUME SessionInv, Submit \/ Create \/ CreateFails
    PROVE  SessionInv'
<1>1. SessionTypes /\ OrderInv
  BY DEF SessionInv
<1>2. UNCHANGED <<ledger, conn, sent, wire, runId, left, cursor, closed, active, applied, revived>>
  BY DEF Submit, Create, CreateFails, server, sockets
<1>3. /\ request' \in {"none", "sent", "answered"}
      /\ created' \in 0 .. MaxRuns /\ created <= created'
      /\ request' = "answered" => created' = created + 1
      /\ request' # "none" => request # "none" \/ runId = 0 \/ ~active
  BY <1>1, SessionAssumption DEF Submit, Create, CreateFails, SessionTypes, server
<1>4. runId <= created' /\ (request' = "answered" => runId < created')
  BY <1>1, <1>3 DEF SessionTypes
<1>5. SessionTypes' /\ OrderInv'
  BY <1>1, <1>2, <1>3, <1>4 DEF SessionTypes, OrderInv
<1>6. ASSUME revived = {} PROVE OwnInv' /\ ShownInv' /\ DoneInv'
  <2>1. OwnInv /\ ShownInv /\ DoneInv
    BY <1>6 DEF SessionInv
  <2> QED
    BY <1>2, <1>3, <2>1 DEF OwnInv, ShownInv, DoneInv
<1> QED
  BY <1>2, <1>5, <1>6 DEF SessionInv

LEMMA CleanedConn ==
    ASSUME SessionTypes, NEW q \in Runs
    PROVE  /\ Cleaned(q) \in [Runs -> ConnStates]
           /\ Cleaned(q)[q] \notin {"open", "shut", "timer"}
           /\ Cleaned(q)[q] = "none" <=> conn[q] = "none"
           /\ \A c \in Runs \ {q} : Cleaned(q)[c] = conn[c]
BY DEF Cleaned, SessionTypes, ConnStates

LEMMA ShowRunKeeps == ASSUME SessionInv, ShowRun PROVE SessionInv'
<1>1. SessionTypes /\ OrderInv
  BY DEF SessionInv
<1> DEFINE old == IF runId = 0 THEN conn ELSE Cleaned(runId)
<1>2. /\ request = "answered" /\ request' = "none"
      /\ runId' = created /\ created' = created /\ ledger' = ledger
      /\ conn' = [old EXCEPT ![created] = "open"]
      /\ wire' = [r \in Runs |-> IF r = runId THEN <<>> ELSE wire[r]]
      /\ sent' = [sent EXCEPT ![created] = 0]
      /\ cursor' = 0 /\ closed' = FALSE /\ active' = TRUE /\ applied' = <<>>
      /\ left' = left /\ revived' = revived
  BY DEF ShowRun, server
<1>3. created \in Runs /\ runId < created /\ created \in Nat \ {0}
  BY <1>1, <1>2, RunsAreNumbers DEF SessionTypes, OrderInv
<1>4. <<>> \in Seq(Sent) /\ Len(<<>>) = 0
  BY EmptySeq
<1>5. /\ old \in [Runs -> ConnStates]
      /\ \A r \in Runs : old[r] = "none" <=> conn[r] = "none"
      /\ runId # 0 => old[runId] \notin {"open", "shut", "timer"}
      /\ \A r \in Runs \ {runId} : old[r] = conn[r]
  BY <1>1, CleanedConn, ShownRun DEF SessionTypes
<1> HIDE DEF old
<1>6. /\ conn' \in [Runs -> ConnStates] /\ conn'[created] = "open"
      /\ \A r \in Runs \ {created} : conn'[r] = old[r]
      /\ wire' \in [Runs -> Seq(Sent)] /\ sent' \in [Runs -> Nat] /\ sent'[created] = 0
  BY <1>1, <1>2, <1>3, <1>4, <1>5 DEF SessionTypes, ConnStates
<1>7. SessionTypes'
  <2>1. runId' \in Nat /\ runId' <= created' /\ cursor' \in Nat /\ applied' \in Seq(Sent)
    BY <1>2, <1>3, <1>4
  <2>2. request' \in {"none", "sent", "answered"} /\ active' \in BOOLEAN /\ closed' \in BOOLEAN
    BY <1>2
  <2> QED
    BY <1>1, <1>2, <1>6, <2>1, <2>2 DEF SessionTypes
<1>8. OrderInv'
  <2>1. \A r \in Runs : conn[r] # "none" => r <= created
    BY <1>1, <1>3, RunsAreNumbers DEF OrderInv, SessionTypes
  <2> QED
    BY <1>2, <1>3, <1>5, <1>6, <2>1 DEF OrderInv
<1>9. ASSUME revived = {} PROVE OwnInv' /\ ShownInv' /\ DoneInv'
  <2>1. OwnInv /\ ShownInv /\ DoneInv
    BY <1>9 DEF SessionInv
  <2>2. \A r \in Runs : wire'[r] = <<>>
    BY <1>2, <2>1 DEF OwnInv
  <2>3. OwnInv'
    <3>1. ASSUME NEW r \in Runs \ {created} PROVE conn'[r] \notin {"open", "shut", "timer"}
      <4>1. CASE r = runId
        BY <1>5, <1>6, <4>1, RunsAreNumbers
      <4>2. CASE r # runId
        BY <1>5, <1>6, <2>1, <4>2 DEF OwnInv
      <4> QED
        BY <4>1, <4>2
    <3> QED
      BY <1>2, <2>2, <3>1 DEF OwnInv
  <2>4. ledger[created] \in Nat
    BY <1>1, <1>3 DEF SessionTypes
  <2>5. ShownInv'
    BY <1>2, <1>3, <1>4, <1>6, <2>2, <2>4 DEF ShownInv, PieceOf
  <2>6. runId # 0 => ledger[runId] = MaxEvents
    BY <1>1, <1>2, <2>1, ShownRun, RunsAreNumbers DEF ShownInv, DoneInv, SessionTypes
  <2>7. DoneInv'
    BY <1>2, <1>3, <1>5, <1>6, <2>1, <2>6, RunsAreNumbers DEF DoneInv
  <2> QED
    BY <2>3, <2>5, <2>7
<1> QED
  BY <1>2, <1>7, <1>8, <1>9 DEF SessionInv

LEMMA LeaveKeeps == ASSUME SessionInv, Leave PROVE SessionInv'
<1>1. SessionTypes /\ OrderInv
  BY DEF SessionInv
<1> DEFINE old == IF runId = 0 THEN conn ELSE Cleaned(runId)
<1>2. /\ conn' = old
      /\ wire' = [r \in Runs |-> IF r = runId THEN <<>> ELSE wire[r]]
      /\ left' = TRUE /\ closed' = TRUE
      /\ UNCHANGED <<created, ledger, sent, request, runId, cursor, active, applied, revived>>
  BY DEF Leave, server
<1>3. <<>> \in Seq(Sent) /\ Len(<<>>) = 0
  BY EmptySeq
<1>4. /\ old \in [Runs -> ConnStates]
      /\ \A r \in Runs : old[r] = "none" <=> conn[r] = "none"
      /\ runId # 0 => old[runId] \notin {"open", "shut", "timer"}
      /\ \A r \in Runs \ {runId} : old[r] = conn[r]
  BY <1>1, CleanedConn, ShownRun DEF SessionTypes
<1> HIDE DEF old
<1>5. SessionTypes' /\ OrderInv'
  BY <1>1, <1>2, <1>3, <1>4 DEF SessionTypes, OrderInv
<1>6. ASSUME revived = {} PROVE OwnInv' /\ ShownInv' /\ DoneInv'
  <2>1. OwnInv /\ ShownInv /\ DoneInv
    BY <1>6 DEF SessionInv
  <2>2. OwnInv'
    BY <1>2, <1>4, <2>1, RunsAreNumbers DEF OwnInv
  <2>3. runId # 0 => wire'[runId] = <<>> /\ cursor + 0 <= ledger[runId]
    BY <1>1, <1>2, <2>1, ShownRun DEF ShownInv, SessionTypes
  <2>4. ShownInv'
    BY <1>2, <1>3, <1>4, <2>1, <2>3 DEF ShownInv, PieceOf
  <2>5. DoneInv'
    BY <1>2, <1>4, <2>1 DEF DoneInv
  <2> QED
    BY <2>2, <2>4, <2>5
<1> QED
  BY <1>2, <1>5, <1>6 DEF SessionInv

LEMMA ReceiveKeeps == ASSUME SessionInv, NEW r \in Runs, Receive(r) PROVE SessionInv'
<1>1. SessionTypes /\ OrderInv
  BY DEF SessionInv
<1> DEFINE e == Head(wire[r])
<1>2. /\ conn[r] \in {"open", "shut"} /\ wire[r] # <<>>
      /\ applied' = Append(applied, e)
      /\ cursor' = IF e.seq > cursor THEN e.seq ELSE cursor
      /\ active' = ~Terminal(e) /\ closed' = (closed \/ Terminal(e))
      /\ wire' = [wire EXCEPT ![r] = Tail(wire[r])]
      /\ UNCHANGED <<created, ledger, conn, sent, request, runId, left, revived>>
  BY DEF Receive, server
<1>3. /\ wire[r] \in Seq(Sent) /\ applied \in Seq(Sent) /\ cursor \in Nat /\ r \in Nat
      /\ Len(applied) \in Nat
  BY <1>1, RunsAreNumbers, LenProperties DEF SessionTypes
<1>4. e \in Sent /\ Tail(wire[r]) \in Seq(Sent)
  BY <1>2, <1>3, HeadTailProperties
<1>5. e.seq \in Nat /\ (Terminal(e) <=> e.seq = MaxEvents)
  BY <1>4 DEF Sent, Terminal
<1> HIDE DEF e
<1>6. /\ wire' \in [Runs -> Seq(Sent)] /\ wire'[r] = Tail(wire[r])
      /\ \A c \in Runs \ {r} : wire'[c] = wire[c]
      /\ applied' \in Seq(Sent) /\ Len(applied') = Len(applied) + 1
      /\ cursor' \in Nat /\ active' \in BOOLEAN /\ closed' \in BOOLEAN
  BY <1>1, <1>2, <1>3, <1>4, <1>5, AppendProperties DEF SessionTypes, Terminal
<1>7. SessionTypes' /\ OrderInv'
  BY <1>1, <1>2, <1>6 DEF SessionTypes, OrderInv
<1>8. ASSUME revived = {} PROVE OwnInv' /\ ShownInv' /\ DoneInv'
  <2>1. OwnInv /\ ShownInv /\ DoneInv
    BY <1>8 DEF SessionInv
  <2>2. r = runId /\ runId # 0
    BY <1>2, <2>1, RunsAreNumbers DEF OwnInv
  <2>3. /\ PieceOf(wire[r], r, cursor) /\ PieceOf(applied, r, 0)
        /\ cursor = Len(applied) /\ cursor + Len(wire[r]) <= ledger[r]
        /\ conn[r] = "open" => sent[r] = cursor + Len(wire[r])
    BY <2>1, <2>2 DEF ShownInv
  <2>4. /\ PieceOf(Tail(wire[r]), r, cursor + 1) /\ e = EventOf(r, cursor + 1)
        /\ Len(wire[r]) \in Nat \ {0} /\ Len(Tail(wire[r])) = Len(wire[r]) - 1
    BY <1>2, <1>3, <2>3, PieceTail DEF e
  <2>5. e.seq = cursor + 1 /\ cursor' = cursor + 1
    BY <1>2, <1>3, <2>4 DEF EventOf
  <2>6. OwnInv'
    BY <1>2, <1>6, <2>1, <2>2 DEF OwnInv
  <2>7. PieceOf(applied', r, 0)
    <3>1. 0 + Len(applied) + 1 = cursor + 1 /\ 0 \in Nat
      BY <1>3, <2>3
    <3> QED
      BY <1>2, <1>3, <1>4, <2>3, <2>4, <3>1, PieceAppend
  <2>8. \A m, n \in Nat : m + n = (m + 1) + (n - 1)
    OBVIOUS
  <2>9. /\ cursor' + Len(wire'[r]) = cursor + Len(wire[r])
    BY <1>3, <1>6, <2>4, <2>5, <2>8
  <2>10. ShownInv'
    BY <1>2, <1>6, <2>2, <2>3, <2>4, <2>5, <2>7, <2>9 DEF ShownInv
  <2>11. cursor < MaxEvents
    BY <1>1, <1>3, <2>2, <2>3, <2>4, ShownRun, RunsAreNumbers
  <2>12. request = "none"
    BY <1>3, <2>1, <2>2, <2>11, RunsAreNumbers DEF DoneInv
  <2>13. DoneInv'
    BY <1>2, <1>5, <2>1, <2>5, <2>12 DEF DoneInv
  <2> QED
    BY <2>6, <2>10, <2>13
<1> QED
  BY <1>2, <1>7, <1>8 DEF SessionInv

LEMMA OnCloseKeeps == ASSUME SessionInv, NEW r \in Runs, OnClose(r) PROVE SessionInv'
<1>1. SessionTypes /\ OrderInv
  BY DEF SessionInv
<1>2. /\ conn[r] = "closing" \/ (conn[r] = "shut" /\ wire[r] = <<>>)
      /\ conn' = [conn EXCEPT ![r] = IF closed THEN "done" ELSE "timer"]
      /\ revived' = IF r # runId /\ ~closed THEN revived \cup {r} ELSE revived
      /\ UNCHANGED <<server, sent, wire, page>>
  BY DEF OnClose
<1>3. /\ conn' \in [Runs -> ConnStates] /\ conn'[r] = IF closed THEN "done" ELSE "timer"
      /\ \A c \in Runs \ {r} : conn'[c] = conn[c]
  BY <1>1, <1>2 DEF SessionTypes, ConnStates
<1>4. SessionTypes' /\ OrderInv'
  BY <1>1, <1>2, <1>3 DEF SessionTypes, OrderInv, server, page
<1>5. ASSUME revived' = {} PROVE OwnInv' /\ ShownInv' /\ DoneInv'
  <2>1. revived = {} /\ (r = runId \/ closed)
    BY <1>2, <1>5
  <2>2. OwnInv /\ ShownInv /\ DoneInv
    BY <2>1 DEF SessionInv
  <2>3. OwnInv'
    BY <1>2, <1>3, <2>1, <2>2 DEF OwnInv, page
  <2>4. ShownInv'
    BY <1>1, <1>2, <1>3, <2>2, ShownRun DEF ShownInv, server, page
  <2>5. DoneInv'
    BY <1>2, <1>3, <2>2 DEF DoneInv, server, page
  <2> QED
    BY <2>3, <2>4, <2>5
<1> QED
  BY <1>4, <1>5 DEF SessionInv

LEMMA ReconnectKeeps == ASSUME SessionInv, NEW r \in Runs, Reconnect(r) PROVE SessionInv'
<1>1. SessionTypes /\ OrderInv
  BY DEF SessionInv
<1>2. /\ conn[r] = "timer"
      /\ conn' = [conn EXCEPT ![r] = "open"] /\ sent' = [sent EXCEPT ![r] = cursor]
      /\ UNCHANGED <<server, wire, page, revived>>
  BY DEF Reconnect
<1>3. /\ conn' \in [Runs -> ConnStates] /\ conn'[r] = "open"
      /\ sent' \in [Runs -> Nat] /\ sent'[r] = cursor
      /\ \A c \in Runs \ {r} : conn'[c] = conn[c]
  BY <1>1, <1>2 DEF SessionTypes, ConnStates
<1>4. SessionTypes' /\ OrderInv'
  BY <1>1, <1>2, <1>3 DEF SessionTypes, OrderInv, server, page
<1>5. ASSUME revived = {} PROVE OwnInv' /\ ShownInv' /\ DoneInv'
  <2>1. OwnInv /\ ShownInv /\ DoneInv
    BY <1>5 DEF SessionInv
  <2>2. r = runId /\ runId # 0 /\ wire[r] = <<>>
    BY <1>2, <2>1, RunsAreNumbers DEF OwnInv
  <2>3. OwnInv'
    BY <1>2, <1>3, <2>1, <2>2 DEF OwnInv, page
  <2>4. sent'[r] = cursor + Len(wire[r])
    BY <1>1, <1>3, <2>2, EmptySeq DEF SessionTypes
  <2>5. ShownInv'
    BY <1>2, <1>3, <2>1, <2>2, <2>4 DEF ShownInv, server, page
  <2>6. DoneInv'
    BY <1>2, <1>3, <2>1, <2>2 DEF DoneInv, server, page
  <2> QED
    BY <2>3, <2>5, <2>6
<1>6. revived' = revived
  BY <1>2
<1> QED
  BY <1>4, <1>5, <1>6 DEF SessionInv

LEMMA StutterKeeps == ASSUME SessionInv, UNCHANGED vars PROVE SessionInv'
<1>1. /\ UNCHANGED <<created, ledger, conn, sent, wire, request, runId, left, cursor>>
      /\ UNCHANGED <<closed, active, applied, revived>>
  BY DEF vars, server, sockets, page
<1>2. (SessionTypes => SessionTypes') /\ (OrderInv => OrderInv')
  BY <1>1 DEF SessionTypes, OrderInv
<1>3. (OwnInv => OwnInv') /\ (ShownInv => ShownInv') /\ (DoneInv => DoneInv')
  BY <1>1 DEF OwnInv, ShownInv, DoneInv
<1> QED
  BY <1>1, <1>2, <1>3 DEF SessionInv

LEMMA SessionStep == SessionInv /\ [Next]_vars => SessionInv'
<1> SUFFICES ASSUME SessionInv, [Next]_vars PROVE SessionInv'
  OBVIOUS
<1>1. CASE Serve
  BY <1>1, RequestKeeps, SendKeeps DEF Serve
<1>2. CASE Browse
  BY <1>2, ShowRunKeeps, ReceiveKeeps, OnCloseKeeps, ReconnectKeeps DEF Browse
<1>3. CASE Submit \/ CreateFails \/ Leave
  BY <1>3, RequestKeeps, LeaveKeeps
<1>4. CASE \E r \in Runs : AppendEvent(r) \/ Cut(r)
  BY <1>4, AppendEventKeeps, CutKeeps
<1> QED
  BY <1>1, <1>2, <1>3, <1>4, StutterKeeps DEF Next

LEMMA SessionInvariant == Spec => []SessionInv
BY InitSession, SessionStep, PTL DEF Spec

(* The page shows a prefix of the ledger of the run it names, for any      *)
(* number of runs, events and drops, as long as no socket outlives its     *)
(* cleanup (useRunStream, RunPage).                                        *)
THEOREM PageShowsItsRun == Spec => []ShowsOwnRun
<1>1. SessionInv => ShowsOwnRun
  <2> SUFFICES ASSUME SessionInv, revived = {}
               PROVE  /\ Len(applied) <= MaxEvents
                      /\ \A i \in DOMAIN applied : applied[i] = EventOf(runId, i)
    BY DEF ShowsOwnRun
  <2>1. SessionTypes /\ ShownInv /\ DoneInv
    BY DEF SessionInv
  <2>2. applied \in Seq(Sent) /\ DOMAIN applied = 1 .. Len(applied) /\ Len(applied) \in Nat
    BY <2>1, LenProperties DEF SessionTypes
  <2>3. Len(applied) <= MaxEvents
    BY <2>1, <2>2, ShownRun, RunsAreNumbers DEF ShownInv, SessionTypes
  <2>4. \A i \in 1 .. Len(applied) : 0 + i = i
    BY <2>2
  <2> QED
    BY <2>1, <2>2, <2>3, <2>4 DEF ShownInv, PieceOf
<1> QED
  BY <1>1, SessionInvariant, PTL

(* No run is left behind at work, under the same condition: the button is  *)
(* enabled only by the terminal event of the run shown (RunPage).          *)
THEOREM NoneLeftAtWork == Spec => []OneRunAtATime
<1>1. SessionInv => OneRunAtATime
  BY DEF SessionInv, DoneInv, OneRunAtATime
<1> QED
  BY <1>1, SessionInvariant, PTL
=============================================================================
