-------------------------- MODULE EventStreamProofs --------------------------
(***************************************************************************)
(* EventStream for any number of events, cuts and crashes: nothing that is *)
(* not durable is ever delivered, and the page shows a prefix of the       *)
(* ledger.                                                                 *)
(***************************************************************************)
EXTENDS EventStream, SequenceTheorems, TLAPS

Row == [seq : Nat, type : Types]

(* s is a piece of the ledger l: the events after the first n of it.       *)
Piece(s, l, n) ==
    /\ n \in Nat
    /\ n + Len(s) <= Len(l)
    /\ \A i \in 1 .. Len(s) : s[i] = l[n + i]

LEMMA PieceEmpty ==
    ASSUME NEW l \in Seq(Row), NEW n \in Nat, n <= Len(l)
    PROVE  Piece(<<>>, l, n)
BY DEF Piece

LEMMA PieceGrownLedger ==
    ASSUME NEW l \in Seq(Row), NEW e \in Row, NEW s \in Seq(Row), NEW n, Piece(s, l, n)
    PROVE  Piece(s, Append(l, e), n)
<1>1. /\ Len(Append(l, e)) = Len(l) + 1
      /\ \A i \in 1 .. Len(l) : Append(l, e)[i] = l[i]
  BY AppendProperties
<1>2. Len(s) \in Nat /\ Len(l) \in Nat
  BY LenProperties
<1> QED
  BY <1>1, <1>2 DEF Piece

LEMMA PieceAppend ==
    ASSUME NEW l \in Seq(Row), NEW s \in Seq(Row), NEW n, Piece(s, l, n),
           NEW e \in Row, n + Len(s) < Len(l), e = l[n + Len(s) + 1]
    PROVE  Piece(Append(s, e), l, n)
<1>1. /\ Len(Append(s, e)) = Len(s) + 1
      /\ \A i \in 1 .. Len(s) : Append(s, e)[i] = s[i]
      /\ Append(s, e)[Len(s) + 1] = e
  BY AppendProperties
<1>2. Len(s) \in Nat /\ Len(l) \in Nat
  BY LenProperties
<1>3. ASSUME NEW i \in 1 .. (Len(s) + 1) PROVE Append(s, e)[i] = l[n + i]
  <2>1. CASE i \in 1 .. Len(s)
    BY <1>1, <2>1 DEF Piece
  <2>2. CASE i = Len(s) + 1
    <3>1. n + i = n + Len(s) + 1
      BY <1>2, <2>2 DEF Piece
    <3> QED
      BY <1>1, <2>2, <3>1
  <2> QED
    BY <1>2, <2>1, <2>2
<1> QED
  BY <1>1, <1>2, <1>3 DEF Piece

LEMMA PieceTail ==
    ASSUME NEW l \in Seq(Row), NEW s \in Seq(Row), s # <<>>, NEW n, Piece(s, l, n)
    PROVE  /\ Piece(Tail(s), l, n + 1)
           /\ Head(s) = l[n + 1] /\ n + 1 \in 1 .. Len(l)
           /\ Head(s) \in Row /\ Tail(s) \in Seq(Row) /\ Len(Tail(s)) = Len(s) - 1
           /\ Len(s) \in Nat \ {0}
<1>1. /\ Len(s) \in Nat \ {0} /\ Len(l) \in Nat
      /\ Tail(s) \in Seq(Row) /\ Len(Tail(s)) = Len(s) - 1
      /\ \A i \in 1 .. Len(Tail(s)) : Tail(s)[i] = s[i + 1]
      /\ Head(s) \in Row /\ Head(s) = s[1]
  BY HeadTailProperties, EmptySeq, LenProperties
<1>2. Head(s) = l[n + 1] /\ n + 1 \in 1 .. Len(l)
  BY <1>1 DEF Piece
<1>3. ASSUME NEW i \in 1 .. Len(Tail(s)) PROVE Tail(s)[i] = l[(n + 1) + i]
  <2>1. i + 1 \in 1 .. Len(s) /\ n + (i + 1) = (n + 1) + i
    BY <1>1 DEF Piece
  <2> QED
    BY <1>1, <2>1 DEF Piece
<1> QED
  BY <1>1, <1>2, <1>3 DEF Piece

LEMMA PieceAfter ==
    ASSUME NEW l \in Seq(Row), NEW n \in Nat, n <= Len(l)
    PROVE  /\ SubSeq(l, n + 1, Len(l)) \in Seq(Row)
           /\ Len(SubSeq(l, n + 1, Len(l))) = Len(l) - n
           /\ Piece(SubSeq(l, n + 1, Len(l)), l, n)
<1>1. Len(l) \in Nat /\ \A i \in (n + 1) .. Len(l) : l[i] \in Row
  BY LenProperties, ElementOfSeq
<1>2. /\ SubSeq(l, n + 1, Len(l)) \in Seq(Row)
      /\ Len(SubSeq(l, n + 1, Len(l))) = IF n + 1 <= Len(l) THEN Len(l) - (n + 1) + 1 ELSE 0
      /\ \A i \in 1 .. (Len(l) - (n + 1) + 1) :
             SubSeq(l, n + 1, Len(l))[i] = l[(n + 1) + i - 1]
  BY <1>1, SubSeqProperties
<1>3. Len(SubSeq(l, n + 1, Len(l))) = Len(l) - n
  BY <1>1, <1>2
<1>4. \A i \in 1 .. (Len(l) - n) : (n + 1) + i - 1 = n + i
  BY <1>1
<1> QED
  BY <1>1, <1>2, <1>3, <1>4 DEF Piece

-----------------------------------------------------------------------------
StreamTypes ==
    /\ server \in {"up", "down", "recovering"}
    /\ ledger \in Seq(Row)
    /\ emitting \in {<<>>, <<"publish">>, <<"append", "publish">>}
    /\ event \in Row
    /\ hub \subseteq Conns
    /\ handler \in [Conns -> HandlerStates]
    /\ backlog \in [Conns -> Seq(Row)]
    /\ queue \in [Conns -> Seq(Row)]
    /\ lastSent \in [Conns -> Nat]
    /\ link \in [Conns -> {"none", "open", "shut", "cut"}]
    /\ wire \in [Conns -> Seq(Row)]
    /\ cuts \in 0 .. MaxCuts /\ crashes \in 0 .. MaxCrashes
    /\ page \in {"waiting", "connected", "done", "left"}
    /\ conn \in Nat /\ cursor \in Nat /\ closed \in BOOLEAN
    /\ applied \in Seq(Row)

(* A row's number is its place; what is being emitted has the next one.    *)
LedgerInv ==
    /\ \A i \in 1 .. Len(ledger) : ledger[i].seq = i
    /\ emitting = <<"append", "publish">> => event.seq = Len(ledger) + 1
    /\ emitting = <<"publish">> => Len(ledger) > 0 /\ ledger[Len(ledger)] = event

(* The rows that have been published, or never will be.                    *)
Published == IF emitting = <<"publish">> THEN Len(ledger) - 1 ELSE Len(ledger)

(* A queue holds the last rows published.                                  *)
Since(k) == Published - Len(queue[k])

QueueInv ==
    \A k \in Conns :
        /\ queue[k] # <<>> => k \in hub
        /\ Piece(queue[k], ledger, Since(k))

(* What a handler has sent, its backlog and its queue leave no gap.        *)
HandlerInv ==
    \A k \in Conns :
        /\ handler[k] \in {"subscribed", "backlog", "live", "leaving"} => k \in hub
        /\ lastSent[k] <= Len(ledger)
        /\ handler[k] = "backlog" =>
              /\ Piece(backlog[k], ledger, lastSent[k])
              /\ Since(k) <= lastSent[k] + Len(backlog[k])
        /\ handler[k] = "live" => Since(k) <= lastSent[k]

(* Only the page's current connection is open or has events on the wire.   *)
LinkInv ==
    \A k \in Conns :
        /\ link[k] = "open" => k = conn /\ page = "connected"
        /\ wire[k] # <<>> => k = conn /\ page = "connected"
        /\ link[k] = "none" => handler[k] = "none"
        /\ link[k] = "shut" => handler[k] = "gone"
        /\ k > conn => link[k] = "none"

(* The connection that has ended without the terminal event was cut.       *)
CountInv ==
    /\ page = "waiting" => conn <= cuts + crashes
    /\ page = "connected" =>
          /\ conn \in 1 .. (1 + cuts + crashes)
          /\ link[conn] = "cut" \/ handler[conn] \in {"leaving", "gone"} =>
                \/ conn <= cuts + crashes
                \/ closed
                \/ \E i \in 1 .. Len(wire[conn]) : wire[conn][i].type = "end"

(* Shown, then on the wire, then sent next.                                *)
PageInv ==
    /\ cursor = Len(applied)
    /\ Piece(applied, ledger, 0)
    /\ page = "connected" =>
          /\ Piece(wire[conn], ledger, cursor)
          /\ link[conn] = "open" => lastSent[conn] = cursor + Len(wire[conn])

StreamInv ==
    /\ StreamTypes /\ LedgerInv /\ QueueInv /\ HandlerInv
    /\ LinkInv /\ CountInv /\ PageInv

-----------------------------------------------------------------------------
LEMMA ConnsAreNumbers == Conns \subseteq Nat \ {0} /\ Conns = 1 .. (1 + MaxCuts + MaxCrashes)
BY StreamAssumption DEF Conns

LEMMA InitStream == Init => StreamInv
<1> SUFFICES ASSUME Init PROVE StreamInv
  OBVIOUS
<1>1. <<>> \in Seq(Row) /\ Len(<<>>) = 0
  BY EmptySeq
<1>2. /\ ledger = <<>> /\ emitting = <<>> /\ queue = [k \in Conns |-> <<>>]
      /\ applied = <<>> /\ cursor = 0
  BY DEF Init
<1>3. StreamTypes
  <2>1. cuts \in 0 .. MaxCuts /\ crashes \in 0 .. MaxCrashes
    BY StreamAssumption DEF Init
  <2>2. event \in Row
    BY DEF Init, Row, Types
  <2> QED
    BY <1>1, <2>1, <2>2 DEF Init, StreamTypes, HandlerStates
<1>4. Published = 0 /\ \A k \in Conns : queue[k] = <<>> /\ Since(k) = 0
  <2>1. emitting # <<"publish">>
    BY <1>2
  <2> QED
    BY <1>1, <1>2, <2>1 DEF Published, Since
<1>5. Piece(<<>>, ledger, 0)
  BY <1>1, <1>2 DEF Piece
<1>6. LedgerInv
  <2>1. emitting # <<"append", "publish">> /\ emitting # <<"publish">>
    BY <1>2
  <2>2. 1 .. Len(ledger) = {}
    BY <1>1, <1>2
  <2> QED
    BY <2>1, <2>2 DEF LedgerInv
<1>7. QueueInv
  BY <1>4, <1>5 DEF QueueInv
<1>8. HandlerInv
  BY <1>1, <1>2 DEF Init, HandlerInv
<1>9. LinkInv /\ CountInv
  BY ConnsAreNumbers DEF Init, LinkInv, CountInv
<1>10. PageInv
  BY <1>1, <1>2, <1>5 DEF Init, PageInv
<1> QED
  BY <1>3, <1>6, <1>7, <1>8, <1>9, <1>10 DEF StreamInv

-----------------------------------------------------------------------------
(* The emitter                                                             *)

(* Who leaves the ledger, the queues and the emitter leaves Since.         *)
LEMMA SameQueues ==
    ASSUME UNCHANGED <<ledger, emitting, queue>>
    PROVE  Published' = Published /\ \A k : Since(k)' = Since(k)
BY DEF Published, Since

LEMMA SameLinks ==
    ASSUME LinkInv, CountInv, UNCHANGED <<handler, netVars, pageVars>>
    PROVE  LinkInv' /\ CountInv'
<1>1. UNCHANGED <<handler, link, wire, cuts, crashes, page, conn, closed>>
  BY DEF netVars, pageVars
<1>2. LinkInv'
  BY <1>1 DEF LinkInv
<1>3. CountInv'
  BY <1>1 DEF CountInv
<1> QED
  BY <1>2, <1>3

LEMMA CurrentConn ==
    ASSUME StreamTypes, CountInv, page = "connected"
    PROVE  /\ conn \in Conns /\ conn \in Nat
           /\ wire[conn] \in Seq(Row) /\ Len(wire[conn]) \in Nat
           /\ lastSent[conn] \in Nat
<1>1. conn \in Conns
  BY ConnsAreNumbers, StreamAssumption DEF StreamTypes, CountInv
<1> QED
  BY <1>1, LenProperties DEF StreamTypes

LEMMA EmitterSteps ==
    ASSUME NEW e \in {<<>>, <<"publish">>, <<"append", "publish">>}, e # <<>>
    PROVE  /\ Head(e) = "append" => e = <<"append", "publish">> /\ Tail(e) = <<"publish">>
           /\ Head(e) = "publish" => e = <<"publish">> /\ Tail(e) = <<>>
<1>1. CASE e = <<"publish">>
  BY <1>1
<1>2. CASE e = <<"append", "publish">>
  BY <1>2
<1> QED
  BY <1>1, <1>2

LEMMA BeginEmitKeeps == ASSUME StreamInv, BeginEmit PROVE StreamInv'
<1>1. /\ StreamTypes /\ LedgerInv /\ QueueInv /\ HandlerInv
      /\ LinkInv /\ CountInv /\ PageInv
  BY DEF StreamInv
<1>2. /\ emitting = <<>> /\ emitting' = <<"append", "publish">>
      /\ \E type \in Types : event' = [seq |-> Len(ledger) + 1, type |-> type]
      /\ UNCHANGED <<server, ledger, hub, handlerVars, netVars, pageVars>>
  BY DEF BeginEmit, EmitSteps, NextSeq
<1>3. Len(ledger) \in Nat
  BY <1>1 DEF StreamTypes
<1>4. event' \in Row /\ event'.seq = Len(ledger) + 1
  BY <1>2, <1>3 DEF Row
<1>5. StreamTypes'
  BY <1>1, <1>2, <1>4 DEF StreamTypes, handlerVars, netVars, pageVars
<1>6. LedgerInv'
  <2>1. emitting' # <<"publish">>
    BY <1>2
  <2> QED
    BY <1>1, <1>2, <1>4, <2>1 DEF LedgerInv
<1>7. Published' = Published
  BY <1>2 DEF Published
<1>8. \A k : Since(k)' = Since(k)
  BY <1>2, <1>7 DEF Since, handlerVars
<1>9. QueueInv' /\ HandlerInv'
  BY <1>1, <1>2, <1>8 DEF QueueInv, HandlerInv, handlerVars
<1>10. LinkInv' /\ CountInv' /\ PageInv'
  BY <1>1, <1>2, SameLinks DEF PageInv, handlerVars, netVars, pageVars
<1> QED
  BY <1>5, <1>6, <1>9, <1>10 DEF StreamInv

LEMMA AppendEventKeeps == ASSUME StreamInv, AppendEvent PROVE StreamInv'
<1>1. /\ StreamTypes /\ LedgerInv /\ QueueInv /\ HandlerInv
      /\ LinkInv /\ CountInv /\ PageInv
  BY DEF StreamInv
<1>2. /\ emitting = <<"append", "publish">> /\ emitting' = <<"publish">>
      /\ ledger' = Append(ledger, event)
      /\ UNCHANGED <<server, event, hub, handler, backlog, queue, lastSent, netVars, pageVars>>
  BY <1>1, EmitterSteps DEF AppendEvent, Emitting, StreamTypes
<1>3. ledger \in Seq(Row) /\ event \in Row /\ Len(ledger) \in Nat /\ event.seq = Len(ledger) + 1
  BY <1>1, <1>2, LenProperties DEF StreamTypes, LedgerInv
<1>4. /\ ledger' \in Seq(Row) /\ Len(ledger') = Len(ledger) + 1
      /\ \A i \in 1 .. Len(ledger) : ledger'[i] = ledger[i]
      /\ ledger'[Len(ledger) + 1] = event
  BY <1>2, <1>3, AppendProperties
<1>5. StreamTypes'
  BY <1>1, <1>2, <1>4 DEF StreamTypes, netVars, pageVars
<1>6. LedgerInv'
  <2>1. emitting' # <<"append", "publish">>
    BY <1>2
  <2>2. \A i \in 1 .. Len(ledger') : ledger'[i].seq = i
    BY <1>1, <1>3, <1>4 DEF LedgerInv
  <2> QED
    BY <1>2, <1>3, <1>4, <2>1, <2>2 DEF LedgerInv
<1>7. Published' = Published
  BY <1>2, <1>3, <1>4 DEF Published
<1>8. \A k : Since(k)' = Since(k)
  BY <1>2, <1>7 DEF Since
<1>9. \A s \in Seq(Row) : \A n : Piece(s, ledger, n) => Piece(s, ledger', n)
  BY <1>2, <1>3, PieceGrownLedger
<1>10. QueueInv'
  BY <1>1, <1>2, <1>8, <1>9 DEF QueueInv, StreamTypes
<1>11. HandlerInv'
  BY <1>1, <1>2, <1>3, <1>4, <1>8, <1>9 DEF HandlerInv, StreamTypes
<1>12. LinkInv' /\ CountInv'
  BY <1>1, <1>2, SameLinks
<1>13. PageInv'
  <2>1. applied \in Seq(Row) /\ page = "connected" => wire[conn] \in Seq(Row)
    BY <1>1, CurrentConn
  <2>2. applied \in Seq(Row)
    BY <1>1 DEF StreamTypes
  <2> QED
    BY <1>1, <1>2, <1>9, <2>1, <2>2 DEF PageInv, netVars, pageVars
<1> QED
  BY <1>5, <1>6, <1>10, <1>11, <1>12, <1>13 DEF StreamInv

LEMMA AppendRaisesKeeps == ASSUME StreamInv, AppendRaises PROVE StreamInv'
<1>1. /\ StreamTypes /\ LedgerInv /\ QueueInv /\ HandlerInv
      /\ LinkInv /\ CountInv /\ PageInv
  BY DEF StreamInv
<1>2. /\ emitting = <<"append", "publish">> /\ emitting' = <<>>
      /\ server' \in {"up", "down", "recovering"}
      /\ UNCHANGED <<ledger, event, hub, handlerVars, netVars, pageVars>>
  <2>1. emitting # <<>> /\ Head(emitting) = "append"
    BY DEF AppendRaises
  <2>2. emitting = <<"append", "publish">>
    BY <1>1, <2>1, EmitterSteps DEF StreamTypes
  <2>3. server' \in {"up", "down", "recovering"}
    BY <1>1 DEF AppendRaises, StreamTypes
  <2> QED
    BY <2>2, <2>3 DEF AppendRaises
<1>3. StreamTypes'
  BY <1>1, <1>2 DEF StreamTypes, handlerVars, netVars, pageVars
<1>4. emitting' # <<"append", "publish">> /\ emitting' # <<"publish">> /\ emitting # <<"publish">>
  BY <1>2
<1>5. LedgerInv'
  BY <1>1, <1>2, <1>4 DEF LedgerInv
<1>6. \A k : Since(k)' = Since(k)
  BY <1>2, <1>4 DEF Published, Since, handlerVars
<1>7. QueueInv' /\ HandlerInv'
  BY <1>1, <1>2, <1>6 DEF QueueInv, HandlerInv, handlerVars
<1>8. LinkInv' /\ CountInv' /\ PageInv'
  BY <1>1, <1>2, SameLinks DEF PageInv, handlerVars, netVars, pageVars
<1> QED
  BY <1>3, <1>5, <1>7, <1>8 DEF StreamInv

LEMMA PublishKeeps == ASSUME StreamInv, Publish PROVE StreamInv'
<1>1. /\ StreamTypes /\ LedgerInv /\ QueueInv /\ HandlerInv
      /\ LinkInv /\ CountInv /\ PageInv
  BY DEF StreamInv
<1>2. /\ emitting = <<"publish">> /\ emitting' = <<>>
      /\ queue' = [k \in Conns |-> IF k \in hub THEN Append(queue[k], event) ELSE queue[k]]
      /\ UNCHANGED <<server, ledger, event, hub, handler, backlog, lastSent, netVars, pageVars>>
  BY <1>1, EmitterSteps DEF Publish, Emitting, StreamTypes
<1>3. /\ ledger \in Seq(Row) /\ event \in Row /\ Len(ledger) \in Nat /\ Len(ledger) > 0
      /\ ledger[Len(ledger)] = event
  BY <1>1, <1>2, LenProperties DEF StreamTypes, LedgerInv
<1>4. emitting' # <<"append", "publish">> /\ emitting' # <<"publish">>
  BY <1>2
<1>5. Published = Len(ledger) - 1 /\ Published' = Len(ledger)
  BY <1>2, <1>4 DEF Published
<1>6. ASSUME NEW k \in Conns
      PROVE  /\ queue'[k] \in Seq(Row) /\ (queue'[k] # <<>> => k \in hub)
             /\ Piece(queue'[k], ledger, Since(k)')
             /\ k \in hub => Since(k)' = Since(k)
  <2>1. queue[k] \in Seq(Row) /\ Len(queue[k]) \in Nat
    BY <1>1, LenProperties DEF StreamTypes
  <2>2. Since(k)' = Len(ledger) - Len(queue'[k]) /\ Since(k) = Len(ledger) - 1 - Len(queue[k])
    BY <1>5 DEF Since
  <2>3. CASE k \in hub
    <3>1. queue'[k] = Append(queue[k], event)
      BY <1>2, <2>3
    <3>2. queue'[k] \in Seq(Row) /\ Len(queue'[k]) = Len(queue[k]) + 1
      BY <1>3, <2>1, <3>1, AppendProperties
    <3>3. Since(k)' = Since(k)
      BY <1>3, <2>1, <2>2, <3>2
    <3>4. Since(k) + Len(queue[k]) = Len(ledger) - 1
      BY <1>3, <2>1, <2>2
    <3>5. Piece(Append(queue[k], event), ledger, Since(k))
      <4>1. Since(k) + Len(queue[k]) < Len(ledger) /\ Since(k) + Len(queue[k]) + 1 = Len(ledger)
        BY <1>3, <3>4
      <4>2. Piece(queue[k], ledger, Since(k))
        BY <1>1 DEF QueueInv
      <4> QED
        BY <1>3, <2>1, <4>1, <4>2, PieceAppend
    <3> QED
      BY <2>3, <3>1, <3>2, <3>3, <3>5
  <2>4. CASE k \notin hub
    <3>1. queue[k] = <<>> /\ queue'[k] = <<>>
      BY <1>1, <1>2, <2>4 DEF QueueInv
    <3>2. Since(k)' = Len(ledger)
      BY <1>3, <2>2, <3>1
    <3> QED
      BY <1>3, <2>1, <2>4, <3>1, <3>2, PieceEmpty
  <2> QED
    BY <2>3, <2>4
<1>7. StreamTypes'
  BY <1>1, <1>2, <1>6 DEF StreamTypes, netVars, pageVars
<1>8. LedgerInv'
  BY <1>1, <1>2, <1>4 DEF LedgerInv
<1>9. QueueInv'
  BY <1>2, <1>6 DEF QueueInv
<1>10. HandlerInv'
  BY <1>1, <1>2, <1>6 DEF HandlerInv
<1>11. LinkInv' /\ CountInv' /\ PageInv'
  BY <1>1, <1>2, SameLinks DEF PageInv, netVars, pageVars
<1> QED
  BY <1>7, <1>8, <1>9, <1>10, <1>11 DEF StreamInv

-----------------------------------------------------------------------------
(* The handlers                                                            *)

LEMMA AcceptKeeps == ASSUME StreamInv, NEW k \in Conns, Accept(k) PROVE StreamInv'
<1>1. /\ StreamTypes /\ LedgerInv /\ QueueInv /\ HandlerInv
      /\ LinkInv /\ CountInv /\ PageInv
  BY DEF StreamInv
<1>2. /\ handler[k] = "none" /\ link[k] = "open"
      /\ handler' = [handler EXCEPT ![k] = "accepted"]
      /\ UNCHANGED <<serverVars, hub, backlog, queue, lastSent, netVars, pageVars>>
  BY DEF Accept
<1>3. StreamTypes'
  BY <1>1, <1>2 DEF StreamTypes, HandlerStates, serverVars, netVars, pageVars
<1>4. LedgerInv' /\ \A c : Since(c)' = Since(c)
  BY <1>1, <1>2, SameQueues DEF LedgerInv, serverVars
<1>5. QueueInv' /\ HandlerInv'
  BY <1>1, <1>2, <1>4 DEF QueueInv, HandlerInv, StreamTypes, serverVars
<1>6. LinkInv'
  BY <1>1, <1>2 DEF LinkInv, StreamTypes, netVars, pageVars
<1>7. CountInv' /\ PageInv'
  BY <1>1, <1>2, CurrentConn DEF CountInv, PageInv, StreamTypes, serverVars, netVars, pageVars
<1> QED
  BY <1>3, <1>4, <1>5, <1>6, <1>7 DEF StreamInv

LEMMA SubscribeKeeps == ASSUME StreamInv, NEW k \in Conns, Subscribe(k) PROVE StreamInv'
<1>1. /\ StreamTypes /\ LedgerInv /\ QueueInv /\ HandlerInv
      /\ LinkInv /\ CountInv /\ PageInv
  BY DEF StreamInv
<1>2. /\ handler[k] = "accepted"
      /\ handler' = [handler EXCEPT ![k] = "subscribed"]
      /\ hub' = hub \cup {k}
      /\ UNCHANGED <<serverVars, backlog, queue, lastSent, netVars, pageVars>>
  BY DEF Subscribe
<1>3. StreamTypes'
  BY <1>1, <1>2 DEF StreamTypes, HandlerStates, serverVars, netVars, pageVars
<1>4. LedgerInv' /\ \A c : Since(c)' = Since(c)
  BY <1>1, <1>2, SameQueues DEF LedgerInv, serverVars
<1>5. QueueInv' /\ HandlerInv'
  BY <1>1, <1>2, <1>4 DEF QueueInv, HandlerInv, StreamTypes, serverVars
<1>6. LinkInv'
  BY <1>1, <1>2 DEF LinkInv, StreamTypes, netVars, pageVars
<1>7. CountInv' /\ PageInv'
  BY <1>1, <1>2, CurrentConn DEF CountInv, PageInv, StreamTypes, serverVars, netVars, pageVars
<1> QED
  BY <1>3, <1>4, <1>5, <1>6, <1>7 DEF StreamInv

LEMMA BackfillKeeps == ASSUME StreamInv, NEW k \in Conns, Backfill(k) PROVE StreamInv'
<1>1. /\ StreamTypes /\ LedgerInv /\ QueueInv /\ HandlerInv
      /\ LinkInv /\ CountInv /\ PageInv
  BY DEF StreamInv
<1>2. /\ handler[k] = "subscribed"
      /\ handler' = [handler EXCEPT ![k] = "backlog"]
      /\ backlog' = [backlog EXCEPT ![k] = SubSeq(ledger, lastSent[k] + 1, Len(ledger))]
      /\ UNCHANGED <<serverVars, hub, queue, lastSent, netVars, pageVars>>
  BY DEF Backfill, RowsAfter
<1>3. /\ ledger \in Seq(Row) /\ Len(ledger) \in Nat
      /\ lastSent[k] \in Nat /\ lastSent[k] <= Len(ledger)
      /\ queue[k] \in Seq(Row) /\ Len(queue[k]) \in Nat
  BY <1>1, LenProperties DEF StreamTypes, HandlerInv
<1>4. /\ backlog'[k] \in Seq(Row) /\ Len(backlog'[k]) = Len(ledger) - lastSent[k]
      /\ Piece(backlog'[k], ledger, lastSent[k])
  BY <1>1, <1>2, <1>3, PieceAfter DEF StreamTypes
<1>5. StreamTypes'
  BY <1>1, <1>2, <1>4 DEF StreamTypes, HandlerStates, serverVars, netVars, pageVars
<1>6. LedgerInv' /\ \A c : Since(c)' = Since(c)
  BY <1>1, <1>2, SameQueues DEF LedgerInv, serverVars
<1>7. Since(k) <= Len(ledger)
  BY <1>3 DEF Since, Published
<1>8. QueueInv'
  BY <1>1, <1>2, <1>6 DEF QueueInv, serverVars
<1>9. HandlerInv'
  BY <1>1, <1>2, <1>3, <1>4, <1>6, <1>7 DEF HandlerInv, StreamTypes, serverVars
<1>10. LinkInv'
  BY <1>1, <1>2 DEF LinkInv, StreamTypes, netVars, pageVars
<1>11. CountInv' /\ PageInv'
  BY <1>1, <1>2, CurrentConn DEF CountInv, PageInv, StreamTypes, serverVars, netVars, pageVars
<1> QED
  BY <1>5, <1>6, <1>8, <1>9, <1>10, <1>11 DEF StreamInv

LEMMA GoLiveKeeps == ASSUME StreamInv, NEW k \in Conns, GoLive(k) PROVE StreamInv'
<1>1. /\ StreamTypes /\ LedgerInv /\ QueueInv /\ HandlerInv
      /\ LinkInv /\ CountInv /\ PageInv
  BY DEF StreamInv
<1>2. /\ handler[k] = "backlog" /\ backlog[k] = <<>>
      /\ handler' = [handler EXCEPT ![k] = "live"]
      /\ UNCHANGED <<serverVars, hub, backlog, queue, lastSent, netVars, pageVars>>
  BY DEF GoLive
<1>3. StreamTypes'
  BY <1>1, <1>2 DEF StreamTypes, HandlerStates, serverVars, netVars, pageVars
<1>4. LedgerInv' /\ \A c : Since(c)' = Since(c)
  BY <1>1, <1>2, SameQueues DEF LedgerInv, serverVars
<1>5. Since(k) <= lastSent[k]
  <2>1. Since(k) <= lastSent[k] + Len(backlog[k]) /\ Len(backlog[k]) = 0 /\ lastSent[k] \in Nat
    BY <1>1, <1>2, EmptySeq DEF HandlerInv, StreamTypes
  <2> QED
    BY <2>1
<1>6. QueueInv' /\ HandlerInv'
  BY <1>1, <1>2, <1>4, <1>5 DEF QueueInv, HandlerInv, StreamTypes, serverVars
<1>7. LinkInv'
  BY <1>1, <1>2 DEF LinkInv, StreamTypes, netVars, pageVars
<1>8. CountInv' /\ PageInv'
  BY <1>1, <1>2, CurrentConn DEF CountInv, PageInv, StreamTypes, serverVars, netVars, pageVars
<1> QED
  BY <1>3, <1>4, <1>6, <1>7, <1>8 DEF StreamInv

LEMMA HandlerRaisesKeeps == ASSUME StreamInv, NEW k \in Conns, HandlerRaises(k) PROVE StreamInv'
<1>1. /\ StreamTypes /\ LedgerInv /\ QueueInv /\ HandlerInv
      /\ LinkInv /\ CountInv /\ PageInv
  BY DEF StreamInv
<1>2. /\ handler[k] \in {"subscribed", "backlog"} /\ link[k] = "open"
      /\ cuts < MaxCuts /\ cuts' = cuts + 1
      /\ handler' = [handler EXCEPT ![k] = "leaving"]
      /\ UNCHANGED <<serverVars, hub, backlog, queue, lastSent, link, wire, crashes, pageVars>>
  BY DEF HandlerRaises
<1>3. StreamTypes'
  BY <1>1, <1>2, StreamAssumption DEF StreamTypes, HandlerStates, serverVars, pageVars
<1>4. LedgerInv' /\ \A c : Since(c)' = Since(c)
  BY <1>1, <1>2, SameQueues DEF LedgerInv, serverVars
<1>5. QueueInv' /\ HandlerInv'
  BY <1>1, <1>2, <1>4 DEF QueueInv, HandlerInv, StreamTypes, serverVars
<1>6. LinkInv'
  BY <1>1, <1>2 DEF LinkInv, StreamTypes, pageVars
<1>7. CountInv'
  BY <1>1, <1>2, StreamAssumption DEF CountInv, StreamTypes, pageVars
<1>8. PageInv'
  BY <1>1, <1>2 DEF PageInv, serverVars, pageVars
<1> QED
  BY <1>3, <1>4, <1>5, <1>6, <1>7, <1>8 DEF StreamInv

LEMMA UnsubscribeKeeps == ASSUME StreamInv, NEW k \in Conns, Unsubscribe(k) PROVE StreamInv'
<1>1. /\ StreamTypes /\ LedgerInv /\ QueueInv /\ HandlerInv
      /\ LinkInv /\ CountInv /\ PageInv
  BY DEF StreamInv
<1>2. /\ handler[k] = "leaving"
      /\ handler' = [handler EXCEPT ![k] = "gone"]
      /\ hub' = hub \ {k}
      /\ link' = IF link[k] = "open" THEN [link EXCEPT ![k] = "shut"] ELSE link
      /\ backlog' = [backlog EXCEPT ![k] = <<>>]
      /\ queue' = [queue EXCEPT ![k] = <<>>]
      /\ lastSent' = [lastSent EXCEPT ![k] = 0]
      /\ UNCHANGED <<serverVars, wire, cuts, crashes, pageVars>>
  BY DEF Unsubscribe
<1>3. <<>> \in Seq(Row) /\ Len(<<>>) = 0 /\ ledger \in Seq(Row) /\ Len(ledger) \in Nat
  BY <1>1, EmptySeq, LenProperties DEF StreamTypes
<1>4. StreamTypes'
  BY <1>1, <1>2, <1>3 DEF StreamTypes, HandlerStates, serverVars, pageVars
<1>5. LedgerInv'
  BY <1>1, <1>2 DEF LedgerInv, serverVars
<1>6. /\ Published' = Published /\ Published \in Nat /\ Published <= Len(ledger)
      /\ queue'[k] = <<>> /\ \A c \in Conns \ {k} : queue'[c] = queue[c]
  <2>1. Published' = Published
    BY <1>2 DEF Published, serverVars
  <2>2. Published \in Nat /\ Published <= Len(ledger)
    BY <1>1, <1>3 DEF Published, LedgerInv
  <2>3. queue'[k] = <<>> /\ \A c \in Conns \ {k} : queue'[c] = queue[c]
    BY <1>1, <1>2 DEF StreamTypes
  <2> QED
    BY <2>1, <2>2, <2>3
<1>7. Since(k)' = Published /\ \A c \in Conns \ {k} : Since(c)' = Since(c)
  BY <1>3, <1>6 DEF Since
<1>8. QueueInv'
  BY <1>1, <1>2, <1>3, <1>6, <1>7, PieceEmpty DEF QueueInv, serverVars
<1>9. HandlerInv'
  BY <1>1, <1>2, <1>3, <1>7 DEF HandlerInv, StreamTypes, serverVars
<1>10. LinkInv'
  BY <1>1, <1>2 DEF LinkInv, StreamTypes, pageVars
<1>11. CountInv' /\ PageInv'
  BY <1>1, <1>2, CurrentConn DEF CountInv, PageInv, StreamTypes, serverVars, pageVars
<1> QED
  BY <1>4, <1>5, <1>8, <1>9, <1>10, <1>11 DEF StreamInv

(* A send of the row after the last one sent.                              *)
LEMMA SendKeeps ==
    ASSUME StreamInv, NEW k \in Conns, handler[k] \in {"backlog", "live"},
           NEW e \in Row, lastSent[k] + 1 \in 1 .. Len(ledger),
           e = ledger[lastSent[k] + 1], Send(k, e),
           UNCHANGED <<serverVars, link, cuts, crashes, pageVars>>
    PROVE  /\ wire' \in [Conns -> Seq(Row)]
           /\ lastSent' \in [Conns -> Nat]
           /\ handler' \in [Conns -> HandlerStates]
           /\ \A c \in Conns \ {k} : lastSent'[c] = lastSent[c] /\ handler'[c] = handler[c]
           /\ handler'[k] \in {handler[k], "leaving"}
           /\ handler'[k] # "leaving" => lastSent'[k] = lastSent[k] + 1
           /\ lastSent'[k] <= Len(ledger)
           /\ LinkInv' /\ CountInv' /\ PageInv'
<1>1. /\ StreamTypes /\ LedgerInv /\ HandlerInv /\ LinkInv /\ CountInv /\ PageInv
  BY DEF StreamInv
<1>2. /\ ledger' = ledger /\ link' = link /\ cuts' = cuts /\ crashes' = crashes
      /\ page' = page /\ conn' = conn /\ cursor' = cursor /\ closed' = closed
      /\ applied' = applied
  BY DEF serverVars, pageVars
<1>3. /\ ledger \in Seq(Row) /\ Len(ledger) \in Nat /\ e.seq = lastSent[k] + 1
      /\ lastSent[k] \in Nat
  BY <1>1, LenProperties DEF StreamTypes, LedgerInv
<1>4. link[k] \in {"open", "cut"}
  BY <1>1 DEF StreamTypes, LinkInv
<1>5. CASE /\ link[k] = "cut" /\ handler' = [handler EXCEPT ![k] = "leaving"]
           /\ UNCHANGED <<wire, lastSent>>
  <2>1. lastSent'[k] <= Len(ledger)
    BY <1>1, <1>5 DEF HandlerInv
  <2>2. LinkInv'
    BY <1>1, <1>2, <1>5 DEF LinkInv, StreamTypes
  <2>3. CountInv'
    BY <1>1, <1>2, <1>5, CurrentConn DEF CountInv, StreamTypes
  <2>4. PageInv'
    BY <1>1, <1>2, <1>5 DEF PageInv
  <2> QED
    BY <1>1, <1>5, <2>1, <2>2, <2>3, <2>4 DEF StreamTypes, HandlerStates
<1>6. ASSUME wire' = IF link[k] = "open" THEN [wire EXCEPT ![k] = Append(@, e)] ELSE wire,
             lastSent' = [lastSent EXCEPT ![k] = e.seq],
             handler' = IF Terminal(e) THEN [handler EXCEPT ![k] = "leaving"] ELSE handler
      PROVE  /\ wire' \in [Conns -> Seq(Row)]
             /\ lastSent' \in [Conns -> Nat]
             /\ handler' \in [Conns -> HandlerStates]
             /\ \A c \in Conns \ {k} : lastSent'[c] = lastSent[c] /\ handler'[c] = handler[c]
             /\ handler'[k] \in {handler[k], "leaving"}
             /\ lastSent'[k] = lastSent[k] + 1
             /\ LinkInv' /\ CountInv' /\ PageInv'
  <2>1. lastSent' \in [Conns -> Nat] /\ lastSent'[k] = lastSent[k] + 1
    BY <1>1, <1>3, <1>6 DEF StreamTypes
  <2>2. /\ handler' \in [Conns -> HandlerStates]
        /\ \A c \in Conns \ {k} : lastSent'[c] = lastSent[c] /\ handler'[c] = handler[c]
        /\ handler'[k] \in {handler[k], "leaving"}
        /\ handler'[k] # handler[k] => e.type = "end"
    BY <1>1, <1>6 DEF StreamTypes, HandlerStates, Terminal
  <2>3. CASE link[k] = "cut"
    <3>1. wire' = wire
      BY <1>6, <2>3
    <3>2. LinkInv'
      BY <1>1, <1>2, <2>2, <2>3, <3>1 DEF LinkInv
    <3>3. CountInv'
      BY <1>1, <1>2, <2>2, <2>3, <3>1, CurrentConn DEF CountInv
    <3>4. PageInv'
      BY <1>1, <1>2, <2>2, <2>3, <3>1, CurrentConn DEF PageInv
    <3> QED
      BY <1>1, <2>1, <2>2, <3>1, <3>2, <3>3, <3>4 DEF StreamTypes
  <2>4. CASE link[k] = "open"
    <3>1. k = conn /\ page = "connected"
      BY <1>1, <2>4 DEF LinkInv
    <3>2. /\ wire[k] \in Seq(Row) /\ Len(wire[k]) \in Nat
          /\ wire' = [wire EXCEPT ![k] = Append(wire[k], e)] /\ wire'[k] = Append(wire[k], e)
          /\ Len(wire'[k]) = Len(wire[k]) + 1 /\ wire'[k] \in Seq(Row)
          /\ \A i \in 1 .. Len(wire[k]) : wire'[k][i] = wire[k][i]
          /\ wire'[k][Len(wire[k]) + 1] = e
      BY <1>1, <1>6, <2>4, LenProperties, AppendProperties DEF StreamTypes
    <3>3. wire' \in [Conns -> Seq(Row)] /\ \A c \in Conns \ {k} : wire'[c] = wire[c]
      BY <1>1, <3>2 DEF StreamTypes
    <3>4. LinkInv'
      BY <1>1, <1>2, <2>2, <2>4, <3>1, <3>3 DEF LinkInv
    <3>5. CountInv'
      BY <1>1, <1>2, <2>2, <2>4, <3>1, <3>2 DEF CountInv
    <3>6. Piece(wire'[k], ledger, cursor) /\ lastSent'[k] = cursor + Len(wire'[k])
      <4>1. Piece(wire[k], ledger, cursor) /\ lastSent[k] = cursor + Len(wire[k])
        BY <1>1, <2>4, <3>1 DEF PageInv
      <4>2. cursor \in Nat
        BY <1>1 DEF StreamTypes
      <4>3. cursor + Len(wire[k]) < Len(ledger)
        BY <1>3, <4>1
      <4>4. Piece(Append(wire[k], e), ledger, cursor)
        BY <1>3, <3>2, <4>1, <4>3, PieceAppend
      <4> QED
        BY <2>1, <3>2, <4>1, <4>2, <4>4
    <3>7. PageInv'
      BY <1>1, <1>2, <3>1, <3>6 DEF PageInv
    <3> QED
      BY <2>1, <2>2, <3>3, <3>4, <3>5, <3>7
  <2> QED
    BY <1>4, <2>3, <2>4
<1> QED
  BY <1>3, <1>5, <1>6 DEF Send

LEMMA SendBacklogKeeps == ASSUME StreamInv, NEW k \in Conns, SendBacklog(k) PROVE StreamInv'
<1>1. /\ StreamTypes /\ LedgerInv /\ QueueInv /\ HandlerInv
      /\ LinkInv /\ CountInv /\ PageInv
  BY DEF StreamInv
<1> DEFINE e == Head(backlog[k])
<1>2. /\ handler[k] = "backlog" /\ backlog[k] # <<>> /\ Send(k, e)
      /\ backlog' = [backlog EXCEPT ![k] = Tail(backlog[k])]
      /\ UNCHANGED <<serverVars, hub, queue, link, cuts, crashes, pageVars>>
  BY DEF SendBacklog
<1>3. ledger \in Seq(Row) /\ Len(ledger) \in Nat /\ lastSent[k] \in Nat /\ backlog[k] \in Seq(Row)
  BY <1>1, LenProperties DEF StreamTypes
<1>4. /\ Piece(backlog[k], ledger, lastSent[k])
      /\ Since(k) <= lastSent[k] + Len(backlog[k])
  BY <1>1, <1>2 DEF HandlerInv
<1>5. /\ Piece(Tail(backlog[k]), ledger, lastSent[k] + 1)
      /\ e = ledger[lastSent[k] + 1] /\ lastSent[k] + 1 \in 1 .. Len(ledger)
      /\ e \in Row /\ Tail(backlog[k]) \in Seq(Row)
      /\ Len(Tail(backlog[k])) = Len(backlog[k]) - 1 /\ Len(backlog[k]) \in Nat
  BY <1>2, <1>3, <1>4, PieceTail
<1> HIDE DEF e
<1>6. /\ wire' \in [Conns -> Seq(Row)]
      /\ lastSent' \in [Conns -> Nat]
      /\ handler' \in [Conns -> HandlerStates]
      /\ \A c \in Conns \ {k} : lastSent'[c] = lastSent[c] /\ handler'[c] = handler[c]
      /\ handler'[k] \in {handler[k], "leaving"}
      /\ handler'[k] # "leaving" => lastSent'[k] = lastSent[k] + 1
      /\ lastSent'[k] <= Len(ledger)
      /\ LinkInv' /\ CountInv' /\ PageInv'
  BY <1>2, <1>5, SendKeeps
<1>7. /\ backlog' \in [Conns -> Seq(Row)] /\ backlog'[k] = Tail(backlog[k])
      /\ \A c \in Conns \ {k} : backlog'[c] = backlog[c]
  BY <1>1, <1>2, <1>5 DEF StreamTypes
<1>8. StreamTypes'
  BY <1>1, <1>2, <1>6, <1>7 DEF StreamTypes, serverVars, pageVars
<1>9. LedgerInv' /\ \A c : Since(c)' = Since(c)
  BY <1>1, <1>2, SameQueues DEF LedgerInv, serverVars
<1>10. QueueInv'
  BY <1>1, <1>2, <1>9 DEF QueueInv, serverVars
<1>11. handler'[k] = "backlog" =>
           /\ Piece(backlog'[k], ledger, lastSent'[k])
           /\ Since(k) <= lastSent'[k] + Len(backlog'[k])
  <2>1. lastSent[k] + Len(backlog[k]) = (lastSent[k] + 1) + (Len(backlog[k]) - 1)
    BY <1>3, <1>5
  <2> QED
    BY <1>4, <1>5, <1>6, <1>7, <2>1
<1>12. HandlerInv'
  <2>1. ledger' = ledger /\ hub' = hub
    BY <1>2 DEF serverVars
  <2>2. ASSUME NEW c \in Conns \ {k}
        PROVE  /\ handler'[c] \in {"subscribed", "backlog", "live", "leaving"} => c \in hub
               /\ lastSent'[c] <= Len(ledger)
               /\ handler'[c] = "backlog" =>
                     /\ Piece(backlog'[c], ledger, lastSent'[c])
                     /\ Since(c) <= lastSent'[c] + Len(backlog'[c])
               /\ handler'[c] = "live" => Since(c) <= lastSent'[c]
    BY <1>1, <1>6, <1>7 DEF HandlerInv
  <2>3. k \in hub /\ handler'[k] # "live"
    BY <1>1, <1>2, <1>6 DEF HandlerInv
  <2> QED
    BY <1>6, <1>9, <1>11, <2>1, <2>2, <2>3 DEF HandlerInv
<1> QED
  BY <1>6, <1>8, <1>9, <1>10, <1>12 DEF StreamInv

LEMMA SendLiveKeeps == ASSUME StreamInv, NEW k \in Conns, SendLive(k) PROVE StreamInv'
<1>1. /\ StreamTypes /\ LedgerInv /\ QueueInv /\ HandlerInv
      /\ LinkInv /\ CountInv /\ PageInv
  BY DEF StreamInv
<1> DEFINE e == Head(queue[k])
<1>2. /\ handler[k] = "live" /\ queue[k] # <<>>
      /\ \/ e.seq <= lastSent[k] /\ UNCHANGED <<handler, wire, lastSent>>
         \/ ~(e.seq <= lastSent[k]) /\ Send(k, e)
      /\ queue' = [queue EXCEPT ![k] = Tail(queue[k])]
      /\ UNCHANGED <<serverVars, hub, backlog, link, cuts, crashes, pageVars>>
  BY DEF SendLive, Delivered
<1>3. /\ ledger \in Seq(Row) /\ Len(ledger) \in Nat /\ lastSent[k] \in Nat
      /\ queue[k] \in Seq(Row) /\ Len(queue[k]) \in Nat
  BY <1>1, LenProperties DEF StreamTypes
<1>4. Piece(queue[k], ledger, Since(k)) /\ Since(k) <= lastSent[k]
  BY <1>1, <1>2 DEF QueueInv, HandlerInv
<1>5. /\ Piece(Tail(queue[k]), ledger, Since(k) + 1) /\ Since(k) \in Nat
      /\ e = ledger[Since(k) + 1] /\ Since(k) + 1 \in 1 .. Len(ledger)
      /\ e \in Row /\ Tail(queue[k]) \in Seq(Row)
      /\ Len(Tail(queue[k])) = Len(queue[k]) - 1
  <2>1. Since(k) \in Nat
    BY <1>4 DEF Piece
  <2> QED
    BY <1>2, <1>3, <1>4, <2>1, PieceTail
<1>6. e.seq = Since(k) + 1
  BY <1>1, <1>5 DEF LedgerInv
<1> HIDE DEF e
<1>7. /\ wire' \in [Conns -> Seq(Row)]
      /\ lastSent' \in [Conns -> Nat]
      /\ handler' \in [Conns -> HandlerStates]
      /\ \A c \in Conns \ {k} : lastSent'[c] = lastSent[c] /\ handler'[c] = handler[c]
      /\ handler'[k] \in {handler[k], "leaving"}
      /\ handler'[k] # "leaving" => Since(k) + 1 <= lastSent'[k]
      /\ lastSent'[k] <= Len(ledger)
      /\ LinkInv' /\ CountInv' /\ PageInv'
  <2>1. CASE e.seq <= lastSent[k] /\ UNCHANGED <<handler, wire, lastSent>>
    <3>1. LinkInv' /\ CountInv'
      BY <1>1, <1>2, <2>1, SameLinks DEF netVars
    <3>2. PageInv'
      BY <1>1, <1>2, <2>1 DEF PageInv, serverVars, pageVars
    <3> QED
      BY <1>1, <1>6, <2>1, <3>1, <3>2 DEF StreamTypes, HandlerInv
  <2>2. CASE ~(e.seq <= lastSent[k]) /\ Send(k, e)
    <3>1. Since(k) = lastSent[k]
      BY <1>3, <1>4, <1>5, <1>6, <2>2
    <3> QED
      BY <1>2, <1>3, <1>5, <2>2, <3>1, SendKeeps
  <2> QED
    BY <1>2, <2>1, <2>2
<1>8. /\ queue' \in [Conns -> Seq(Row)] /\ queue'[k] = Tail(queue[k])
      /\ \A c \in Conns \ {k} : queue'[c] = queue[c]
  BY <1>1, <1>2, <1>5 DEF StreamTypes
<1>9. StreamTypes'
  BY <1>1, <1>2, <1>7, <1>8 DEF StreamTypes, serverVars, pageVars
<1>10. LedgerInv' /\ Published' = Published /\ ledger' = ledger /\ hub' = hub /\ backlog' = backlog
  BY <1>1, <1>2 DEF LedgerInv, Published, serverVars
<1>11. Published \in Nat
  BY <1>1, <1>3 DEF Published, LedgerInv
<1>12. Since(k)' = Since(k) + 1 /\ \A c \in Conns \ {k} : Since(c)' = Since(c)
  <2>1. Since(k)' = Published - Len(queue'[k]) /\ Since(k) = Published - Len(queue[k])
    BY <1>10 DEF Since
  <2>2. \A c \in Conns \ {k} : Since(c)' = Since(c)
    BY <1>8, <1>10 DEF Since
  <2>3. Len(queue'[k]) = Len(queue[k]) - 1
    BY <1>5, <1>8
  <2>4. Published - (Len(queue[k]) - 1) = (Published - Len(queue[k])) + 1
    BY <1>3, <1>11
  <2> QED
    BY <2>1, <2>2, <2>3, <2>4
<1>13. QueueInv'
  BY <1>1, <1>2, <1>5, <1>8, <1>10, <1>12 DEF QueueInv, HandlerInv
<1>14. HandlerInv'
  <2>1. k \in hub /\ handler'[k] # "backlog"
    BY <1>1, <1>2, <1>7 DEF HandlerInv
  <2> QED
    BY <1>1, <1>7, <1>10, <1>12, <2>1 DEF HandlerInv
<1> QED
  BY <1>7, <1>9, <1>10, <1>13, <1>14 DEF StreamInv

-----------------------------------------------------------------------------
(* The page, and what goes wrong                                           *)

LEMMA ConnectKeeps == ASSUME StreamInv, Connect PROVE StreamInv'
<1>1. /\ StreamTypes /\ LedgerInv /\ QueueInv /\ HandlerInv
      /\ LinkInv /\ CountInv /\ PageInv
  BY DEF StreamInv
<1>2. /\ page = "waiting" /\ page' = "connected" /\ conn' = conn + 1
      /\ link' = [link EXCEPT ![conn + 1] = "open"]
      /\ lastSent' = [lastSent EXCEPT ![conn + 1] = cursor]
      /\ UNCHANGED <<serverVars, hub, handler, backlog, queue, wire, cuts, crashes,
                     cursor, closed, applied>>
  BY DEF Connect
<1> DEFINE k == conn + 1
<1>3. k \in Conns /\ k \in Nat /\ k \in 1 .. (1 + cuts + crashes) /\ cursor \in Nat
  BY <1>1, <1>2, ConnsAreNumbers, StreamAssumption DEF StreamTypes, CountInv
<1>4. k > conn
  BY <1>1 DEF StreamTypes
<1> HIDE DEF k
<1>5. link[k] = "none" /\ handler[k] = "none" /\ \A c \in Conns : wire[c] = <<>>
  BY <1>1, <1>2, <1>3, <1>4 DEF LinkInv
<1>6. /\ conn' = k /\ link' = [link EXCEPT ![k] = "open"]
      /\ lastSent' = [lastSent EXCEPT ![k] = cursor]
  BY <1>2 DEF k
<1>7. ledger \in Seq(Row) /\ Len(ledger) \in Nat /\ cursor <= Len(ledger) /\ Len(<<>>) = 0
  BY <1>1, EmptySeq, LenProperties DEF StreamTypes, PageInv, Piece
<1>8. StreamTypes'
  BY <1>1, <1>2, <1>3, <1>6 DEF StreamTypes, serverVars
<1>9. LedgerInv' /\ \A c : Since(c)' = Since(c)
  BY <1>1, <1>2, SameQueues DEF LedgerInv, serverVars
<1>10. QueueInv'
  BY <1>1, <1>2, <1>9 DEF QueueInv, serverVars
<1>11. HandlerInv'
  <2>1. /\ lastSent'[k] = cursor /\ \A c \in Conns \ {k} : lastSent'[c] = lastSent[c]
        /\ ledger' = ledger /\ hub' = hub /\ handler' = handler /\ backlog' = backlog
    BY <1>1, <1>2, <1>3, <1>6 DEF StreamTypes, serverVars
  <2> QED
    BY <1>1, <1>5, <1>7, <1>9, <2>1 DEF HandlerInv
<1>12. \A c \in Conns \ {k} : link'[c] = link[c] /\ link[c] # "open"
  BY <1>1, <1>2, <1>6 DEF LinkInv, StreamTypes
<1>13. link'[k] = "open" /\ wire' = wire /\ handler' = handler
  BY <1>1, <1>2, <1>3, <1>6 DEF StreamTypes
<1>14. LinkInv'
  <2>1. \A c \in Conns : c > k => c > conn /\ c # k
    BY <1>1, <1>3, <1>4, ConnsAreNumbers DEF StreamTypes
  <2> QED
    BY <1>1, <1>2, <1>5, <1>6, <1>12, <1>13, <2>1 DEF LinkInv
<1>15. CountInv'
  BY <1>2, <1>3, <1>5, <1>6, <1>13 DEF CountInv
<1>16. PageInv'
  <2>1. wire'[k] = <<>> /\ lastSent'[k] = cursor /\ ledger' = ledger
    BY <1>1, <1>2, <1>3, <1>5, <1>6 DEF StreamTypes, serverVars
  <2>2. Piece(wire'[k], ledger', cursor)
    BY <1>3, <1>7, <2>1, PieceEmpty
  <2>3. lastSent'[k] = cursor + Len(wire'[k])
    BY <1>3, <1>7, <2>1
  <2> QED
    BY <1>1, <1>2, <1>6, <2>1, <2>2, <2>3 DEF PageInv
<1> QED
  BY <1>8, <1>9, <1>10, <1>11, <1>14, <1>15, <1>16 DEF StreamInv

LEMMA ReceiveKeeps == ASSUME StreamInv, Receive PROVE StreamInv'
<1>1. /\ StreamTypes /\ LedgerInv /\ QueueInv /\ HandlerInv
      /\ LinkInv /\ CountInv /\ PageInv
  BY DEF StreamInv
<1> DEFINE e == Head(wire[conn])
<1>2. /\ page = "connected" /\ wire[conn] # <<>>
      /\ applied' = Append(applied, e)
      /\ cursor' = IF e.seq > cursor THEN e.seq ELSE cursor
      /\ closed' = (closed \/ e.type = "end")
      /\ wire' = [wire EXCEPT ![conn] = Tail(wire[conn])]
      /\ UNCHANGED <<serverVars, hub, handlerVars, link, cuts, crashes, page, conn>>
  BY DEF Receive
<1>3. /\ conn \in Conns /\ wire[conn] \in Seq(Row) /\ cursor \in Nat
      /\ ledger \in Seq(Row) /\ Len(ledger) \in Nat
      /\ applied \in Seq(Row) /\ cursor = Len(applied)
      /\ Piece(applied, ledger, 0) /\ Piece(wire[conn], ledger, cursor)
  BY <1>1, <1>2, CurrentConn, LenProperties DEF StreamTypes, PageInv
<1>4. /\ Piece(Tail(wire[conn]), ledger, cursor + 1)
      /\ e = ledger[cursor + 1] /\ cursor + 1 \in 1 .. Len(ledger)
      /\ e \in Row /\ Tail(wire[conn]) \in Seq(Row)
      /\ Len(Tail(wire[conn])) = Len(wire[conn]) - 1 /\ Len(wire[conn]) \in Nat
  BY <1>2, <1>3, PieceTail
<1>5. e.seq = cursor + 1
  BY <1>1, <1>4 DEF LedgerInv
<1>6. /\ \A i \in 1 .. Len(Tail(wire[conn])) : Tail(wire[conn])[i] = wire[conn][i + 1]
      /\ e = wire[conn][1]
  BY <1>2, <1>3, HeadTailProperties
<1> HIDE DEF e
<1>7. /\ cursor' = cursor + 1 /\ closed' \in BOOLEAN
      /\ applied' \in Seq(Row) /\ Len(applied') = cursor + 1
  BY <1>1, <1>2, <1>3, <1>4, <1>5, AppendProperties DEF StreamTypes
<1>8. /\ wire' \in [Conns -> Seq(Row)] /\ wire'[conn] = Tail(wire[conn])
      /\ \A c \in Conns \ {conn} : wire'[c] = wire[c]
  BY <1>1, <1>2, <1>3, <1>4 DEF StreamTypes
<1>9. StreamTypes'
  <2>1. cursor' \in Nat /\ closed' \in BOOLEAN /\ applied' \in Seq(Row)
    BY <1>3, <1>7
  <2>2. UNCHANGED <<serverVars, hub, handlerVars, link, cuts, crashes, page, conn>>
    BY <1>2
  <2> QED
    BY <1>1, <1>8, <2>1, <2>2 DEF StreamTypes, serverVars, handlerVars
<1>10. LedgerInv' /\ \A c : Since(c)' = Since(c)
  BY <1>1, <1>2, SameQueues DEF LedgerInv, serverVars, handlerVars
<1>11. QueueInv' /\ HandlerInv'
  BY <1>1, <1>2, <1>10 DEF QueueInv, HandlerInv, serverVars, handlerVars
<1>12. LinkInv'
  BY <1>1, <1>2, <1>8 DEF LinkInv, handlerVars
<1>13. CountInv'
  <2>1. ASSUME NEW i \in 1 .. Len(wire[conn]), wire[conn][i].type = "end", e.type # "end"
        PROVE  \E j \in 1 .. Len(wire'[conn]) : wire'[conn][j].type = "end"
    <3>1. i # 1 /\ i - 1 \in 1 .. Len(Tail(wire[conn]))
      BY <1>4, <1>6, <2>1
    <3>2. Tail(wire[conn])[i - 1] = wire[conn][i]
      BY <1>4, <1>6, <3>1
    <3> QED
      BY <1>8, <2>1, <3>1, <3>2
  <2>2. /\ page' = page /\ conn' = conn /\ cuts' = cuts /\ crashes' = crashes
        /\ link' = link /\ handler' = handler
    BY <1>2 DEF handlerVars
  <2> QED
    BY <1>1, <1>2, <2>1, <2>2 DEF CountInv
<1>14. PageInv'
  <2>1. Piece(applied', ledger, 0)
    <3>1. 0 + Len(applied) < Len(ledger) /\ 0 + Len(applied) + 1 = cursor + 1
      BY <1>3, <1>4
    <3> QED
      BY <1>2, <1>3, <1>4, <3>1, PieceAppend
  <2>2. link[conn] = "open" => lastSent[conn] = (cursor + 1) + (Len(wire[conn]) - 1)
    <3>1. link[conn] = "open" => lastSent[conn] = cursor + Len(wire[conn])
      BY <1>1, <1>2 DEF PageInv
    <3>2. \A m, n \in Nat : m + n = (m + 1) + (n - 1)
      OBVIOUS
    <3> QED
      BY <1>3, <1>4, <3>1, <3>2
  <2>3. /\ ledger' = ledger /\ link' = link /\ lastSent' = lastSent /\ conn' = conn
    BY <1>2 DEF serverVars, handlerVars
  <2> QED
    BY <1>4, <1>7, <1>8, <2>1, <2>2, <2>3 DEF PageInv
<1> QED
  BY <1>9, <1>10, <1>11, <1>12, <1>13, <1>14 DEF StreamInv

LEMMA OnCloseKeeps == ASSUME StreamInv, OnClose PROVE StreamInv'
<1>1. /\ StreamTypes /\ LedgerInv /\ QueueInv /\ HandlerInv
      /\ LinkInv /\ CountInv /\ PageInv
  BY DEF StreamInv
<1>2. /\ page = "connected" /\ link[conn] \in {"shut", "cut"} /\ wire[conn] = <<>>
      /\ page' = IF closed THEN "done" ELSE "waiting"
      /\ UNCHANGED <<serverVars, hub, handlerVars, netVars, conn, cursor, closed, applied>>
  BY DEF OnClose
<1>3. conn \in Conns
  BY <1>1, <1>2, CurrentConn
<1>4. StreamTypes'
  BY <1>1, <1>2 DEF StreamTypes, serverVars, handlerVars, netVars
<1>5. LedgerInv' /\ \A c : Since(c)' = Since(c)
  BY <1>1, <1>2, SameQueues DEF LedgerInv, serverVars, handlerVars
<1>6. QueueInv' /\ HandlerInv'
  BY <1>1, <1>2, <1>5 DEF QueueInv, HandlerInv, serverVars, handlerVars
<1>7. LinkInv'
  BY <1>1, <1>2, <1>3 DEF LinkInv, handlerVars, netVars
<1>8. CountInv'
  <2>1. closed \/ conn <= cuts + crashes
    <3>1. link[conn] = "shut" => handler[conn] = "gone"
      BY <1>1, <1>3 DEF LinkInv
    <3>2. Len(wire[conn]) = 0
      BY <1>2, EmptySeq
    <3> QED
      BY <1>1, <1>2, <3>1, <3>2 DEF CountInv
  <2> QED
    BY <1>1, <1>2, <2>1 DEF CountInv, StreamTypes, netVars
<1>9. PageInv'
  BY <1>1, <1>2 DEF PageInv, serverVars
<1> QED
  BY <1>4, <1>5, <1>6, <1>7, <1>8, <1>9 DEF StreamInv

LEMMA LeaveKeeps == ASSUME StreamInv, Leave PROVE StreamInv'
<1>1. /\ StreamTypes /\ LedgerInv /\ QueueInv /\ HandlerInv
      /\ LinkInv /\ CountInv /\ PageInv
  BY DEF StreamInv
<1>2. /\ page' = "left" /\ closed' = TRUE
      /\ link' = [k \in Conns |-> IF k = conn /\ link[k] = "open" THEN "cut" ELSE link[k]]
      /\ wire' = [k \in Conns |-> IF k = conn THEN <<>> ELSE wire[k]]
      /\ UNCHANGED <<serverVars, hub, handlerVars, cuts, crashes, conn, cursor, applied>>
  BY DEF Leave
<1>3. StreamTypes'
  BY <1>1, <1>2, EmptySeq DEF StreamTypes, serverVars, handlerVars
<1>4. LedgerInv' /\ \A c : Since(c)' = Since(c)
  BY <1>1, <1>2, SameQueues DEF LedgerInv, serverVars, handlerVars
<1>5. QueueInv' /\ HandlerInv'
  BY <1>1, <1>2, <1>4 DEF QueueInv, HandlerInv, serverVars, handlerVars
<1>6. LinkInv'
  BY <1>1, <1>2 DEF LinkInv, handlerVars
<1>7. CountInv' /\ PageInv'
  BY <1>1, <1>2 DEF CountInv, PageInv, serverVars
<1> QED
  BY <1>3, <1>4, <1>5, <1>6, <1>7 DEF StreamInv

LEMMA CutKeeps == ASSUME StreamInv, Cut PROVE StreamInv'
<1>1. /\ StreamTypes /\ LedgerInv /\ QueueInv /\ HandlerInv
      /\ LinkInv /\ CountInv /\ PageInv
  BY DEF StreamInv
<1>2. /\ cuts < MaxCuts /\ cuts' = cuts + 1
      /\ page = "connected" /\ link[conn] = "open"
      /\ link' = [link EXCEPT ![conn] = "cut"]
      /\ wire' = [wire EXCEPT ![conn] = <<>>]
      /\ UNCHANGED <<serverVars, hub, handlerVars, crashes, pageVars>>
  BY DEF Cut
<1>3. conn \in Conns
  BY <1>1, <1>2, CurrentConn
<1>4. StreamTypes'
  <2>1. cuts' \in 0 .. MaxCuts
    BY <1>1, <1>2, StreamAssumption DEF StreamTypes
  <2>2. wire' \in [Conns -> Seq(Row)]
    BY <1>1, <1>2, EmptySeq DEF StreamTypes
  <2> QED
    BY <1>1, <1>2, <2>1, <2>2 DEF StreamTypes, serverVars, handlerVars, pageVars
<1>5. LedgerInv' /\ \A c : Since(c)' = Since(c)
  BY <1>1, <1>2, SameQueues DEF LedgerInv, serverVars, handlerVars
<1>6. QueueInv' /\ HandlerInv'
  BY <1>1, <1>2, <1>5 DEF QueueInv, HandlerInv, serverVars, handlerVars
<1>7. LinkInv'
  BY <1>1, <1>2, <1>3 DEF LinkInv, StreamTypes, handlerVars, pageVars
<1>8. CountInv'
  BY <1>1, <1>2, StreamAssumption DEF CountInv, StreamTypes, pageVars
<1>9. PageInv'
  <2>1. wire'[conn] = <<>> /\ link'[conn] = "cut"
    BY <1>1, <1>2, <1>3 DEF StreamTypes
  <2>2. ledger \in Seq(Row) /\ cursor \in Nat /\ cursor <= Len(ledger)
    BY <1>1 DEF PageInv, StreamTypes, Piece
  <2>3. Piece(<<>>, ledger, cursor)
    BY <2>2, PieceEmpty
  <2> QED
    BY <1>1, <1>2, <2>1, <2>3 DEF PageInv, serverVars, pageVars
<1> QED
  BY <1>4, <1>5, <1>6, <1>7, <1>8, <1>9 DEF StreamInv

LEMMA CrashKeeps == ASSUME StreamInv, Crash PROVE StreamInv'
<1>1. /\ StreamTypes /\ LedgerInv /\ QueueInv /\ HandlerInv
      /\ LinkInv /\ CountInv /\ PageInv
  BY DEF StreamInv
<1>2. /\ crashes < MaxCrashes /\ crashes' = crashes + 1
      /\ server' = "down" /\ emitting' = <<>> /\ hub' = {}
      /\ handler' = [k \in Conns |-> IF handler[k] = "none" THEN "none" ELSE "gone"]
      /\ backlog' = [k \in Conns |-> <<>>] /\ queue' = [k \in Conns |-> <<>>]
      /\ lastSent' = [k \in Conns |-> 0]
      /\ link' = [k \in Conns |-> IF link[k] = "open" THEN "cut" ELSE link[k]]
      /\ wire' = [k \in Conns |-> IF link[k] = "open" THEN <<>> ELSE wire[k]]
      /\ UNCHANGED <<ledger, event, cuts, pageVars>>
  BY DEF Crash
<1>3. /\ <<>> \in Seq(Row) /\ Len(<<>>) = 0 /\ ledger \in Seq(Row) /\ Len(ledger) \in Nat
      /\ cursor \in Nat /\ cursor <= Len(ledger)
  BY <1>1, EmptySeq, LenProperties DEF StreamTypes, PageInv, Piece
<1>4. StreamTypes'
  BY <1>1, <1>2, <1>3, StreamAssumption DEF StreamTypes, HandlerStates, pageVars
<1>5. emitting' # <<"append", "publish">> /\ emitting' # <<"publish">>
  BY <1>2
<1>6. LedgerInv'
  BY <1>1, <1>2, <1>5 DEF LedgerInv
<1>7. \A k \in Conns : queue'[k] = <<>> /\ Since(k)' = Len(ledger)
  BY <1>2, <1>3, <1>5 DEF Since, Published
<1>8. QueueInv'
  BY <1>2, <1>3, <1>7, PieceEmpty DEF QueueInv
<1>9. HandlerInv'
  BY <1>2, <1>3 DEF HandlerInv
<1>10. LinkInv'
  BY <1>1, <1>2 DEF LinkInv, pageVars
<1>11. CountInv'
  BY <1>1, <1>2, StreamAssumption DEF CountInv, StreamTypes, pageVars
<1>12. PageInv'
  <2>1. ASSUME page = "connected" PROVE Piece(wire'[conn], ledger, cursor) /\ link'[conn] # "open"
    <3>1. conn \in Conns /\ Piece(wire[conn], ledger, cursor)
      BY <1>1, <2>1, CurrentConn DEF PageInv
    <3>2. wire'[conn] \in {wire[conn], <<>>} /\ link'[conn] # "open"
      BY <1>2, <3>1
    <3> QED
      BY <1>3, <3>1, <3>2, PieceEmpty
  <2> QED
    BY <1>1, <1>2, <2>1 DEF PageInv, pageVars
<1> QED
  BY <1>4, <1>6, <1>8, <1>9, <1>10, <1>11, <1>12 DEF StreamInv

LEMMA BootKeeps == ASSUME StreamInv, Boot PROVE StreamInv'
<1>1. /\ StreamTypes /\ LedgerInv /\ QueueInv /\ HandlerInv
      /\ LinkInv /\ CountInv /\ PageInv
  BY DEF StreamInv
<1>2. /\ server' \in {"up", "down", "recovering"}
      /\ UNCHANGED <<ledger, emitting, event, hub, handlerVars, netVars, pageVars>>
  BY DEF Boot
<1>3. StreamTypes'
  BY <1>1, <1>2 DEF StreamTypes, handlerVars, netVars, pageVars
<1>4. LedgerInv' /\ \A c : Since(c)' = Since(c)
  BY <1>1, <1>2, SameQueues DEF LedgerInv, handlerVars
<1>5. QueueInv' /\ HandlerInv'
  BY <1>1, <1>2, <1>4 DEF QueueInv, HandlerInv, handlerVars
<1>6. LinkInv' /\ CountInv' /\ PageInv'
  BY <1>1, <1>2, SameLinks DEF PageInv, handlerVars, netVars, pageVars
<1> QED
  BY <1>3, <1>4, <1>5, <1>6 DEF StreamInv

LEMMA StutterKeeps == ASSUME StreamInv, UNCHANGED vars PROVE StreamInv'
<1>1. /\ StreamTypes /\ LedgerInv /\ QueueInv /\ HandlerInv
      /\ LinkInv /\ CountInv /\ PageInv
  BY DEF StreamInv
<1>2. UNCHANGED <<serverVars, hub, handlerVars, netVars, pageVars>>
  BY DEF vars
<1>3. StreamTypes'
  BY <1>1, <1>2 DEF StreamTypes, serverVars, handlerVars, netVars, pageVars
<1>4. LedgerInv' /\ \A c : Since(c)' = Since(c)
  BY <1>1, <1>2, SameQueues DEF LedgerInv, serverVars, handlerVars
<1>5. QueueInv' /\ HandlerInv'
  BY <1>1, <1>2, <1>4 DEF QueueInv, HandlerInv, serverVars, handlerVars
<1>6. LinkInv' /\ CountInv' /\ PageInv'
  BY <1>1, <1>2, SameLinks DEF PageInv, serverVars, handlerVars, netVars, pageVars
<1> QED
  BY <1>3, <1>4, <1>5, <1>6 DEF StreamInv

LEMMA StreamStep == StreamInv /\ [Next]_vars => StreamInv'
<1> SUFFICES ASSUME StreamInv, [Next]_vars PROVE StreamInv'
  OBVIOUS
<1>1. ASSUME NEW k \in Conns, Handle(k) \/ HandlerRaises(k) PROVE StreamInv'
  BY <1>1, AcceptKeeps, SubscribeKeeps, BackfillKeeps, SendBacklogKeeps, GoLiveKeeps,
     SendLiveKeeps, UnsubscribeKeeps, HandlerRaisesKeeps DEF Handle
<1>2. CASE BeginEmit \/ Emit \/ AppendRaises
  BY <1>2, BeginEmitKeeps, AppendEventKeeps, AppendRaisesKeeps, PublishKeeps DEF Emit
<1>3. CASE Page \/ Leave
  BY <1>3, ConnectKeeps, ReceiveKeeps, OnCloseKeeps, LeaveKeeps DEF Page
<1>4. CASE Cut \/ Crash \/ Boot
  BY <1>4, CutKeeps, CrashKeeps, BootKeeps
<1> QED
  BY <1>1, <1>2, <1>3, <1>4, StutterKeeps DEF Next

(* The inductive invariant: ledger, backlog, queue, wire and view are      *)
(* pieces of one sequence that fit together (emit, publish, stream_run,    *)
(* useRunStream).                                                          *)
THEOREM StreamInvariant == Spec => []StreamInv
BY InitStream, StreamStep, PTL DEF Spec

(* Whatever is queued or under way to a page is a row of the ledger, for   *)
(* any number of events, connections and crashes (EventEmitter.emit).      *)
THEOREM OnlyDurableIsDelivered == Spec => []DeliveredIsDurable
<1>1. StreamInv => DeliveredIsDurable
  <2> SUFFICES ASSUME StreamInv, NEW k \in Conns, NEW s \in {queue[k], wire[k]},
                      NEW i \in DOMAIN s
               PROVE  s[i].seq \in DOMAIN ledger /\ ledger[s[i].seq] = s[i]
    BY DEF DeliveredIsDurable
  <2>1. /\ StreamTypes /\ LedgerInv /\ QueueInv /\ LinkInv /\ CountInv /\ PageInv
    BY DEF StreamInv
  <2>2. /\ s \in Seq(Row) /\ DOMAIN s = 1 .. Len(s) /\ Len(s) \in Nat
        /\ ledger \in Seq(Row) /\ DOMAIN ledger = 1 .. Len(ledger) /\ Len(ledger) \in Nat
    BY <2>1, LenProperties DEF StreamTypes
  <2>3. \E n : Piece(s, ledger, n)
    <3>1. CASE s = queue[k]
      BY <2>1, <3>1 DEF QueueInv
    <3>2. CASE s = wire[k]
      <4>1. s # <<>>
        BY <2>2, EmptySeq
      <4> QED
        BY <2>1, <3>2, <4>1 DEF LinkInv, PageInv
    <3> QED
      BY <3>1, <3>2
  <2>4. PICK n : Piece(s, ledger, n)
    BY <2>3
  <2>5. n + i \in 1 .. Len(ledger) /\ s[i] = ledger[n + i]
    BY <2>2, <2>4 DEF Piece
  <2> QED
    BY <2>1, <2>2, <2>5 DEF LedgerInv
<1> QED
  BY <1>1, StreamInvariant, PTL

(* The page shows a prefix of the ledger, for any number of events, cuts,  *)
(* lingering handlers and crashes (stream_run, useRunStream).              *)
THEOREM PageShowsPrefix == Spec => []ViewIsPrefix
<1>1. StreamInv => ViewIsPrefix
  <2> SUFFICES ASSUME StreamInv PROVE ViewIsPrefix
    OBVIOUS
  <2>1. /\ applied \in Seq(Row) /\ ledger \in Seq(Row) /\ Piece(applied, ledger, 0)
    BY DEF StreamInv, StreamTypes, PageInv
  <2>2. /\ Len(applied) \in Nat /\ Len(ledger) \in Nat /\ Len(applied) <= Len(ledger)
        /\ \A i \in 1 .. Len(applied) : applied[i] = ledger[i]
    BY <2>1, LenProperties DEF Piece
  <2> DEFINE prefix == SubSeq(ledger, 1, Len(applied))
  <2>3. \A i \in 1 .. Len(applied) : ledger[i] \in Row
    BY <2>1, <2>2, ElementOfSeq
  <2>4. /\ prefix \in Seq(Row)
        /\ Len(prefix) = IF 1 <= Len(applied) THEN Len(applied) - 1 + 1 ELSE 0
        /\ \A i \in 1 .. (Len(applied) - 1 + 1) : prefix[i] = ledger[1 + i - 1]
    BY <2>2, <2>3, SubSeqProperties
  <2>5. Len(prefix) = Len(applied) /\ \A i \in 1 .. Len(applied) : prefix[i] = ledger[i]
    BY <2>2, <2>4
  <2> HIDE DEF prefix
  <2>6. applied = prefix
    BY <2>1, <2>2, <2>4, <2>5, SeqEqual
  <2> QED
    BY <2>2, <2>6 DEF ViewIsPrefix, prefix
<1> QED
  BY <1>1, StreamInvariant, PTL
=============================================================================
