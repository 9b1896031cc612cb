--------------------------- MODULE TxQueueProofs ---------------------------
(***************************************************************************)
(* What holds of the transmit queue for every set of connections, every    *)
(* width of the sequence counter and every bound.                          *)
(***************************************************************************)
EXTENDS EventLoop, TLAPS

-----------------------------------------------------------------------------
(* Type correctness *)

LEMMA ModInRange ==
    ASSUME NEW n \in Nat
    PROVE  n % SeqnumMod \in 0..(SeqnumMod - 1)
  BY SeqnumModAssumption

LEMMA NewFrameType ==
    ASSUME TypeOK, NEW c \in Conns
    PROVE  /\ NewFrame(c) \in Frames
           /\ aim_get_next_txseqnum(c) \in 0..(SeqnumMod - 1)
  BY SeqnumModAssumption DEF TypeOK, NewFrame, aim_get_next_txseqnum, Frames

\* Setting fr->handled changes nothing else of a frame.
LEMMA MarkFrame ==
    ASSUME NEW f \in Frames
    PROVE  /\ [f EXCEPT !.handled = TRUE] \in Frames
           /\ [f EXCEPT !.handled = TRUE].handled = TRUE
           /\ [f EXCEPT !.handled = TRUE].conn = f.conn
           /\ [f EXCEPT !.handled = TRUE].gen = f.gen
           /\ [f EXCEPT !.handled = TRUE].id = f.id
           /\ [f EXCEPT !.handled = TRUE].n = f.n
           /\ [f EXCEPT !.handled = TRUE].seqnum = f.seqnum
  BY DEF Frames

\* Where the frames of a cleaned queue come from.
LEMMA CleanedFrame ==
    ASSUME NEW q \in SUBSET Frames, NEW c, NEW g \in aim_tx_cleanqueue(q, c)
    PROVE  /\ g \in Frames
           /\ g \in q \/ g.handled = TRUE
           /\ g.conn = c => g.handled = TRUE
           /\ \E f \in q : /\ f.id = g.id
                          /\ g = IF f.conn = c THEN [f EXCEPT !.handled = TRUE] ELSE f
  <1>1. PICK f \in q : g = IF f.conn = c THEN [f EXCEPT !.handled = TRUE] ELSE f
    BY DEF aim_tx_cleanqueue
  <1>2. f \in Frames
    OBVIOUS
  <1>3. CASE f.conn = c
    <2>1. g = [f EXCEPT !.handled = TRUE]
      BY <1>1, <1>3
    <2> QED
      BY <1>1, <1>2, <2>1, MarkFrame, Zenon
  <1>4. CASE f.conn # c
    BY <1>1, <1>2, <1>4
  <1> QED
    BY <1>3, <1>4

\* Every frame of the cleaned queue was in the queue, under the same id.
LEMMA CleanedFrom ==
    ASSUME NEW q \in SUBSET Frames, NEW c
    PROVE  \A g \in aim_tx_cleanqueue(q, c) : \E f \in q :
              f.id = g.id /\ g = IF f.conn = c THEN [f EXCEPT !.handled = TRUE] ELSE f
  <1> TAKE g \in aim_tx_cleanqueue(q, c)
  <1>1. PICK f \in q : g = IF f.conn = c THEN [f EXCEPT !.handled = TRUE] ELSE f
    BY DEF aim_tx_cleanqueue
  <1>2. f.id = [f EXCEPT !.handled = TRUE].id
    BY MarkFrame
  <1>3. f.id = g.id
    BY <1>1, <1>2
  <1> QED
    BY <1>1, <1>3

LEMMA TransmitType ==
    ASSUME TypeOK, NEW f \in Frames, NEW o, Transmit(f, o)
    PROVE  wire' \in [Conns -> Seq(Packets)]
  <1>1. Packet(f) \in Packets
    BY DEF Packet, Packets, Frames
  <1>2. f.conn \in Conns
    BY DEF Frames
  <1> QED
    BY <1>1, <1>2 DEF TypeOK, Transmit

LEMMA TypeStep == TypeOK /\ [Next]_vars => TypeOK'
  <1> SUFFICES ASSUME TypeOK, [Next]_vars PROVE TypeOK'
    OBVIOUS
  <1> USE DEF connVars, seqVars, loopVars
  <1>1. ASSUME NEW c \in Conns, aim_newconn(c) PROVE TypeOK'
    BY <1>1, SeqnumModAssumption DEF TypeOK, aim_newconn, ConnectOutcomes, SockStates
  <1>2. ASSUME NEW c \in Conns, aim_conn_close(c) PROVE TypeOK'
    BY <1>2 DEF TypeOK, aim_conn_close, SockStates
  <1>3. ASSUME NEW c \in Conns, aim_conn_kill(c) PROVE TypeOK'
    <2>1. queue_outgoing' \subseteq Frames
      BY <1>3, CleanedFrame DEF TypeOK, aim_conn_kill
    <2> QED
      BY <1>3, <2>1 DEF TypeOK, aim_conn_kill, SockStates
  <1>4. ASSUME NEW c \in Conns, CompleteConnect(c) PROVE TypeOK'
    BY <1>4 DEF TypeOK, CompleteConnect, SockStates
  <1>5. ASSUME NEW c \in Conns, FailConnect(c) PROVE TypeOK'
    BY <1>5 DEF TypeOK, FailConnect, SockStates
  <1>6. ASSUME NEW c \in Conns, PeerReset(c) PROVE TypeOK'
    BY <1>6 DEF TypeOK, PeerReset, SockStates
  <1>7. ASSUME NEW m \in Modes, aim_tx_setenqueue(m) PROVE TypeOK'
    BY <1>7, ModesAssumption DEF TypeOK, aim_tx_setenqueue
  <1>8. ASSUME NEW c \in Conns, aim_tx_enqueue__queuebased(c) PROVE TypeOK'
    BY <1>8, NewFrameType DEF TypeOK, aim_tx_enqueue__queuebased, HandOver
  <1>9. ASSUME NEW c \in Conns, aim_tx_enqueue__immediate(c) PROVE TypeOK'
    <2>1. wire' \in [Conns -> Seq(Packets)]
      BY <1>9, NewFrameType, TransmitType DEF aim_tx_enqueue__immediate
    <2>2. HandOver(c) /\ UNCHANGED <<connVars, tx_enqueue, queue_outgoing, loopVars>>
      BY <1>9 DEF aim_tx_enqueue__immediate
    <2>3. seqnum' \in [Conns -> 0..(SeqnumMod - 1)]
      BY <2>2, NewFrameType DEF TypeOK, HandOver
    <2> QED
      BY <2>1, <2>2, <2>3 DEF TypeOK, HandOver
  <1>10. ASSUME aim_tx_flushqueue PROVE TypeOK'
    BY <1>10 DEF TypeOK, aim_tx_flushqueue
  <1>11. ASSUME NEW f \in queue_outgoing, FlushSkip(f) PROVE TypeOK'
    BY <1>11 DEF TypeOK, FlushSkip, Frames
  <1>12. ASSUME NEW f \in queue_outgoing, FlushSend(f) PROVE TypeOK'
    <2>1. f \in Frames
      BY DEF TypeOK
    <2>2. wire' \in [Conns -> Seq(Packets)]
      BY <1>12, <2>1, TransmitType DEF FlushSend
    <2>3. queue_outgoing' \subseteq Frames /\ cursor' \in Nat
      BY <1>12, <2>1 DEF TypeOK, FlushSend, Frames
    <2> QED
      BY <1>12, <2>2, <2>3 DEF TypeOK, FlushSend
  <1>13. ASSUME FlushEnd PROVE TypeOK'
    BY <1>13 DEF TypeOK, FlushEnd, aim_tx_purgequeue
  <1>14. ASSUME CallbackReturns PROVE TypeOK'
    BY <1>14 DEF TypeOK, CallbackReturns
  <1>15. CASE UNCHANGED vars
    BY <1>15 DEF TypeOK, vars
  <1> QED
    BY <1>1, <1>2, <1>3, <1>4, <1>5, <1>6, <1>7, <1>8, <1>9, <1>10, <1>11, <1>12,
       <1>13, <1>14, <1>15 DEF Next, ConnNext, SendNext, FlushNext

\* Every variable of the transmit side keeps its type; in particular the stamps
\* stay within the width of flap_seqnum_t (txqueue.c:201-208).
THEOREM TypeCorrect == Spec => []TypeOK
  <1>1. Init => TypeOK
    <2> SUFFICES ASSUME Init PROVE TypeOK
      OBVIOUS
    <2>1. wire \in [Conns -> Seq(Packets)]
      BY DEF Init
    <2>2. seqnum \in [Conns -> 0..(SeqnumMod - 1)]
      BY SeqnumModAssumption DEF Init
    <2> QED
      BY <2>1, <2>2 DEF Init, TypeOK, SockStates
  <1> QED
    BY <1>1, TypeStep, PTL DEF Spec

-----------------------------------------------------------------------------
(* The inductive invariant *)

\* Frames are numbered by their place in the list, the wire by what was sent.
Numbered ==
    /\ \A f \in queue_outgoing : f.id \in 1..handed
    /\ \A f, g \in queue_outgoing : f.id = g.id => f = g
    /\ \A c \in Conns : \A i \in 1..Len(wire[c]) :
          wire[c][i].gen = gen[c] /\ wire[c][i].id <= handed

\* In immediate mode a careful client has nothing queued.
ModeKept ==
    /\ NonBlocking = FALSE => \A c \in Conns : inprogress[c] = FALSE
    /\ tx_enqueue = "immediate" => NonBlocking = FALSE /\ queue_outgoing = {}

\* The flush loop leaves only frames of connecting connections behind it.
LeftBehind ==
    flushing => \A f \in queue_outgoing :
        f.id <= cursor /\ f.handled = FALSE => inprogress[f.conn] = TRUE

\* What is on the wire was handed over before what is still to be sent.
WireFirst ==
    \A f \in queue_outgoing : f.handled = FALSE =>
        \A i \in 1..Len(wire[f.conn]) : wire[f.conn][i].id < f.id

OrderInv == Numbered /\ ModeKept /\ LeftBehind /\ WireFirst

\* The stamps are the low bits of the connection's own frame count.
Stamped ==
    /\ \A c \in Conns : seqnum[c] = count[c] % SeqnumMod
    /\ \A f \in queue_outgoing : f.seqnum = f.n % SeqnumMod

Healthy(c) == sock[c] \in {"connecting", "up"}

Unsent(c) == {f \in queue_outgoing : f.conn = c /\ f.handled = FALSE}

\* While c can still transmit, its unsent frames are exactly those after the
\* ones on the wire, and the list has them in the order of their numbers.
LedgerOf(c) ==
    /\ Len(wire[c]) <= count[c]
    /\ \A f \in Unsent(c) : f.n \in (Len(wire[c]) + 1)..count[c]
    /\ \A f, g \in Unsent(c) : f.id < g.id => f.n < g.n
    /\ \A k \in (Len(wire[c]) + 1)..count[c] : \E f \in Unsent(c) : f.n = k

Ledger ==
    \A c \in Conns : /\ Healthy(c) => LedgerOf(c)
                     /\ sock[c] = "connecting" => inprogress[c] = TRUE

FlapInv == Stamped /\ Ledger /\ FlapOrder

-----------------------------------------------------------------------------
(* No frame outlives its connection *)

\* A flush step adds no unsent frame.
LEMMA FlushedFrame ==
    ASSUME TypeOK, NEW f \in queue_outgoing, FlushSend(f), NEW g \in queue_outgoing'
    PROVE  \/ g \in queue_outgoing
           \/ g = [f EXCEPT !.handled = TRUE] /\ g.handled = TRUE
  <1>1. f \in Frames
    BY DEF TypeOK
  <1> QED
    BY <1>1, MarkFrame DEF FlushSend

LEMMA DanglingStep == TypeOK /\ NoDanglingFrame /\ [Next]_vars => NoDanglingFrame'
  <1> SUFFICES ASSUME TypeOK, NoDanglingFrame, [Next]_vars,
                      NEW g \in queue_outgoing', ~g.handled
               PROVE  g.conn \in connlist' /\ g.gen = gen'[g.conn]
    BY DEF NoDanglingFrame
  <1> USE DEF connVars, seqVars, loopVars
  <1>1. ASSUME NEW c \in Conns, aim_newconn(c)
        PROVE  g.conn \in connlist' /\ g.gen = gen'[g.conn]
    <2>1. g \in Frames /\ g.conn \in connlist /\ g.gen = gen[g.conn]
      BY <1>1 DEF aim_newconn, NoDanglingFrame, TypeOK
    <2>2. g.conn \in Conns /\ g.conn # c
      BY <1>1, <2>1 DEF aim_newconn, TypeOK
    <2> QED
      BY <1>1, <2>1, <2>2 DEF aim_newconn, TypeOK
  <1>2. ASSUME NEW c \in Conns, aim_conn_kill(c)
        PROVE  g.conn \in connlist' /\ g.gen = gen'[g.conn]
    <2>1. g \in queue_outgoing /\ g.conn # c
      BY <1>2, CleanedFrame DEF aim_conn_kill, TypeOK
    <2> QED
      BY <1>2, <2>1 DEF aim_conn_kill, NoDanglingFrame
  <1>3. ASSUME NEW c \in Conns, aim_tx_enqueue__queuebased(c)
        PROVE  g.conn \in connlist' /\ g.gen = gen'[g.conn]
    <2>1. NewFrame(c).conn = c /\ NewFrame(c).gen = gen[c]
      BY DEF NewFrame
    <2> QED
      BY <1>3, <2>1 DEF aim_tx_enqueue__queuebased, HandOver, NoDanglingFrame
  <1>4. ASSUME NEW f \in queue_outgoing, FlushSend(f)
        PROVE  g.conn \in connlist' /\ g.gen = gen'[g.conn]
    <2>1. g \in queue_outgoing
      BY <1>4, FlushedFrame
    <2> QED
      BY <1>4, <2>1 DEF FlushSend, NoDanglingFrame
  <1>5. ASSUME queue_outgoing' \subseteq queue_outgoing, UNCHANGED <<connlist, gen>>
        PROVE  g.conn \in connlist' /\ g.gen = gen'[g.conn]
    BY <1>5 DEF NoDanglingFrame
  <1>6. ASSUME NEW c \in Conns,
               \/ aim_conn_close(c) \/ CompleteConnect(c) \/ FailConnect(c)
               \/ PeerReset(c) \/ aim_tx_enqueue__immediate(c)
        PROVE  queue_outgoing' \subseteq queue_outgoing /\ UNCHANGED <<connlist, gen>>
    BY <1>6 DEF aim_conn_close, CompleteConnect, FailConnect, PeerReset,
                aim_tx_enqueue__immediate
  <1>7. ASSUME NEW m \in Modes, aim_tx_setenqueue(m)
        PROVE  queue_outgoing' \subseteq queue_outgoing /\ UNCHANGED <<connlist, gen>>
    BY <1>7 DEF aim_tx_setenqueue
  <1>8. ASSUME NEW f \in queue_outgoing, FlushSkip(f)
        PROVE  queue_outgoing' \subseteq queue_outgoing /\ UNCHANGED <<connlist, gen>>
    BY <1>8 DEF FlushSkip
  <1>9. ASSUME aim_tx_flushqueue \/ FlushEnd \/ CallbackReturns \/ UNCHANGED vars
        PROVE  queue_outgoing' \subseteq queue_outgoing /\ UNCHANGED <<connlist, gen>>
    BY <1>9 DEF aim_tx_flushqueue, FlushEnd, CallbackReturns, vars, aim_tx_purgequeue
  <1> QED
    BY <1>1, <1>2, <1>3, <1>4, <1>5, <1>6, <1>7, <1>8, <1>9
       DEF Next, ConnNext, SendNext, FlushNext

\* Whatever is killed, closed, reused and flushed in whatever order, the flush
\* loop never dereferences a connection that aim_conn_kill has freed, not even
\* one whose address is in use again (txqueue.c:352-387, 424-434).
THEOREM NoDangling == Spec => []NoDanglingFrame
  <1>1. Init => NoDanglingFrame
    BY DEF Init, NoDanglingFrame
  <1> QED
    BY <1>1, TypeCorrect, DanglingStep, PTL DEF Spec

-----------------------------------------------------------------------------
(* Frames leave in the order they were handed over *)

\* The client either never asks for immediate transmission, or it connects
\* synchronously and changes the mode only while nothing is queued.
CarefulClient ==
    \/ Modes \subseteq {"queued"}
    \/ NonBlocking = FALSE /\ SwitchesBusy = FALSE

LEMMA PacketTypes ==
    ASSUME TypeOK, NEW c \in Conns, NEW i \in 1..Len(wire[c])
    PROVE  wire[c][i] \in Packets /\ wire[c][i].id \in Nat /\ Len(wire[c]) \in Nat
  <1>1. wire[c] \in Seq(Packets)
    BY DEF TypeOK
  <1>2. wire[c][i] \in Packets /\ Len(wire[c]) \in Nat
    BY <1>1
  <1> QED
    BY <1>2 DEF Packets

\* A successful send adds one packet at the end of its connection's wire.
LEMMA TransmitEffect ==
    ASSUME TypeOK, NEW f \in Frames, NEW o, Transmit(f, o), NEW c \in Conns
    PROVE  /\ o = "sent" /\ c = f.conn =>
                /\ Len(wire'[c]) = Len(wire[c]) + 1
                /\ \A i \in 1..Len(wire[c]) : wire'[c][i] = wire[c][i]
                /\ wire'[c][Len(wire[c]) + 1] = Packet(f)
           /\ ~(o = "sent" /\ c = f.conn) => wire'[c] = wire[c]
           /\ Len(wire[c]) \in Nat
  <1>1. Packet(f) \in Packets /\ f.conn \in Conns
    BY DEF Packet, Packets, Frames
  <1>2. wire \in [Conns -> Seq(Packets)] /\ wire[c] \in Seq(Packets)
    BY DEF TypeOK
  <1>3. CASE o = "sent" /\ c = f.conn
    <2>1. wire'[c] = Append(wire[c], Packet(f))
      BY <1>1, <1>2, <1>3 DEF Transmit
    <2> QED
      BY <1>1, <1>2, <1>3, <2>1
  <1>4. CASE ~(o = "sent" /\ c = f.conn)
    BY <1>1, <1>2, <1>4 DEF Transmit
  <1> QED
    BY <1>3, <1>4

\* Steps that neither stamp nor send anything, and their common effect.
LEMMA QuietStep ==
    ASSUME \/ \E c \in Conns : \/ aim_conn_close(c) \/ CompleteConnect(c)
                               \/ FailConnect(c) \/ PeerReset(c)
           \/ \E m \in Modes : aim_tx_setenqueue(m)
           \/ \E f \in queue_outgoing : FlushSkip(f)
           \/ aim_tx_flushqueue \/ FlushEnd \/ CallbackReturns \/ UNCHANGED vars
    PROVE  /\ queue_outgoing' \subseteq queue_outgoing
           /\ UNCHANGED <<connlist, gen, seqnum, count, handed, wire>>
  BY DEF aim_conn_close, CompleteConnect, FailConnect, PeerReset, aim_tx_setenqueue,
         FlushSkip, aim_tx_flushqueue, FlushEnd, CallbackReturns, aim_tx_purgequeue,
         vars, connVars, seqVars, loopVars

LEMMA NumberedStep ==
    TypeOK /\ NoDanglingFrame /\ Numbered /\ [Next]_vars => Numbered'
  <1> SUFFICES ASSUME TypeOK, NoDanglingFrame, Numbered, [Next]_vars
               PROVE  Numbered'
    OBVIOUS
  <1> USE DEF connVars, seqVars, loopVars
  <1>1. ASSUME NEW c \in Conns, aim_newconn(c) PROVE Numbered'
    BY <1>1 DEF Numbered, aim_newconn, TypeOK
  <1>2. ASSUME NEW c \in Conns, aim_conn_kill(c) PROVE Numbered'
    <2> DEFINE Clean(f) == IF f.conn = c THEN [f EXCEPT !.handled = TRUE] ELSE f
    <2>1. queue_outgoing \in SUBSET Frames
          /\ queue_outgoing' = aim_tx_cleanqueue(queue_outgoing, c)
      BY <1>2 DEF aim_conn_kill, TypeOK
    <2>2. ASSUME NEW g \in queue_outgoing'
          PROVE  \E f \in queue_outgoing : f.id = g.id /\ g = Clean(f)
      <3>1. g \in aim_tx_cleanqueue(queue_outgoing, c)
        BY <2>1, <2>2
      <3>2. \E f \in queue_outgoing :
              f.id = g.id /\ g = IF f.conn = c THEN [f EXCEPT !.handled = TRUE] ELSE f
        BY <2>1, <3>1, CleanedFrom
      <3> QED
        BY <3>2
    <2> HIDE DEF Clean
    <2>3. ASSUME NEW g \in queue_outgoing', NEW h \in queue_outgoing', g.id = h.id
          PROVE  g = h
      <3>1. PICK f1 \in queue_outgoing : f1.id = g.id /\ g = Clean(f1)
        BY <2>2, Zenon
      <3>2. PICK f2 \in queue_outgoing : f2.id = h.id /\ h = Clean(f2)
        BY <2>2, Zenon
      <3>3. f1 = f2
        BY <2>3, <3>1, <3>2 DEF Numbered
      <3> QED
        BY <3>1, <3>2, <3>3
    <2>4. \A g \in queue_outgoing' : g.id \in 1..handed
      BY <2>2 DEF Numbered
    <2>5. UNCHANGED <<wire, gen, handed>>
      BY <1>2 DEF aim_conn_kill
    <2> QED
      BY <2>3, <2>4, <2>5 DEF Numbered
  <1>3. ASSUME NEW c \in Conns, aim_tx_enqueue__queuebased(c) PROVE Numbered'
    <2>1. NewFrame(c).id = handed + 1
      BY DEF NewFrame
    <2>2. /\ queue_outgoing' = queue_outgoing \cup {NewFrame(c)}
          /\ handed' = handed + 1
          /\ UNCHANGED <<wire, gen>>
      BY <1>3 DEF aim_tx_enqueue__queuebased, HandOver
    <2>3. ASSUME NEW d \in Conns, NEW i \in 1..Len(wire[d])
          PROVE  wire[d][i].gen = gen[d] /\ wire[d][i].id <= handed + 1
      <3>1. wire[d][i].gen = gen[d] /\ wire[d][i].id <= handed
        BY <2>3 DEF Numbered
      <3>2. wire[d][i].id \in Nat /\ handed \in Nat
        BY <2>3, PacketTypes DEF TypeOK
      <3> QED
        BY <3>1, <3>2
    <2>4. \A f \in queue_outgoing' : f.id \in 1..(handed + 1)
      BY <2>1, <2>2 DEF Numbered, TypeOK
    <2>5. \A f, g \in queue_outgoing' : f.id = g.id => f = g
      BY <2>1, <2>2 DEF Numbered, TypeOK
    <2> QED
      BY <2>2, <2>3, <2>4, <2>5 DEF Numbered
  <1>4. ASSUME NEW c \in Conns, aim_tx_enqueue__immediate(c) PROVE Numbered'
    <2>1. NewFrame(c) \in Frames
      BY NewFrameType
    <2>2. PICK o \in Outcomes(c) : Transmit(NewFrame(c), o)
      BY <1>4 DEF aim_tx_enqueue__immediate
    <2>3. handed' = handed + 1 /\ UNCHANGED <<queue_outgoing, gen>>
      BY <1>4 DEF aim_tx_enqueue__immediate, HandOver
    <2>4. /\ Packet(NewFrame(c)).gen = gen[c]
          /\ Packet(NewFrame(c)).id = handed + 1
          /\ NewFrame(c).conn = c
      BY DEF Packet, NewFrame
    <2>5. ASSUME NEW d \in Conns, NEW i \in 1..Len(wire'[d])
          PROVE  wire'[d][i].gen = gen[d] /\ wire'[d][i].id <= handed + 1
      <3>1. handed \in Nat
        BY DEF TypeOK
      <3>2. \A j \in 1..Len(wire[d]) : wire[d][j].gen = gen[d] /\ wire[d][j].id <= handed + 1
        BY <3>1, PacketTypes DEF Numbered
      <3>3. CASE o = "sent" /\ d = c
        <4>1. i \in 1..Len(wire[d]) \/ i = Len(wire[d]) + 1
          BY <2>1, <2>2, <2>4, <3>3, TransmitEffect
        <4> QED
          BY <2>1, <2>2, <2>4, <3>1, <3>2, <3>3, <4>1, TransmitEffect, SMTT(30)
      <3>4. CASE ~(o = "sent" /\ d = c)
        BY <2>1, <2>2, <2>4, <3>2, <3>4, TransmitEffect
      <3> QED
        BY <3>3, <3>4
    <2>6. \A f \in queue_outgoing' : f.id \in 1..(handed + 1)
      <3>1. handed \in Nat /\ \A f \in queue_outgoing : f.id \in 1..handed
        BY DEF TypeOK, Numbered
      <3> QED
        BY <2>3, <3>1
    <2>7. \A f, g \in queue_outgoing' : f.id = g.id => f = g
      BY <2>3 DEF Numbered
    <2> QED
      BY <2>3, <2>5, <2>6, <2>7 DEF Numbered
  <1>5. ASSUME NEW f \in queue_outgoing, FlushSend(f) PROVE Numbered'
    <2>1. f \in Frames /\ f.gen = gen[f.conn] /\ f.id \in 1..handed
      BY <1>5 DEF TypeOK, NoDanglingFrame, FlushSend, Skipped, Numbered
    <2>2. PICK o \in Outcomes(f.conn) : Transmit(f, o)
      BY <1>5 DEF FlushSend
    <2>3. UNCHANGED <<gen, handed>>
      BY <1>5 DEF FlushSend
    <2>4. Packet(f).gen = f.gen /\ Packet(f).id = f.id
      BY DEF Packet
    <2>5. ASSUME NEW d \in Conns, NEW i \in 1..Len(wire'[d])
          PROVE  wire'[d][i].gen = gen[d] /\ wire'[d][i].id <= handed
      <3>1. \A j \in 1..Len(wire[d]) : wire[d][j].gen = gen[d] /\ wire[d][j].id <= handed
        BY DEF Numbered
      <3>2. handed \in Nat
        BY DEF TypeOK
      <3>3. CASE o = "sent" /\ d = f.conn
        <4>1. i \in 1..Len(wire[d]) \/ i = Len(wire[d]) + 1
          BY <2>1, <2>2, <3>3, TransmitEffect
        <4>2. CASE i \in 1..Len(wire[d])
          BY <2>1, <2>2, <3>1, <3>3, <4>2, TransmitEffect
        <4>3. CASE i = Len(wire[d]) + 1
          <5>1. wire'[d][i] = Packet(f)
            BY <2>1, <2>2, <3>3, <4>3, TransmitEffect
          <5> QED
            BY <2>1, <2>4, <3>2, <3>3, <5>1
        <4> QED
          BY <4>1, <4>2, <4>3
      <3>4. CASE ~(o = "sent" /\ d = f.conn)
        BY <2>1, <2>2, <3>1, <3>4, TransmitEffect
      <3> QED
        BY <3>3, <3>4
    <2>6. \/ queue_outgoing' = queue_outgoing
          \/ queue_outgoing' = (queue_outgoing \ {f}) \cup {[f EXCEPT !.handled = TRUE]}
      BY <1>5 DEF FlushSend
    <2>7. [f EXCEPT !.handled = TRUE].id = f.id
      BY <2>1, MarkFrame
    <2>8. /\ \A g \in queue_outgoing' : g.id \in 1..handed
          /\ \A g, h \in queue_outgoing' : g.id = h.id => g = h
      BY <2>1, <2>6, <2>7, ZenonT(60) DEF Numbered
    <2> QED
      BY <2>3, <2>5, <2>8 DEF Numbered
  <1>6. ASSUME queue_outgoing' \subseteq queue_outgoing, UNCHANGED <<gen, handed, wire>>
        PROVE  Numbered'
    BY <1>6 DEF Numbered
  <1> QED
    BY <1>1, <1>2, <1>3, <1>4, <1>5, <1>6, QuietStep DEF Next, ConnNext, SendNext, FlushNext

LEMMA ModeKeptStep ==
    ASSUME CarefulClient, TypeOK, ModeKept, [Next]_vars
    PROVE  ModeKept'
  <1> USE DEF connVars, seqVars, loopVars
  <1>1. NonBlocking = FALSE => \A c \in Conns : inprogress'[c] = FALSE
    <2> SUFFICES ASSUME NonBlocking = FALSE, NEW c \in Conns PROVE inprogress'[c] = FALSE
      OBVIOUS
    <2>1. inprogress[c] = FALSE /\ inprogress \in [Conns -> BOOLEAN]
      BY DEF ModeKept, TypeOK
    <2>2. ASSUME NEW d \in Conns, aim_newconn(d) PROVE inprogress'[c] = FALSE
      BY <2>1, <2>2 DEF aim_newconn, ConnectOutcomes
    <2>3. ASSUME NEW d \in Conns, aim_conn_kill(d) \/ CompleteConnect(d)
          PROVE  inprogress'[c] = FALSE
      BY <2>1, <2>3 DEF aim_conn_kill, CompleteConnect
    <2>4. ASSUME UNCHANGED inprogress PROVE inprogress'[c] = FALSE
      BY <2>1, <2>4
    <2> QED
      BY <2>2, <2>3, <2>4 DEF Next, ConnNext, SendNext, FlushNext, vars, aim_conn_close,
         FailConnect, PeerReset, aim_tx_setenqueue, aim_tx_enqueue__queuebased,
         aim_tx_enqueue__immediate, aim_tx_flushqueue, FlushSkip, FlushSend, FlushEnd,
         CallbackReturns
  <1>2. ASSUME tx_enqueue' = "immediate"
        PROVE  NonBlocking = FALSE /\ queue_outgoing' = {}
    <2>1. ASSUME NEW m \in Modes, aim_tx_setenqueue(m)
          PROVE  NonBlocking = FALSE /\ queue_outgoing' = {}
      BY <1>2, <2>1 DEF aim_tx_setenqueue, CarefulClient
    <2>2. ASSUME UNCHANGED tx_enqueue
          PROVE  NonBlocking = FALSE /\ queue_outgoing = {} /\ tx_enqueue # "queued"
      BY <1>2, <2>2 DEF ModeKept
    <2>3. ASSUME NEW c \in Conns, aim_conn_kill(c)
          PROVE  NonBlocking = FALSE /\ queue_outgoing' = {}
      BY <2>2, <2>3 DEF aim_conn_kill, aim_tx_cleanqueue
    <2>4. ASSUME NEW c \in Conns, aim_tx_enqueue__queuebased(c) PROVE FALSE
      BY <2>2, <2>4 DEF aim_tx_enqueue__queuebased, Queues, ModeKept
    <2>5. ASSUME NEW f \in queue_outgoing, FlushSend(f) PROVE FALSE
      BY <2>2, <2>5 DEF FlushSend
    <2>6. ASSUME NEW c \in Conns, aim_newconn(c) \/ aim_tx_enqueue__immediate(c)
          PROVE  UNCHANGED <<tx_enqueue, queue_outgoing>>
      BY <2>6 DEF aim_newconn, aim_tx_enqueue__immediate
    <2>7. ASSUME queue_outgoing' \subseteq queue_outgoing, UNCHANGED tx_enqueue
          PROVE  NonBlocking = FALSE /\ queue_outgoing' = {}
      BY <2>2, <2>7
    <2>8. \/ \E c \in Conns : \/ aim_newconn(c) \/ aim_conn_kill(c)
                              \/ aim_tx_enqueue__queuebased(c)
                              \/ aim_tx_enqueue__immediate(c)
          \/ \E m \in Modes : aim_tx_setenqueue(m)
          \/ \E f \in queue_outgoing : FlushSend(f)
          \/ queue_outgoing' \subseteq queue_outgoing /\ UNCHANGED tx_enqueue
      BY DEF Next, ConnNext, SendNext, FlushNext, vars, aim_conn_close, CompleteConnect,
         FailConnect, PeerReset, aim_tx_flushqueue, FlushSkip, FlushEnd,
         aim_tx_purgequeue, CallbackReturns
    <2> QED
      BY <2>1, <2>3, <2>4, <2>5, <2>6, <2>7, <2>8
  <1> QED
    BY <1>1, <1>2 DEF ModeKept

\* A frame the loop sends leaves the ranks of the unsent ones, and those that
\* stay there and come before it wait for their connections.
LEMMA FlushSendEffect ==
    ASSUME MallocFails = FALSE, TypeOK, Numbered, LeftBehind,
           NEW f \in queue_outgoing, FlushSend(f),
           NEW g \in queue_outgoing', g.handled = FALSE
    PROVE  /\ g \in queue_outgoing /\ g # f
           /\ g.id <= f.id => inprogress[g.conn] = TRUE
           /\ g.conn = f.conn => f.id < g.id
  <1>1. f \in Frames /\ f.handled = FALSE
    BY DEF TypeOK, FlushSend, Skipped, Frames
  <1>2. queue_outgoing' = (queue_outgoing \ {f}) \cup {[f EXCEPT !.handled = TRUE]}
    BY DEF FlushSend, Outcomes
  <1>3. g \in queue_outgoing /\ g # f
    BY <1>1, <1>2, MarkFrame
  <1>4. g \in Frames /\ f.id \in Int /\ g.id \in Int /\ cursor \in Int /\ f.id # g.id
    BY <1>1, <1>3 DEF TypeOK, Frames, Numbered
  <1>5. ASSUME g.id <= f.id PROVE inprogress[g.conn] = TRUE
    <2>1. g.id <= cursor
      BY <1>3, <1>4, <1>5 DEF FlushSend, IsNext
    <2> QED
      BY <1>3, <2>1 DEF FlushSend, LeftBehind
  <1>6. ASSUME g.conn = f.conn PROVE f.id < g.id
    <2>1. ~(inprogress[f.conn] = TRUE)
      BY Zenon DEF FlushSend, Skipped
    <2>2. ~(g.id <= f.id)
      BY <1>5, <1>6, <2>1, Zenon
    <2> QED
      BY <1>4, <2>2
  <1> QED
    BY <1>3, <1>5, <1>6

LEMMA LeftBehindStep ==
    ASSUME MallocFails = FALSE, TypeOK, Numbered, LeftBehind, [Next]_vars
    PROVE  LeftBehind'
  <1> SUFFICES ASSUME flushing', NEW g \in queue_outgoing',
                      g.id <= cursor', g.handled = FALSE
               PROVE  inprogress'[g.conn] = TRUE
    BY DEF LeftBehind
  <1> USE DEF connVars, seqVars, loopVars
  <1>1. ASSUME NEW f \in queue_outgoing, FlushSkip(f) PROVE inprogress'[g.conn] = TRUE
    <2>1. g \in queue_outgoing /\ UNCHANGED inprogress /\ cursor' = f.id /\ flushing
      BY <1>1 DEF FlushSkip
    <2>2. f.id \in Int /\ g.id \in Int /\ cursor \in Int /\ f \in Frames
      BY <2>1 DEF TypeOK, Frames
    <2>3. CASE g.id <= cursor
      BY <2>1, <2>3 DEF LeftBehind
    <2>4. CASE g.id > cursor
      <3>1. g = f
        BY <1>1, <2>1, <2>2, <2>4 DEF FlushSkip, IsNext, Numbered
      <3>2. inprogress[f.conn] = TRUE
        BY <1>1, <2>2, <3>1 DEF FlushSkip, Skipped, TypeOK, Frames
      <3> QED
        BY <2>1, <3>1, <3>2
    <2>5. g.id <= cursor \/ g.id > cursor
      BY <2>2
    <2> QED
      BY <2>3, <2>4, <2>5
  <1>2. ASSUME NEW f \in queue_outgoing, FlushSend(f) PROVE inprogress'[g.conn] = TRUE
    BY <1>2, FlushSendEffect DEF FlushSend
  <1>3. ASSUME aim_tx_flushqueue \/ CallbackReturns PROVE FALSE
    <2>1. cursor' = 0 /\ g \in queue_outgoing
      BY <1>3 DEF aim_tx_flushqueue, CallbackReturns
    <2> QED
      BY <2>1 DEF Numbered, TypeOK
  <1>4. ASSUME FlushEnd PROVE FALSE
    BY <1>4 DEF FlushEnd
  <1>5. ASSUME UNCHANGED <<flushing, queue_outgoing, cursor, inprogress>>
        PROVE  inprogress'[g.conn] = TRUE
    BY <1>5 DEF LeftBehind
  <1>6. ASSUME NEW c \in Conns, PeerReset(c)
        PROVE  UNCHANGED <<flushing, queue_outgoing, cursor, inprogress>>
    BY <1>6 DEF PeerReset
  <1>7. ASSUME \/ \E c \in Conns :
                    \/ aim_newconn(c) \/ aim_conn_close(c) \/ aim_conn_kill(c)
                    \/ CompleteConnect(c) \/ FailConnect(c)
                    \/ aim_tx_enqueue__queuebased(c) \/ aim_tx_enqueue__immediate(c)
               \/ \E m \in Modes : aim_tx_setenqueue(m)
        PROVE  FALSE
    BY <1>7 DEF aim_newconn, aim_conn_close, aim_conn_kill, CompleteConnect, FailConnect,
       aim_tx_enqueue__queuebased, aim_tx_enqueue__immediate, HandOver,
       aim_tx_setenqueue, ClientRuns
  <1> QED
    BY <1>1, <1>2, <1>3, <1>4, <1>5, <1>6, <1>7
       DEF Next, ConnNext, SendNext, FlushNext, vars

LEMMA WireFirstStep ==
    ASSUME MallocFails = FALSE, TypeOK, NoDanglingFrame, OrderInv, [Next]_vars
    PROVE  WireFirst'
  <1> SUFFICES ASSUME NEW g \in queue_outgoing', g.handled = FALSE,
                      NEW i \in 1..Len(wire'[g.conn])
               PROVE  wire'[g.conn][i].id < g.id
    BY DEF WireFirst
  <1> USE DEF connVars, seqVars, loopVars, OrderInv
  <1>1. ASSUME NEW c \in Conns, aim_newconn(c) PROVE wire'[g.conn][i].id < g.id
    <2>1. g \in queue_outgoing /\ g.conn \in connlist /\ g.conn # c /\ g.conn \in Conns
      BY <1>1 DEF aim_newconn, NoDanglingFrame, TypeOK
    <2>2. wire'[g.conn] = wire[g.conn]
      BY <1>1, <2>1 DEF aim_newconn, TypeOK
    <2> QED
      BY <2>1, <2>2 DEF WireFirst
  <1>2. ASSUME NEW c \in Conns, aim_conn_kill(c) PROVE wire'[g.conn][i].id < g.id
    <2>1. g \in queue_outgoing /\ UNCHANGED wire
      BY <1>2, CleanedFrame DEF aim_conn_kill, TypeOK
    <2> QED
      BY <2>1 DEF WireFirst
  <1>3. ASSUME NEW c \in Conns, aim_tx_enqueue__queuebased(c)
        PROVE  wire'[g.conn][i].id < g.id
    <2>1. NewFrame(c).conn = c /\ NewFrame(c).id = handed + 1
      BY DEF NewFrame
    <2>2. UNCHANGED wire /\ (g \in queue_outgoing \/ g = NewFrame(c))
      BY <1>3 DEF aim_tx_enqueue__queuebased
    <2>3. CASE g \in queue_outgoing
      BY <2>2, <2>3 DEF WireFirst
    <2>4. CASE g = NewFrame(c)
      <3>1. g.conn = c /\ g.id = handed + 1 /\ handed \in Nat /\ i \in 1..Len(wire[c])
        BY <2>1, <2>2, <2>4 DEF TypeOK
      <3>2. wire[c][i].id <= handed /\ wire[c][i].id \in Nat
        BY <3>1, PacketTypes DEF Numbered
      <3> QED
        BY <2>2, <3>1, <3>2
    <2> QED
      BY <2>2, <2>3, <2>4
  <1>4. ASSUME NEW c \in Conns, aim_tx_enqueue__immediate(c) PROVE FALSE
    <2>1. tx_enqueue = "immediate" /\ UNCHANGED queue_outgoing
      BY <1>4 DEF aim_tx_enqueue__immediate, Queues, TypeOK
    <2> QED
      BY <2>1 DEF ModeKept
  <1>5. ASSUME NEW f \in queue_outgoing, FlushSend(f) PROVE wire'[g.conn][i].id < g.id
    <2>1. g \in queue_outgoing /\ (g.conn = f.conn => f.id < g.id)
      BY <1>5, FlushSendEffect
    <2>2. f \in Frames /\ g \in Frames /\ g.conn \in Conns
      BY <2>1 DEF TypeOK, Frames
    <2>3. PICK o \in Outcomes(f.conn) : Transmit(f, o)
      BY <1>5 DEF FlushSend
    <2>4. \A j \in 1..Len(wire[g.conn]) : wire[g.conn][j].id < g.id
      BY <2>1 DEF WireFirst
    <2>5. CASE o = "sent" /\ g.conn = f.conn
      <3>1. i \in 1..Len(wire[g.conn]) \/ i = Len(wire[g.conn]) + 1
        BY <2>2, <2>3, <2>5, TransmitEffect
      <3>2. CASE i \in 1..Len(wire[g.conn])
        BY <2>2, <2>3, <2>4, <2>5, <3>2, TransmitEffect
      <3>3. CASE i = Len(wire[g.conn]) + 1
        <4>1. wire'[g.conn][i] = Packet(f)
          BY <2>2, <2>3, <2>5, <3>3, TransmitEffect
        <4> QED
          BY <2>1, <2>5, <4>1 DEF Packet
      <3> QED
        BY <3>1, <3>2, <3>3
    <2>6. CASE ~(o = "sent" /\ g.conn = f.conn)
      BY <2>2, <2>3, <2>4, <2>6, TransmitEffect
    <2> QED
      BY <2>5, <2>6
  <1>6. ASSUME queue_outgoing' \subseteq queue_outgoing, UNCHANGED wire
        PROVE  wire'[g.conn][i].id < g.id
    BY <1>6 DEF WireFirst
  <1> QED
    BY <1>1, <1>2, <1>3, <1>4, <1>5, <1>6, QuietStep
       DEF Next, ConnNext, SendNext, FlushNext

\* One more packet, handed over after all packets of its wire.
LEMMA TransmitKeepsOrder ==
    ASSUME TypeOK, NEW f \in Frames, NEW o, Transmit(f, o), SentInOrder,
           f.gen = gen[f.conn],
           \A i \in 1..Len(wire[f.conn]) : wire[f.conn][i].id < f.id
    PROVE  \A c \in Conns : \A i, j \in 1..Len(wire'[c]) :
               /\ wire'[c][i].gen = gen[c]
               /\ i < j => wire'[c][i].id < wire'[c][j].id
  <1> SUFFICES ASSUME NEW c \in Conns, NEW i \in 1..Len(wire'[c]),
                      NEW j \in 1..Len(wire'[c])
               PROVE  /\ wire'[c][i].gen = gen[c]
                      /\ i < j => wire'[c][i].id < wire'[c][j].id
    OBVIOUS
  <1>1. CASE o = "sent" /\ c = f.conn
    <2> DEFINE n == Len(wire[c])
    <2>1. /\ n \in Nat /\ Len(wire'[c]) = n + 1
          /\ \A k \in 1..n : wire'[c][k] = wire[c][k]
          /\ wire'[c][n + 1] = Packet(f)
      BY <1>1, TransmitEffect
    <2>2. Packet(f).gen = f.gen /\ Packet(f).id = f.id
      BY DEF Packet
    <2>3. \A k, l \in 1..n : /\ wire[c][k].gen = gen[c]
                             /\ k < l => wire[c][k].id < wire[c][l].id
      BY DEF SentInOrder
    <2>4. \A k \in 1..n : wire[c][k].id < f.id
      BY <1>1
    <2> HIDE DEF n
    <2>5. i \in 1..n \/ i = n + 1
      BY <2>1
    <2>6. j \in 1..n \/ j = n + 1
      BY <2>1
    <2>7. wire'[c][i].gen = gen[c]
      BY <1>1, <2>1, <2>2, <2>3, <2>5
    <2>8. ASSUME i < j PROVE wire'[c][i].id < wire'[c][j].id
      <3>1. i \in 1..n
        BY <2>1, <2>5, <2>6, <2>8
      <3>2. CASE j \in 1..n
        BY <2>1, <2>3, <2>8, <3>1, <3>2
      <3>3. CASE j = n + 1
        BY <2>1, <2>2, <2>4, <3>1, <3>3
      <3> QED
        BY <2>6, <3>2, <3>3
    <2> QED
      BY <2>7, <2>8
  <1>2. CASE ~(o = "sent" /\ c = f.conn)
    <2>1. wire'[c] = wire[c]
      BY <1>2, TransmitEffect
    <2> QED
      BY <2>1 DEF SentInOrder
  <1> QED
    BY <1>1, <1>2

LEMMA SentStep ==
    ASSUME TypeOK, NoDanglingFrame, OrderInv, SentInOrder, [Next]_vars
    PROVE  SentInOrder'
  <1> USE DEF connVars, seqVars, loopVars, OrderInv
  <1>1. ASSUME NEW c \in Conns, aim_newconn(c) PROVE SentInOrder'
    <2> SUFFICES ASSUME NEW d \in Conns, NEW i \in 1..Len(wire'[d]),
                        NEW j \in 1..Len(wire'[d])
                 PROVE  /\ wire'[d][i].gen = gen'[d]
                        /\ i < j => wire'[d][i].id < wire'[d][j].id
      BY DEF SentInOrder
    <2>1. d # c /\ wire'[d] = wire[d] /\ gen'[d] = gen[d]
      BY <1>1 DEF aim_newconn, TypeOK
    <2> QED
      BY <2>1 DEF SentInOrder
  <1>2. ASSUME NEW c \in Conns, aim_tx_enqueue__immediate(c) PROVE SentInOrder'
    <2>1. NewFrame(c) \in Frames /\ UNCHANGED gen
      BY <1>2, NewFrameType DEF aim_tx_enqueue__immediate
    <2>2. PICK o \in Outcomes(c) : Transmit(NewFrame(c), o)
      BY <1>2 DEF aim_tx_enqueue__immediate
    <2>3. /\ NewFrame(c).conn = c /\ NewFrame(c).gen = gen[c]
          /\ NewFrame(c).id = handed + 1
      BY DEF NewFrame
    <2>4. \A i \in 1..Len(wire[c]) : wire[c][i].id < handed + 1
      BY PacketTypes DEF Numbered, TypeOK
    <2> QED
      BY <2>1, <2>2, <2>3, <2>4, TransmitKeepsOrder DEF SentInOrder
  <1>3. ASSUME NEW f \in queue_outgoing, FlushSend(f) PROVE SentInOrder'
    <2>1. f \in Frames /\ f.handled = FALSE /\ f.gen = gen[f.conn] /\ UNCHANGED gen
      BY <1>3 DEF TypeOK, Frames, NoDanglingFrame, FlushSend, Skipped
    <2>2. PICK o \in Outcomes(f.conn) : Transmit(f, o)
      BY <1>3 DEF FlushSend
    <2>3. \A i \in 1..Len(wire[f.conn]) : wire[f.conn][i].id < f.id
      BY <2>1 DEF WireFirst
    <2> QED
      BY <2>1, <2>2, <2>3, TransmitKeepsOrder DEF SentInOrder
  <1>4. ASSUME UNCHANGED <<wire, gen>> PROVE SentInOrder'
    BY <1>4 DEF SentInOrder
  <1>5. ASSUME NEW c \in Conns, aim_conn_kill(c) \/ aim_tx_enqueue__queuebased(c)
        PROVE  UNCHANGED <<wire, gen>>
    BY <1>5 DEF aim_conn_kill, aim_tx_enqueue__queuebased
  <1> QED
    BY <1>1, <1>2, <1>3, <1>4, <1>5, QuietStep DEF Next, ConnNext, SendNext, FlushNext

LEMMA OrderInit == Init => OrderInv /\ SentInOrder
  BY DEF Init, OrderInv, Numbered, ModeKept, LeftBehind, WireFirst, SentInOrder

\* As long as sendframe_flap gets its buffer, each connection's socket accepts
\* its frames in the order the client handed them over, none of them twice and
\* none of an earlier connection at the same address, even though callbacks
\* send, kill and reconnect between the flushes and any send() may fail.
THEOREM SentOrder ==
    ASSUME CarefulClient, MallocFails = FALSE
    PROVE  Spec => []SentInOrder
  <1>1. OrderInv /\ SentInOrder /\ TypeOK /\ NoDanglingFrame /\ [Next]_vars
            => (OrderInv /\ SentInOrder)'
    BY NumberedStep, ModeKeptStep, LeftBehindStep, WireFirstStep, SentStep DEF OrderInv
  <1> QED
    BY <1>1, OrderInit, TypeCorrect, NoDangling, PTL DEF Spec

-----------------------------------------------------------------------------
(* The stamps on the wire are consecutive *)

LEMMA ModOfSum ==
    ASSUME NEW q \in Nat, NEW r \in 0..(SeqnumMod - 1)
    PROVE  (SeqnumMod * q + r) % SeqnumMod = r
  BY SeqnumModAssumption

\* Counting modulo the width commutes with taking the remainder.
LEMMA ModSucc ==
    ASSUME NEW n \in Nat
    PROVE  ((n % SeqnumMod) + 1) % SeqnumMod = (n + 1) % SeqnumMod
  <1> DEFINE q == n \div SeqnumMod
             r == n % SeqnumMod
  <1>1. n = SeqnumMod * q + r /\ q \in Nat /\ r \in 0..(SeqnumMod - 1)
    BY SeqnumModAssumption
  <1> HIDE DEF q, r
  <1>2. CASE r + 1 < SeqnumMod
    <2>1. n + 1 = SeqnumMod * q + (r + 1) /\ r + 1 \in 0..(SeqnumMod - 1)
      BY <1>1, <1>2, SeqnumModAssumption
    <2>2. (n + 1) % SeqnumMod = r + 1
      BY <1>1, <2>1, ModOfSum
    <2>3. (r + 1) % SeqnumMod = r + 1
      BY <2>1, SeqnumModAssumption
    <2> QED
      BY <2>2, <2>3 DEF r
  <1>3. CASE r + 1 = SeqnumMod
    <2>1. n + 1 = SeqnumMod * (q + 1) + 0
      BY <1>1, <1>3, SeqnumModAssumption
    <2>2. (n + 1) % SeqnumMod = 0
      BY <1>1, <2>1, ModOfSum, SeqnumModAssumption
    <2>3. (r + 1) % SeqnumMod = 0
      BY <1>3, SeqnumModAssumption
    <2> QED
      BY <2>2, <2>3 DEF r
  <1> QED
    BY <1>1, <1>2, <1>3, SeqnumModAssumption

LEMMA StampedStep ==
    ASSUME TypeOK, Stamped, [Next]_vars
    PROVE  Stamped'
  <1> USE DEF connVars, seqVars, loopVars
  <1>1. ASSUME NEW c \in Conns, aim_newconn(c) PROVE Stamped'
    <2>1. 0 % SeqnumMod = 0
      BY SeqnumModAssumption
    <2> QED
      BY <1>1, <2>1 DEF Stamped, aim_newconn, TypeOK
  <1>2. ASSUME NEW c \in Conns, aim_conn_kill(c) PROVE Stamped'
    <2>1. queue_outgoing \in SUBSET Frames
          /\ queue_outgoing' = aim_tx_cleanqueue(queue_outgoing, c)
          /\ UNCHANGED <<seqnum, count>>
      BY <1>2 DEF aim_conn_kill, TypeOK
    <2>2. ASSUME NEW g \in queue_outgoing' PROVE g.seqnum = g.n % SeqnumMod
      <3>1. PICK f \in queue_outgoing :
               g = IF f.conn = c THEN [f EXCEPT !.handled = TRUE] ELSE f
        BY <2>1 DEF aim_tx_cleanqueue
      <3>2. f \in Frames /\ f.seqnum = f.n % SeqnumMod
        BY <2>1 DEF Stamped
      <3>3. g = f \/ g = [f EXCEPT !.handled = TRUE]
        BY <3>1
      <3>4. g.seqnum = f.seqnum /\ g.n = f.n
        BY <3>2, <3>3, MarkFrame
      <3> QED
        BY <3>2, <3>4
    <2> QED
      BY <2>1, <2>2 DEF Stamped
  <1>3. ASSUME NEW c \in Conns, HandOver(c)
        PROVE  /\ \A d \in Conns : seqnum'[d] = count'[d] % SeqnumMod
               /\ NewFrame(c).seqnum = NewFrame(c).n % SeqnumMod
    <2>1. count[c] \in Nat /\ seqnum[c] = count[c] % SeqnumMod
      BY DEF TypeOK, Stamped
    <2>2. aim_get_next_txseqnum(c) = (count[c] + 1) % SeqnumMod
      BY <2>1, ModSucc DEF aim_get_next_txseqnum
    <2> QED
      BY <1>3, <2>2 DEF HandOver, TypeOK, NewFrame, Stamped
  <1>4. ASSUME NEW c \in Conns, aim_tx_enqueue__queuebased(c) PROVE Stamped'
    BY <1>3, <1>4 DEF aim_tx_enqueue__queuebased, Stamped
  <1>5. ASSUME NEW c \in Conns, aim_tx_enqueue__immediate(c) PROVE Stamped'
    BY <1>3, <1>5 DEF aim_tx_enqueue__immediate, Stamped
  <1>6. ASSUME NEW f \in queue_outgoing, FlushSend(f) PROVE Stamped'
    <2>1. UNCHANGED <<seqnum, count>>
      BY <1>6 DEF FlushSend
    <2>2. ASSUME NEW g \in queue_outgoing' PROVE g.seqnum = g.n % SeqnumMod
      <3>1. f \in Frames /\ f.seqnum = f.n % SeqnumMod
        BY DEF TypeOK, Stamped
      <3>2. g \in queue_outgoing \/ g = [f EXCEPT !.handled = TRUE]
        BY <1>6, FlushedFrame
      <3> QED
        BY <3>1, <3>2, MarkFrame DEF Stamped
    <2> QED
      BY <2>1, <2>2 DEF Stamped
  <1>7. ASSUME queue_outgoing' \subseteq queue_outgoing, UNCHANGED <<seqnum, count>>
        PROVE  Stamped'
    BY <1>7 DEF Stamped
  <1> QED
    BY <1>1, <1>2, <1>4, <1>5, <1>6, <1>7, QuietStep DEF Next, ConnNext, SendNext, FlushNext

\* Connections whose frames, wire and counter a step leaves alone.
LEMMA LedgerOfSame ==
    ASSUME NEW c \in Conns, Unsent(c)' = Unsent(c), wire'[c] = wire[c],
           count'[c] = count[c], LedgerOf(c)
    PROVE  LedgerOf(c)'
  BY DEF LedgerOf

\* The frame the loop sends next on a healthy connection is the first unsent.
LEMMA SentIsFirst ==
    ASSUME MallocFails = FALSE, TypeOK, OrderInv, NEW f \in queue_outgoing, FlushSend(f),
           LedgerOf(f.conn)
    PROVE  /\ f \in Unsent(f.conn)
           /\ f.n = Len(wire[f.conn]) + 1
           /\ \A g \in Unsent(f.conn) : g # f => f.id < g.id
  <1> DEFINE c == f.conn
  <1>1. f \in Frames /\ f.handled = FALSE /\ f \in Unsent(c) /\ c \in Conns
    BY DEF TypeOK, Frames, FlushSend, Skipped, Unsent
  <1>2. queue_outgoing' = (queue_outgoing \ {f}) \cup {[f EXCEPT !.handled = TRUE]}
    BY DEF FlushSend, Outcomes
  <1>3. ASSUME NEW g \in Unsent(c), g # f PROVE f.id < g.id
    <2>1. g \in queue_outgoing' /\ g.handled = FALSE /\ g.conn = f.conn
      BY <1>2, <1>3 DEF Unsent
    <2> QED
      BY <2>1, FlushSendEffect DEF OrderInv
  <1>4. Len(wire[c]) \in Nat /\ count[c] \in Nat
    BY <1>1 DEF TypeOK
  <1>5. f.n \in (Len(wire[c]) + 1)..count[c]
    BY <1>1 DEF LedgerOf
  <1>6. PICK g \in Unsent(c) : g.n = Len(wire[c]) + 1
    BY <1>4, <1>5 DEF LedgerOf
  <1>7. g = f
    <2> SUFFICES ASSUME g # f PROVE FALSE
      OBVIOUS
    <2>1. f.n < g.n
      BY <1>1, <1>3, <1>6 DEF LedgerOf
    <2> QED
      BY <1>4, <1>5, <1>6, <2>1
  <1> QED
    BY <1>1, <1>3, <1>6, <1>7

\* On a healthy connection that is not connecting every send succeeds.
LEMMA HealthySends ==
    ASSUME MallocFails = FALSE, Interrupts = FALSE, Ledger,
           NEW c \in Conns, Healthy(c), inprogress[c] # TRUE, NEW o \in Outcomes(c)
    PROVE  o = "sent"
  BY DEF Ledger, Healthy, Outcomes

LEMMA LedgerOfEnqueue ==
    ASSUME TypeOK, Numbered, NEW c \in Conns, aim_tx_enqueue__queuebased(c), LedgerOf(c)
    PROVE  LedgerOf(c)'
  <1> DEFINE fr == NewFrame(c)
  <1>1. fr.conn = c /\ fr.id = handed + 1 /\ fr.n = count[c] + 1 /\ fr.handled = FALSE
    BY DEF NewFrame
  <1> HIDE DEF fr
  <1>2. queue_outgoing' = queue_outgoing \cup {fr} /\ wire' = wire
        /\ count' = [count EXCEPT ![c] = @ + 1]
    BY DEF aim_tx_enqueue__queuebased, HandOver, fr
  <1>3. Unsent(c)' = Unsent(c) \cup {fr}
    BY <1>1, <1>2 DEF Unsent
  <1>4. count'[c] = count[c] + 1 /\ count[c] \in Nat /\ Len(wire[c]) \in Nat /\ handed \in Nat
    BY <1>2 DEF TypeOK
  <1>5. \A f \in Unsent(c) : f.id \in 1..handed /\ f.n \in (Len(wire[c]) + 1)..count[c]
    BY DEF Unsent, Numbered, LedgerOf
  <1>6. Len(wire[c]) <= count[c]
    BY DEF LedgerOf
  <1>7. \A f \in Unsent(c)' : f.n \in (Len(wire[c]) + 1)..(count[c] + 1)
    BY <1>1, <1>3, <1>4, <1>5, <1>6
  <1>8. ASSUME NEW f \in Unsent(c)', NEW g \in Unsent(c)', f.id < g.id PROVE f.n < g.n
    BY <1>1, <1>3, <1>4, <1>5, <1>8 DEF LedgerOf
  <1>9. ASSUME NEW k \in (Len(wire[c]) + 1)..(count[c] + 1)
        PROVE  \E f \in Unsent(c)' : f.n = k
    <2>1. CASE k = count[c] + 1
      BY <1>1, <1>3, <2>1
    <2>2. CASE k # count[c] + 1
      <3>1. k \in (Len(wire[c]) + 1)..count[c]
        BY <1>4, <2>2
      <3> QED
        BY <1>3, <3>1 DEF LedgerOf
    <2> QED
      BY <2>1, <2>2
  <1> QED
    BY <1>2, <1>4, <1>6, <1>7, <1>8, <1>9 DEF LedgerOf

LEMMA LedgerOfSend ==
    ASSUME MallocFails = FALSE, Interrupts = FALSE, TypeOK, OrderInv, Ledger,
           NEW f \in queue_outgoing, FlushSend(f), Healthy(f.conn)
    PROVE  LedgerOf(f.conn)'
  <1> DEFINE c == f.conn
             n == Len(wire[c])
  <1>1. f \in Frames /\ c \in Conns /\ LedgerOf(c) /\ n \in Nat /\ count[c] \in Nat
    BY DEF TypeOK, Frames, Ledger
  <1>2. f \in Unsent(c) /\ f.n = n + 1 /\ \A g \in Unsent(c) : g # f => f.id < g.id
    BY <1>1, SentIsFirst
  <1>3. PICK o \in Outcomes(c) : Transmit(f, o)
    BY DEF FlushSend
  <1>4. inprogress[c] # TRUE
    BY Zenon DEF FlushSend, Skipped
  <1>5. Len(wire'[c]) = n + 1
    BY <1>1, <1>3, <1>4, HealthySends, TransmitEffect
  <1>6. queue_outgoing' = (queue_outgoing \ {f}) \cup {[f EXCEPT !.handled = TRUE]}
    BY DEF FlushSend, Outcomes
  <1>7. Unsent(c)' = Unsent(c) \ {f}
    <2>1. [f EXCEPT !.handled = TRUE].handled = TRUE
      BY <1>1, MarkFrame
    <2> QED
      BY <1>6, <2>1 DEF Unsent
  <1>8. count' = count
    BY DEF FlushSend, seqVars
  <1> HIDE DEF c, n
  <1>9. n + 1 <= count[c]
    BY <1>1, <1>2 DEF LedgerOf, n
  <1>10. \A g \in Unsent(c)' : g.n \in (n + 2)..count[c]
    <2> SUFFICES ASSUME NEW g \in Unsent(c)' PROVE g.n \in (n + 2)..count[c]
      OBVIOUS
    <2>1. g \in Unsent(c) /\ f.id < g.id
      BY <1>2, <1>7
    <2>2. f.n < g.n /\ g.n \in (n + 1)..count[c]
      BY <1>1, <1>2, <2>1 DEF LedgerOf, n
    <2> QED
      BY <1>1, <1>2, <2>2
  <1>11. \A g, h \in Unsent(c)' : g.id < h.id => g.n < h.n
    BY <1>1, <1>7 DEF LedgerOf
  <1>12. \A k \in (n + 2)..count[c] : \E g \in Unsent(c)' : g.n = k
    <2> SUFFICES ASSUME NEW k \in (n + 2)..count[c] PROVE \E g \in Unsent(c)' : g.n = k
      OBVIOUS
    <2>1. k \in (n + 1)..count[c] /\ k # n + 1
      BY <1>1
    <2>2. PICK g \in Unsent(c) : g.n = k
      BY <1>1, <2>1 DEF LedgerOf, n
    <2>3. g # f
      BY <1>2, <2>1, <2>2
    <2> QED
      BY <1>7, <2>2, <2>3
  <1>13. (n + 1) + 1 = n + 2
    BY <1>1
  <1>14. LedgerOf(c)'
    BY <1>5, <1>8, <1>9, <1>10, <1>11, <1>12, <1>13 DEF LedgerOf, c
  <1> QED
    BY <1>14 DEF c

LEMMA ConnectingStep ==
    ASSUME TypeOK, Ledger, [Next]_vars, NEW c \in Conns, sock'[c] = "connecting"
    PROVE  inprogress'[c] = TRUE
  <1> USE DEF connVars, seqVars, loopVars
  <1>1. sock \in [Conns -> SockStates] /\ inprogress \in [Conns -> BOOLEAN]
        /\ (sock[c] = "connecting" => inprogress[c] = TRUE)
    BY DEF TypeOK, Ledger
  <1>2. ASSUME NEW d \in Conns, aim_newconn(d) PROVE inprogress'[c] = TRUE
    <2>1. PICK s \in SockStates : /\ sock' = [sock EXCEPT ![d] = s]
                                 /\ inprogress' = [inprogress EXCEPT ![d] = (s = "connecting")]
      BY <1>2 DEF aim_newconn, ConnectOutcomes, SockStates
    <2> QED
      BY <1>1, <2>1
  <1>3. ASSUME NEW d \in Conns,
               \/ aim_conn_close(d) \/ aim_conn_kill(d) \/ CompleteConnect(d)
               \/ FailConnect(d) \/ PeerReset(d)
        PROVE  inprogress'[c] = TRUE
    BY <1>1, <1>3 DEF aim_conn_close, aim_conn_kill, CompleteConnect, FailConnect, PeerReset
  <1>4. ASSUME UNCHANGED <<sock, inprogress>> PROVE inprogress'[c] = TRUE
    BY <1>1, <1>4
  <1> QED
    BY <1>2, <1>3, <1>4 DEF Next, ConnNext, SendNext, FlushNext, vars, aim_tx_setenqueue,
       aim_tx_enqueue__queuebased, aim_tx_enqueue__immediate, aim_tx_flushqueue,
       FlushSkip, FlushSend, FlushEnd, CallbackReturns

\* In immediate mode nothing is unsent, and the frame goes out at once.
LEMMA ImmediateEffect ==
    ASSUME MallocFails = FALSE, Interrupts = FALSE, TypeOK, OrderInv, Ledger,
           NEW c \in Conns, aim_tx_enqueue__immediate(c), Healthy(c)
    PROVE  /\ queue_outgoing = {} /\ queue_outgoing' = {}
           /\ count[c] = Len(wire[c]) /\ count'[c] = count[c] + 1
           /\ Transmit(NewFrame(c), "sent")
  <1>1. tx_enqueue = "immediate" /\ inprogress[c] # TRUE
    BY DEF aim_tx_enqueue__immediate, Queues, TypeOK
  <1>2. queue_outgoing = {} /\ queue_outgoing' = {}
    BY <1>1 DEF OrderInv, ModeKept, aim_tx_enqueue__immediate
  <1>3. Unsent(c) = {}
    BY <1>2 DEF Unsent
  <1>4. count[c] \in Nat /\ Len(wire[c]) \in Nat /\ LedgerOf(c)
    BY DEF TypeOK, Ledger
  <1>5. count[c] = Len(wire[c])
    BY <1>3, <1>4 DEF LedgerOf
  <1>6. count'[c] = count[c] + 1
    BY DEF aim_tx_enqueue__immediate, HandOver, TypeOK
  <1>7. Transmit(NewFrame(c), "sent")
    BY <1>1, HealthySends DEF aim_tx_enqueue__immediate
  <1> QED
    BY <1>2, <1>5, <1>6, <1>7

LEMMA LedgerStep ==
    ASSUME MallocFails = FALSE, Interrupts = FALSE, TypeOK, NoDanglingFrame, OrderInv,
           Ledger, [Next]_vars
    PROVE  Ledger'
  <1> SUFFICES ASSUME NEW d \in Conns, Healthy(d)' PROVE LedgerOf(d)'
    BY ConnectingStep DEF Ledger
  <1> USE DEF connVars, seqVars, loopVars
  <1>1. ASSUME Healthy(d), Unsent(d)' = Unsent(d), wire'[d] = wire[d], count'[d] = count[d]
        PROVE  LedgerOf(d)'
    BY <1>1, LedgerOfSame DEF Ledger
  <1>2. sock \in [Conns -> SockStates] /\ count \in [Conns -> Nat]
        /\ wire \in [Conns -> Seq(Packets)]
    BY DEF TypeOK
  <1>3. ASSUME NEW c \in Conns, aim_newconn(c) PROVE LedgerOf(d)'
    <2>1. queue_outgoing' = queue_outgoing
      BY <1>3 DEF aim_newconn
    <2>2. CASE d = c
      <3>1. wire'[d] = <<>> /\ count'[d] = 0 /\ d \notin connlist
        BY <1>2, <1>3, <2>2 DEF aim_newconn
      <3>2. Unsent(d)' = {}
        BY <2>1, <3>1 DEF Unsent, NoDanglingFrame
      <3> QED
        BY <3>1, <3>2 DEF LedgerOf
    <2>3. CASE d # c
      <3>1. wire'[d] = wire[d] /\ count'[d] = count[d] /\ sock'[d] = sock[d]
        BY <1>2, <1>3, <2>3 DEF aim_newconn
      <3> QED
        BY <1>1, <2>1, <3>1 DEF Unsent, Healthy
    <2> QED
      BY <2>2, <2>3
  <1>4. ASSUME NEW c \in Conns, aim_conn_kill(c) PROVE LedgerOf(d)'
    <2>1. d # c /\ sock'[d] = sock[d] /\ UNCHANGED <<wire, count>>
      BY <1>2, <1>4 DEF aim_conn_kill, Healthy
    <2>2. queue_outgoing \in SUBSET Frames
          /\ queue_outgoing' = aim_tx_cleanqueue(queue_outgoing, c)
      BY <1>4 DEF aim_conn_kill, TypeOK
    <2>3. ASSUME NEW g \in Unsent(d)' PROVE g \in Unsent(d)
      BY <2>2, <2>3, CleanedFrame DEF Unsent
    <2>4. ASSUME NEW g \in Unsent(d) PROVE g \in Unsent(d)'
      <3>1. g \in queue_outgoing /\ g.conn # c /\ g.conn = d /\ g.handled = FALSE
        BY <2>1 DEF Unsent
      <3>2. g \in queue_outgoing'
        BY <2>2, <3>1 DEF aim_tx_cleanqueue
      <3> QED
        BY <3>1, <3>2 DEF Unsent
    <2> QED
      BY <1>1, <2>1, <2>3, <2>4 DEF Healthy
  <1>5. ASSUME NEW c \in Conns, aim_tx_enqueue__queuebased(c) PROVE LedgerOf(d)'
    <2>1. sock' = sock /\ Healthy(d)
      BY <1>5 DEF aim_tx_enqueue__queuebased, Healthy
    <2>2. CASE d = c
      BY <1>5, <2>1, <2>2, LedgerOfEnqueue DEF Ledger, OrderInv
    <2>3. CASE d # c
      <3>1. NewFrame(c).conn = c
        BY DEF NewFrame
      <3>2. Unsent(d)' = Unsent(d)
        BY <1>5, <2>3, <3>1 DEF aim_tx_enqueue__queuebased, Unsent
      <3>3. wire'[d] = wire[d] /\ count'[d] = count[d]
        BY <1>2, <1>5, <2>3 DEF aim_tx_enqueue__queuebased, HandOver
      <3> QED
        BY <1>1, <2>1, <3>2, <3>3
    <2> QED
      BY <2>2, <2>3
  <1>6. ASSUME NEW c \in Conns, aim_tx_enqueue__immediate(c) PROVE LedgerOf(d)'
    <2>1. sock' = sock /\ Healthy(d) /\ UNCHANGED queue_outgoing
      BY <1>6 DEF aim_tx_enqueue__immediate, Healthy
    <2>2. NewFrame(c) \in Frames /\ NewFrame(c).conn = c
      BY NewFrameType DEF NewFrame
    <2>3. CASE d = c
      <3>1. /\ queue_outgoing' = {} /\ count[d] = Len(wire[d])
            /\ count'[d] = count[d] + 1 /\ Transmit(NewFrame(d), "sent")
        BY <1>6, <2>1, <2>3, ImmediateEffect
      <3>2. Len(wire'[d]) = Len(wire[d]) + 1 /\ Len(wire[d]) \in Nat
        BY <2>2, <2>3, <3>1, TransmitEffect
      <3>3. Unsent(d)' = {}
        BY <3>1 DEF Unsent
      <3> QED
        BY <3>1, <3>2, <3>3 DEF LedgerOf
    <2>4. CASE d # c
      <3>1. PICK o \in Outcomes(c) : Transmit(NewFrame(c), o)
        BY <1>6 DEF aim_tx_enqueue__immediate
      <3>2. wire'[d] = wire[d]
        BY <2>2, <2>4, <3>1, TransmitEffect
      <3>3. count'[d] = count[d]
        BY <1>2, <1>6, <2>4 DEF aim_tx_enqueue__immediate, HandOver
      <3> QED
        BY <1>1, <2>1, <3>2, <3>3 DEF Unsent
    <2> QED
      BY <2>3, <2>4
  <1>7. ASSUME NEW f \in queue_outgoing, FlushSend(f) PROVE LedgerOf(d)'
    <2>1. sock' = sock /\ Healthy(d) /\ UNCHANGED count
      BY <1>7 DEF FlushSend, Healthy
    <2>2. CASE d = f.conn
      BY <1>7, <2>1, <2>2, LedgerOfSend
    <2>3. CASE d # f.conn
      <3>1. f \in Frames
        BY DEF TypeOK
      <3>2. PICK o \in Outcomes(f.conn) : Transmit(f, o)
        BY <1>7 DEF FlushSend
      <3>3. wire'[d] = wire[d]
        BY <2>3, <3>1, <3>2, TransmitEffect
      <3>4. [f EXCEPT !.handled = TRUE].conn = f.conn
        BY <3>1, MarkFrame
      <3>5. Unsent(d)' = Unsent(d)
        BY <1>7, <2>3, <3>4 DEF FlushSend, Unsent
      <3> QED
        BY <1>1, <2>1, <3>3, <3>5
    <2> QED
      BY <2>2, <2>3
  <1>8. ASSUME FlushEnd PROVE LedgerOf(d)'
    <2>1. sock' = sock /\ UNCHANGED <<wire, count>>
      BY <1>8 DEF FlushEnd
    <2>2. Unsent(d)' = Unsent(d)
      BY <1>8 DEF FlushEnd, aim_tx_purgequeue, Unsent
    <2> QED
      BY <1>1, <2>1, <2>2 DEF Healthy
  <1>9. ASSUME NEW c \in Conns,
               aim_conn_close(c) \/ CompleteConnect(c) \/ FailConnect(c) \/ PeerReset(c)
        PROVE  Healthy(d) /\ UNCHANGED <<queue_outgoing, wire, count>>
    BY <1>2, <1>9 DEF aim_conn_close, CompleteConnect, FailConnect, PeerReset, Healthy
  <1>10. ASSUME \/ \E m \in Modes : aim_tx_setenqueue(m)
                \/ \E f \in queue_outgoing : FlushSkip(f)
                \/ aim_tx_flushqueue \/ CallbackReturns \/ UNCHANGED vars
         PROVE  Healthy(d) /\ UNCHANGED <<queue_outgoing, wire, count>>
    BY <1>10 DEF aim_tx_setenqueue, FlushSkip, aim_tx_flushqueue, CallbackReturns, vars,
       Healthy
  <1>11. ASSUME Healthy(d), UNCHANGED <<queue_outgoing, wire, count>> PROVE LedgerOf(d)'
    BY <1>1, <1>11 DEF Unsent
  <1> QED
    BY <1>3, <1>4, <1>5, <1>6, <1>7, <1>8, <1>9, <1>10, <1>11
       DEF Next, ConnNext, SendNext, FlushNext

\* One more packet, stamped with the next number.
LEMMA TransmitKeepsStamps ==
    ASSUME TypeOK, NEW f \in Frames, NEW o, Transmit(f, o), FlapOrder,
           o = "sent" => f.seqnum = (Len(wire[f.conn]) + 1) % SeqnumMod
    PROVE  FlapOrder'
  <1> SUFFICES ASSUME NEW c \in Conns, NEW i \in 1..Len(wire'[c])
               PROVE  wire'[c][i].seqnum = i % SeqnumMod
    BY DEF FlapOrder
  <1>1. CASE o = "sent" /\ c = f.conn
    <2>1. i \in 1..Len(wire[c]) \/ i = Len(wire[c]) + 1
      BY <1>1, TransmitEffect
    <2>2. CASE i \in 1..Len(wire[c])
      BY <1>1, <2>2, TransmitEffect DEF FlapOrder
    <2>3. CASE i = Len(wire[c]) + 1
      <3>1. wire'[c][i] = Packet(f)
        BY <1>1, <2>3, TransmitEffect
      <3> QED
        BY <1>1, <2>3, <3>1 DEF Packet
    <2> QED
      BY <2>1, <2>2, <2>3
  <1>2. CASE ~(o = "sent" /\ c = f.conn)
    BY <1>2, TransmitEffect DEF FlapOrder
  <1> QED
    BY <1>1, <1>2

LEMMA FlapStep ==
    ASSUME MallocFails = FALSE, Interrupts = FALSE, TypeOK, OrderInv, FlapInv, [Next]_vars
    PROVE  FlapOrder'
  <1> USE DEF connVars, seqVars, loopVars
  <1>1. ASSUME NEW c \in Conns, NEW o \in Outcomes(c), o = "sent" PROVE Healthy(c)
    BY <1>1 DEF Outcomes, Healthy
  <1>2. ASSUME NEW c \in Conns, aim_newconn(c) PROVE FlapOrder'
    BY <1>2 DEF aim_newconn, FlapInv, FlapOrder, TypeOK
  <1>3. ASSUME NEW c \in Conns, aim_tx_enqueue__immediate(c) PROVE FlapOrder'
    <2>1. PICK o \in Outcomes(c) : Transmit(NewFrame(c), o)
      BY <1>3 DEF aim_tx_enqueue__immediate
    <2>2. NewFrame(c) \in Frames /\ NewFrame(c).conn = c
      BY NewFrameType DEF NewFrame
    <2>3. ASSUME o = "sent"
          PROVE  NewFrame(c).seqnum = (Len(wire[c]) + 1) % SeqnumMod
      <3>1. count[c] = Len(wire[c]) /\ count[c] \in Nat
        BY <1>1, <1>3, <2>3, ImmediateEffect DEF FlapInv, TypeOK
      <3>2. seqnum[c] = count[c] % SeqnumMod
        BY DEF FlapInv, Stamped
      <3> QED
        BY <3>1, <3>2, ModSucc DEF NewFrame, aim_get_next_txseqnum
    <2> QED
      BY <2>1, <2>2, <2>3, TransmitKeepsStamps DEF FlapInv
  <1>4. ASSUME NEW f \in queue_outgoing, FlushSend(f) PROVE FlapOrder'
    <2>1. f \in Frames /\ f.conn \in Conns
      BY DEF TypeOK, Frames
    <2>2. PICK o \in Outcomes(f.conn) : Transmit(f, o)
      BY <1>4 DEF FlushSend
    <2>3. ASSUME o = "sent" PROVE f.seqnum = (Len(wire[f.conn]) + 1) % SeqnumMod
      <3>1. LedgerOf(f.conn)
        BY <1>1, <2>1, <2>3 DEF FlapInv, Ledger
      <3>2. f.n = Len(wire[f.conn]) + 1
        BY <1>4, <3>1, SentIsFirst
      <3> QED
        BY <3>2 DEF FlapInv, Stamped
    <2> QED
      BY <2>1, <2>2, <2>3, TransmitKeepsStamps DEF FlapInv
  <1>5. ASSUME UNCHANGED wire PROVE FlapOrder'
    BY <1>5 DEF FlapInv, FlapOrder
  <1>6. ASSUME NEW c \in Conns, aim_conn_kill(c) \/ aim_tx_enqueue__queuebased(c)
        PROVE  UNCHANGED wire
    BY <1>6 DEF aim_conn_kill, aim_tx_enqueue__queuebased
  <1> QED
    BY <1>2, <1>3, <1>4, <1>5, <1>6, QuietStep DEF Next, ConnNext, SendNext, FlushNext

LEMMA FlapInit == Init => FlapInv
  <1> SUFFICES ASSUME Init PROVE FlapInv
    OBVIOUS
  <1>1. 0 % SeqnumMod = 0
    BY SeqnumModAssumption
  <1>2. \A c \in Conns : Unsent(c) = {} /\ wire[c] = <<>> /\ count[c] = 0
    BY DEF Init, Unsent
  <1>3. Stamped /\ FlapOrder
    BY <1>1, <1>2 DEF Init, Stamped, FlapOrder
  <1>4. Ledger
    BY <1>2 DEF Init, Ledger, LedgerOf
  <1> QED
    BY <1>3, <1>4 DEF FlapInv

\* If no buffer is refused and no send() is interrupted, the stamps a careful
\* client's connection puts on its socket count 1, 2, 3, ... modulo the width
\* of flap_seqnum_t, although they are assigned when frames are handed over
\* (txqueue.c:106-109, 147-148) and frames then wait for connects and flushes.
THEOREM StampOrder ==
    ASSUME CarefulClient, MallocFails = FALSE, Interrupts = FALSE
    PROVE  Spec => []FlapOrder
  <1>1. ASSUME OrderInv, SentInOrder, FlapInv, TypeOK, NoDanglingFrame, [Next]_vars
        PROVE  (OrderInv /\ SentInOrder /\ FlapInv)'
    <2>1. Numbered' /\ ModeKept' /\ LeftBehind' /\ WireFirst'
      BY <1>1, NumberedStep, ModeKeptStep, LeftBehindStep, WireFirstStep DEF OrderInv
    <2>2. SentInOrder'
      BY <1>1, SentStep
    <2>3. Stamped'
      BY <1>1, StampedStep DEF FlapInv
    <2>4. Ledger'
      BY <1>1, LedgerStep DEF FlapInv
    <2>5. FlapOrder'
      BY <1>1, FlapStep
    <2> QED
      BY <2>1, <2>2, <2>3, <2>4, <2>5 DEF OrderInv, FlapInv
  <1>2. FlapInv => FlapOrder
    BY DEF FlapInv
  <1> QED
    BY <1>1, <1>2, OrderInit, FlapInit, TypeCorrect, NoDangling, PTL DEF Spec

-----------------------------------------------------------------------------
(* The event loop *)

LEMMA NetworkImplements == ASSUME NetworkNext PROVE Next \/ UNCHANGED vars
  <1>1. PICK c \in Conns : ConnectResolves(c) \/ FrameArrives(c) \/ ConnectionLost(c)
    BY DEF NetworkNext
  <1>2. CASE ConnectResolves(c) \/ FrameArrives(c)
    BY <1>2 DEF ConnectResolves, FrameArrives
  <1>3. CASE ConnectionLost(c)
    BY <1>3 DEF ConnectionLost, Next, ConnNext
  <1> QED
    BY <1>1, <1>2, <1>3

LEMMA HandlerImplements == ASSUME HandlerNext PROVE Next
  <1>1. ASSUME NEW c \in Conns, HandlerOpens(c) \/ HandlerCloses(c) \/ HandlerKills(c)
        PROVE  Next
    BY <1>1 DEF HandlerOpens, HandlerCloses, HandlerKills, Next, ConnNext
  <1>2. ASSUME NEW c \in Conns, HandlerSends(c) PROVE Next
    BY <1>2 DEF HandlerSends, Next, SendNext
  <1>3. ASSUME NEW m \in Modes, HandlerSwitches(m) PROVE Next
    BY <1>3 DEF HandlerSwitches, Next, SendNext
  <1> QED
    BY <1>1, <1>2, <1>3 DEF HandlerNext

\* What aim_select returned is a connection as long as the loop is busy with it.
Selected == pc = "input" => sel \in Conns

LEMMA StepImplements == ASSUME Selected, LoopStep PROVE Next \/ UNCHANGED vars
  <1>1. CASE SelectNone \/ SelectTimeout \/ \E c \in Conns : SelectDead(c) \/ SelectReady(c)
    BY <1>1 DEF SelectNone, SelectTimeout, SelectDead, SelectReady
  <1>2. CASE SelectOutgoing
    BY <1>2 DEF SelectOutgoing, Next, FlushNext
  <1>3. CASE InputDead \/ InputConnected \/ InputRefused \/ InputLost
    BY <1>3 DEF Selected, InputDead, InputConnected, InputRefused, InputLost, Next, ConnNext
  <1>4. CASE InputFrame
    BY <1>4 DEF InputFrame
  <1>5. CASE HandlerReturns
    BY <1>5 DEF HandlerReturns, Next
  <1>6. CASE FlushStep
    BY <1>6 DEF FlushStep, Next, FlushNext
  <1> QED
    BY <1>1, <1>2, <1>3, <1>4, <1>5, <1>6 DEF LoopStep

LEMMA SelectedStep == ASSUME Selected, [LoopNext]_allVars PROVE Selected'
  <1>1. CASE NetworkNext
    BY <1>1 DEF NetworkNext, ConnectResolves, FrameArrives, ConnectionLost, loopStateVars, Selected
  <1>2. CASE HandlerNext
    BY <1>2 DEF HandlerNext, HandlerOpens, HandlerCloses, HandlerKills, HandlerSends,
                HandlerSwitches, loopStateVars, Selected
  <1>3. CASE LoopStep
    <2>1. CASE \E c \in Conns : SelectDead(c) \/ SelectReady(c)
      BY <2>1 DEF SelectDead, SelectReady, Selected
    <2>2. CASE SelectNone \/ SelectOutgoing \/ SelectTimeout \/ HandlerReturns \/ FlushStep
      BY <2>2 DEF SelectNone, SelectOutgoing, SelectTimeout, HandlerReturns, FlushStep, Selected
    <2>3. CASE InputDead \/ InputConnected \/ InputRefused \/ InputFrame \/ InputLost
      BY <2>3 DEF InputDead, InputConnected, InputRefused, InputFrame, InputLost,
                  loopStateVars, Selected
    <2> QED
      BY <1>3, <2>1, <2>2, <2>3 DEF LoopStep
  <1>4. CASE UNCHANGED allVars
    BY <1>4 DEF allVars, loopStateVars, Selected
  <1> QED
    BY <1>1, <1>2, <1>3, <1>4 DEF LoopNext

\* The loop around aim_select, aim_get_command and the callbacks does nothing to the
\* connections and the transmit queue that TxQueue does not allow: what is proved of
\* every client above holds of a client with this loop (conn.c:717-797, faimtest.c:285-335).
THEOREM LoopImplements == LoopSpec => Spec
  <1>1. LoopInit => Init /\ Selected
    BY DEF LoopInit, Selected
  <1>2. Selected /\ [LoopNext]_allVars => [Next]_vars
    <2> SUFFICES ASSUME Selected, [LoopNext]_allVars PROVE Next \/ UNCHANGED vars
      OBVIOUS
    <2>1. CASE UNCHANGED allVars
      BY <2>1 DEF allVars
    <2> QED
      BY <2>1, NetworkImplements, HandlerImplements, StepImplements DEF LoopNext
  <1>3. Selected /\ [LoopNext]_allVars => Selected'
    BY SelectedStep
  <1> QED
    BY <1>1, <1>2, <1>3, PTL DEF LoopSpec, Spec
=============================================================================
