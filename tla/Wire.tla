-------------------------------- MODULE Wire --------------------------------
(***************************************************************************)
(* FLAP frames that carry TLV chains over one TCP connection, byte by byte *)
(* (sendframe_flap and aim_send in src/src/txqueue.c, aim_recv and         *)
(* aim_get_command in src/src/rxqueue.c, aim_readtlvchain in               *)
(* src/src/tlv.c).  Both ends run this library.  send() and recv() move    *)
(* any number of bytes at a time; a connection may be reset with a frame   *)
(* half sent, and a receiver may run out of memory between a header and    *)
(* its payload.  The library closes a connection only when it reads.       *)
(***************************************************************************)
EXTENDS Tlv

CONSTANTS
    Chains,       \* the TLV chains the sender puts into frames
    Tails,        \* the bytes that may follow a chain in a frame
    Room,         \* what aim_tx_new allocates for a frame
    Failures,     \* how send() may fail: "reset", or "interrupted" on a sound socket
    MallocFails,  \* may aim_get_command run out of memory?
    MaxFrames,    \* bound: frames sent
    MaxTlvs       \* bound: TLVs a chain may grow to while it is read

ASSUME FailuresAssumption == Failures \subseteq {"reset", "interrupted"}

\* The type of a TLV has 16 bits.
WireTlvs == [type : 0..65535, value : Seq(Byte)]

ASSUME ChainsAssumption == Chains \subseteq Seq(WireTlvs) /\ Tails \subseteq Seq(Byte)
ASSUME BoundsAssumption == Room \in Nat /\ MaxFrames \in Nat /\ MaxTlvs \in Nat

VARIABLES
    sent,     \* sent[i]: the chain and the tail of the frame with sequence number i
    out,      \* what aim_send has left of the frame it is sending
    wire,     \* bytes in flight
    broken,   \* the connection was reset
    rx,       \* the receiver: where it is, its buffer, and the header and chain read
    isopen,   \* the receiver's conn->fd is not -1
    nomem,    \* an allocation of the receiver failed
    parsed    \* the chains read, with the sequence numbers of their frames

txVars == <<sent, out>>
rxVars == <<rx, isopen, nomem, parsed>>
vars == <<txVars, wire, broken, rxVars>>

Idle == [pc |-> "idle", buf |-> <<>>, need |-> 0, seqnum |-> 0, pos |-> 0, list |-> <<>>]

Init ==
    /\ sent = <<>>
    /\ out = <<>>
    /\ wire = <<>>
    /\ broken = FALSE
    /\ rx = Idle
    /\ isopen = TRUE
    /\ nomem = FALSE
    /\ parsed = <<>>

-----------------------------------------------------------------------------
(* Sending *)

Payload(f) == aimbs_put(aim_writetlvchain(Writer(Room), f.chain), f.tail).data

sendframe_flap(f, seqnum) ==
    <<42, 4>> \o aimutil_put16(seqnum) \o aimutil_put16(Len(Payload(f))) \o Payload(f)

aim_tx_enqueue(f) ==
    /\ out = <<>>
    /\ Len(sent) < MaxFrames
    /\ sent' = Append(sent, f)
    /\ out' = sendframe_flap(f, Len(sent'))
    /\ UNCHANGED <<wire, broken, rxVars>>

\* One turn of the loop of aim_send: send() takes n bytes.
aim_send(n) ==
    /\ n \in 1..Len(out)
    /\ ~broken
    /\ wire' = wire \o SubSeq(out, 1, n)
    /\ out' = SubSeq(out, n + 1, Len(out))
    /\ UNCHANGED <<sent, broken, rxVars>>

\* send() returns -1 or 0: the rest of the frame is given up and the frame counts
\* as sent.  A reset connection takes nothing more.
SendFails(how) ==
    /\ out # <<>>
    /\ how \in Failures
    /\ broken => how = "reset"
    /\ broken' = (how = "reset")
    /\ out' = <<>>
    /\ UNCHANGED <<sent, wire, rxVars>>

-----------------------------------------------------------------------------
(* aim_get_command *)

\* The socket is readable: the header is to be read.
aim_get_command ==
    /\ isopen
    /\ rx.pc = "idle"
    /\ wire # <<>> \/ broken
    /\ rx' = [Idle EXCEPT !.pc = "header", !.need = 6]
    /\ UNCHANGED <<txVars, wire, broken, isopen, nomem, parsed>>

\* Mutant: recv() is asked for more than the buffer holds.
recv_Greedy(n) ==
    /\ rx.pc \in {"header", "payload"}
    /\ n \in 1..Len(wire)
    /\ Len(rx.buf) < rx.need
    /\ rx' = [rx EXCEPT !.buf = @ \o SubSeq(wire, 1, n)]
    /\ wire' = SubSeq(wire, n + 1, Len(wire))
    /\ UNCHANGED <<txVars, broken, isopen, nomem, parsed>>

\* One turn of the loop of aim_recv: recv() returns n of the bytes it is asked for.
aim_recv(n) ==
    /\ rx.pc \in {"header", "payload"}
    /\ n \in 1..Len(wire)
    /\ Len(rx.buf) + n <= rx.need
    /\ rx' = [rx EXCEPT !.buf = @ \o SubSeq(wire, 1, n)]
    /\ wire' = SubSeq(wire, n + 1, Len(wire))
    /\ UNCHANGED <<txVars, broken, isopen, nomem, parsed>>

aim_conn_close ==
    /\ isopen' = FALSE
    /\ rx' = Idle
    /\ UNCHANGED <<txVars, wire, broken, nomem, parsed>>

\* recv() fails or meets the end: what was read is thrown away.
RecvFails ==
    /\ rx.pc \in {"header", "payload"}
    /\ broken
    /\ Len(rx.buf) < rx.need
    /\ aim_conn_close

\* Mutant: a frame without a payload is passed over.
HeaderRead_SkipsEmpty ==
    LET payloadlen == aimutil_get(SubSeq(rx.buf, 5, 6))
    IN  [Idle EXCEPT !.pc     = IF payloadlen = 0 THEN "idle" ELSE "payload",
                     !.need   = payloadlen,
                     !.seqnum = aimutil_get(SubSeq(rx.buf, 3, 4))]

\* The header: 0x2a, the channel, and in two bytes each the sequence number and
\* the length of the payload, which is read next unless there is none.
HeaderRead ==
    LET payloadlen == aimutil_get(SubSeq(rx.buf, 5, 6))
    IN  [Idle EXCEPT !.pc     = IF payloadlen = 0 THEN "parse" ELSE "payload",
                     !.need   = payloadlen,
                     !.seqnum = aimutil_get(SubSeq(rx.buf, 3, 4))]

GotHeader ==
    /\ rx.pc = "header"
    /\ Len(rx.buf) = 6
    /\ IF Head(rx.buf) # 42
       THEN aim_conn_close
       ELSE /\ rx' = HeaderRead
            /\ UNCHANGED <<txVars, wire, broken, isopen, nomem, parsed>>

\* malloc() fails for the frame or for its payload, which stays on the socket.
NoMemory ==
    /\ MallocFails
    /\ rx.pc = "header"
    /\ Len(rx.buf) = 6
    /\ Head(rx.buf) = 42
    /\ rx' = Idle
    /\ nomem' = TRUE
    /\ UNCHANGED <<txVars, wire, broken, isopen, parsed>>

GotPayload ==
    /\ rx.pc = "payload"
    /\ Len(rx.buf) = rx.need
    /\ rx' = [rx EXCEPT !.pc = "parse"]
    /\ UNCHANGED <<txVars, wire, broken, isopen, nomem, parsed>>

-----------------------------------------------------------------------------
(* aim_readtlvchain, called by the handler of the frame *)

Stream == [data |-> rx.buf, offset |-> rx.pos]

\* Mutant: the chain is kept in the order of the wire.
readtlvchain_Appends ==
    /\ rx.pc = "parse"
    /\ aim_bstream_empty(Stream) > 0
    /\ Len(rx.list) < MaxTlvs
    /\ LET r == ReadTlv(Stream)
       IN  rx' = IF r.tlv = Truncated
                 THEN [rx EXCEPT !.pc = "done", !.list = <<>>]
                 ELSE [rx EXCEPT !.pos = r.bs.offset, !.list = Append(@, r.tlv)]
    /\ UNCHANGED <<txVars, wire, broken, isopen, nomem, parsed>>

\* Mutant: a TLV without a value is not passed.
readtlvchain_Stays ==
    /\ rx.pc = "parse"
    /\ aim_bstream_empty(Stream) > 0
    /\ Len(rx.list) < MaxTlvs
    /\ LET r == ReadTlv(Stream)
       IN  rx' = IF r.tlv = Truncated
                 THEN [rx EXCEPT !.pc = "done", !.list = <<>>]
                 ELSE [rx EXCEPT !.pos = IF r.tlv.value = <<>> THEN @ ELSE r.bs.offset, !.list = <<r.tlv>> \o @]
    /\ UNCHANGED <<txVars, wire, broken, isopen, nomem, parsed>>

\* One turn of the loop.
aim_readtlvchain_turn ==
    /\ rx.pc = "parse"
    /\ aim_bstream_empty(Stream) > 0
    /\ Len(rx.list) < MaxTlvs
    /\ LET r == ReadTlv(Stream)
       IN  rx' = IF r.tlv = Truncated
                 THEN [rx EXCEPT !.pc = "done", !.list = <<>>]
                 ELSE [rx EXCEPT !.pos = r.bs.offset, !.list = <<r.tlv>> \o @]
    /\ UNCHANGED <<txVars, wire, broken, isopen, nomem, parsed>>

\* The loop ends; the handler uses the chain and the client goes on.
ChainRead ==
    /\ rx.pc = "done" \/ (rx.pc = "parse" /\ aim_bstream_empty(Stream) = 0)
    /\ parsed' = Append(parsed, [seqnum |-> rx.seqnum, list |-> rx.list])
    /\ rx' = Idle
    /\ UNCHANGED <<txVars, wire, broken, isopen, nomem>>

-----------------------------------------------------------------------------
Frames == [chain : Chains, tail : Tails]
Sends == \E n \in 1..Len(out) : aim_send(n)
Receives ==
    \/ aim_get_command
    \/ \E n \in 1..Len(wire) : aim_recv(n)
    \/ RecvFails
    \/ GotHeader
    \/ GotPayload
    \/ aim_readtlvchain_turn
    \/ ChainRead

Next ==
    \/ \E f \in Frames : aim_tx_enqueue(f)
    \/ Sends
    \/ \E how \in Failures : SendFails(how)
    \/ Receives
    \/ NoMemory

Spec == Init /\ [][Next]_vars

\* A blocking send() or recv() on a sound connection moves bytes some time, and
\* the client calls aim_get_command again for a socket that stays readable.
FairSpec == Spec /\ WF_vars(Sends) /\ WF_vars(Receives)

-----------------------------------------------------------------------------
(* Properties *)

\* Every variable has its type; the wire never holds more than was sent.
TypeOK ==
    /\ sent \in Seq(Frames)
    /\ out \in Seq(Byte)
    /\ wire \in Seq(Byte)
    /\ rx.pc \in {"idle", "header", "payload", "parse", "done"}
    /\ Len(rx.buf) <= rx.need
    /\ {broken, isopen, nomem} \subseteq BOOLEAN

\* The chain a frame should be read as: its TLVs in reverse, nothing of them when
\* the frame had no room for all, and before them what two bytes that follow the
\* chain look like.
Expected(f) ==
    LET chain == IF aim_sizetlvchain(f.chain) > Room THEN <<>> ELSE f.chain
        tail  == IF aim_sizetlvchain(chain) + Len(f.tail) > Room THEN <<>> ELSE f.tail
    IN  (IF tail = <<>> THEN <<>> ELSE <<Tlv(aimutil_get(tail), <<>>)>>) \o Reverse(chain)

\* No handler ever sees part of a frame, or the bytes of two: whatever pieces the
\* bytes come in, and whether the connection breaks within a frame or memory runs
\* out between its header and its payload, the chains that are read are those of
\* frames that were sent, each at most once and in order, all TLVs or none.
WholeFrames ==
    \A i \in 1..Len(parsed) :
        /\ parsed[i].seqnum \in 1..Len(sent)
        /\ parsed[i].list = Expected(sent[parsed[i].seqnum])
        /\ \A j \in 1..(i - 1) : parsed[j].seqnum < parsed[i].seqnum

\* aim_readtlvchain ends: no handler is left in its loop, where the whole client
\* would hang.
ReadsEnd == rx.pc = "parse" ~> rx.pc # "parse"

\* Every frame is read by the other end if the connection lasts and the receiver
\* has memory: the library never waits for bytes that are not coming.
FramesArrive ==
    \A i \in 1..MaxFrames :
        Len(sent) >= i ~> broken \/ nomem \/ \E p \in ToSet(parsed) : p.seqnum = i
=============================================================================
