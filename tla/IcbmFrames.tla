----------------------------- MODULE IcbmFrames -----------------------------
(***************************************************************************)
(* What the functions that send messages put into their frames             *)
(* (src/src/im.c, src/src/chat.c), field by field.  Each frame is          *)
(* allocated with a length computed beforehand, most TLVs are written by   *)
(* hand with a length computed beforehand too, and a put that does not fit *)
(* is dropped without a word.                                              *)
(***************************************************************************)
EXTENDS Userinfo

MAXMSGLEN == 7987
MAXICONLEN == 7168
AIM_ICONIDENT == [i \in 1..14 |-> 73]
rtfcap == [i \in 1..38 |-> 82]

\* The header every SNAC starts with.
aim_putsnac(family, subtype, snacid) ==
    aimutil_put16(family) \o aimutil_put16(subtype) \o <<0, 0>> \o aimutil_put32(snacid)

\* A frame of an ICBM up to the destination.
IcbmHead(room, ck, channel, sn) ==
    Puts(Writer(room), <<aim_putsnac(4, 6, 1), ck, aimutil_put16(channel)>> \o Counted(sn))

\* A TLV written by hand, with the length the code states.
ByHand(t, length, pieces) == <<aimutil_put16(t), aimutil_put16(length)>> \o pieces

-----------------------------------------------------------------------------
(* Multipart messages *)

aim_mpmsg_init == <<>>

mpmsg_addsection(mpm, charset, charsubset, data) ==
    Append(mpm, [charset |-> charset, charsubset |-> charsubset, data |-> data])

aim_mpmsg_addraw(mpm, charset, charsubset, data) ==
    mpmsg_addsection(mpm, charset, charsubset, data)

aim_mpmsg_addascii(mpm, ascii) == mpmsg_addsection(mpm, 0, 0, ascii)

aim_mpmsg_addunicode(mpm, unicode) ==
    mpmsg_addsection(mpm, 2, 0,
        Puts(Writer(2 * Len(unicode)),
             [i \in 1..Len(unicode) |-> aimutil_put16(unicode[i])]).data)

-----------------------------------------------------------------------------
(* aim_send_im_ext *)

\* Its arguments, and those aim_send_im makes of its own: the flags that need more
\* arguments are masked.
sendimext_args(destsn, flags, msg) ==
    [kind |-> "im", sn |-> destsn, flags |-> flags, msg |-> msg, mpmsg |-> <<>>,
     features |-> <<>>, charset |-> 0, charsubset |-> 0,
     iconlen |-> 0, iconsum |-> 0, iconstamp |-> 0]

aim_send_im(destsn, flags, msg) ==
    sendimext_args(destsn, flags \ {"CUSTOMFEATURES", "HASICON", "MULTIPART"}, msg)

Features(a) == IF "CUSTOMFEATURES" \in a.flags THEN a.features ELSE <<1, 1, 1, 2>>

\* The message as sections: those given, or the one the flags describe.
Sections(a) ==
    IF "MULTIPART" \in a.flags THEN a.mpmsg
    ELSE <<[charset    |-> CASE "CUSTOMCHARSET" \in a.flags -> a.charset
                             [] "CUSTOMCHARSET" \notin a.flags /\ "UNICODE" \in a.flags -> 2
                             [] {"CUSTOMCHARSET", "UNICODE"} \cap a.flags = {}
                                    /\ "ISO_8859_1" \in a.flags -> 3
                             [] OTHER -> 0,
            charsubset |-> IF "CUSTOMCHARSET" \in a.flags THEN a.charsubset ELSE 0,
            data       |-> a.msg]>>

\* Mutant: the four bytes of the character set are not counted.
msgtlvlen_NoCharset(a) ==
    FoldLeft(LAMBDA n, sec : n + 2 + 2 + Len(sec.data),
             1 + 1 + 2 + Len(Features(a)), Sections(a))

msgtlvlen(a) ==
    FoldLeft(LAMBDA n, sec : n + 2 + 2 + 4 + Len(sec.data),
             1 + 1 + 2 + Len(Features(a)), Sections(a))

SectionPieces(sec) ==
    <<<<1, 1>>, aimutil_put16(Len(sec.data) + 4), aimutil_put16(sec.charset),
      aimutil_put16(sec.charsubset), sec.data>>

\* A TLV without a value for a flag that is set.
FlagPieces(a, flag, t) == IF flag \in a.flags THEN ByHand(t, 0, <<>>) ELSE <<>>

aim_send_im_ext(a, ck) ==
    LET n        == Len(Sections(a))
        sections == FlattenSeq([i \in 1..n |-> SectionPieces(Sections(a)[i])])
        icon     == ByHand(8, 12, <<aimutil_put32(a.iconlen), <<0, 1>>,
                                    aimutil_put16(a.iconsum), aimutil_put32(a.iconstamp)>>)
    IN  Puts(IcbmHead(msgtlvlen(a) + 128, ck, 1, a.sn),
             ByHand(2, msgtlvlen(a),
                    <<<<5>>, <<1>>, aimutil_put16(Len(Features(a))), Features(a)>> \o sections)
             \o FlagPieces(a, "ACK", 3)
             \o FlagPieces(a, "AWAY", 4)
             \o FlagPieces(a, "OFFLINE", 6)
             \o (IF "HASICON" \in a.flags THEN icon ELSE <<>>)
             \o FlagPieces(a, "BUDDYREQ", 9))

-----------------------------------------------------------------------------
(* Rendezvous proposals: TLV 5 with the cookie, a capability and more TLVs *)

Proposal(ck, cap) == <<<<0, 0>>, ck, aim_putcap(Writer(16), {cap}).data>>
Tlv10 == ByHand(10, 2, <<<<0, 1>>>>)
Tlv15 == ByHand(15, 0, <<>>)

aim_iconsum(buf) ==
    LET n   == Len(buf)
        at(i) == IF i % 2 = 1 THEN buf[i] ELSE 256 * buf[i]
        sum == FoldLeft(LAMBDA s, i : s + at(i), 0, [i \in 1..n |-> i])
    IN  ((sum \div 65536) + (sum % 65536)) % 65536

aim_send_icon(c, ck) ==
    LET iconlen == Len(c.icon)
        ident   == Len(AIM_ICONIDENT)
    IN  Puts(IcbmHead(10 + 8 + 2 + 1 + Len(c.sn) + 2 + 2 + 2 + 8 + 16 + 2 + 2 + 2 + 2 + 2
                        + 2 + 2 + 4 + 4 + 4 + iconlen + ident + 2 + 2, ck, 2, c.sn),
             ByHand(5, 2 + 8 + 16 + 6 + 4 + 4 + iconlen + 4 + 4 + 4 + ident,
                    Proposal(ck, "BUDDYICON") \o Tlv10 \o Tlv15
                    \o ByHand(10001, 4 + 4 + 4 + iconlen + ident,
                           <<<<0, 0>>, aimutil_put16(c.iconsum), aimutil_put32(iconlen),
                             aimutil_put32(c.stamp), c.icon, AIM_ICONIDENT>>))
             \o ByHand(3, 0, <<>>))

servdatalen(c) ==
    2 + 2 + 16 + 2 + 4 + 1 + 2 + 2 + 2 + 4 + 4 + 4 + 2 + 4 + 2 + Len(c.rtfmsg) + 1
    + 4 + 4 + 4 + Len(rtfcap) + 1

le16(n) == aimutil_putle(aimutil_put16(n))
le32(n) == aimutil_putle(aimutil_put32(n))

\* The service data is little-endian; its strings end with a NUL.
aim_send_rtfmsg(c, ck) ==
    Puts(IcbmHead(10 + 128 + servdatalen(c), ck, 2, c.sn),
         ByHand(5, 2 + 8 + 16 + 2 + 2 + 2 + 2 + 2 + 2 + 2 + servdatalen(c),
                Proposal(ck, "ICQSERVERRELAY") \o Tlv10 \o Tlv15
                \o ByHand(10001, servdatalen(c),
                       <<le16(11 + 16), le16(9), Zeros(16), le16(0), le32(0), <<0>>, le16(1002),
                         le16(14), le16(1003), le32(0), le32(0), le32(0),
                         le16(1), le32(0), le16(Len(c.rtfmsg) + 1), c.rtfmsg \o <<0>>,
                         le32(c.fgcolor), le32(c.bgcolor),
                         le32(Len(rtfcap) + 1), rtfcap \o <<0>>>>)))

\* The header TLV 5 carries is built in a buffer of its own.
HeaderTlv(hdrlen, ck, cap, itl) ==
    aim_writetlvchain(Puts(Writer(hdrlen), Proposal(ck, cap)), itl).data

aim_request_directim(c, ck) ==
    LET itl == aim_addtlvtochain_noval(<<Tlv(10, <<0, 1>>), Tlv(3, c.ip),
                                         Tlv(5, aimutil_put16(c.port))>>, 15)
    IN  aim_writetlvchain(IcbmHead(256 + Len(c.sn), ck, 2, c.sn),
            aim_addtlvtochain_raw(aim_addtlvtochain_noval(<<>>, 3), 5,
                HeaderTlv(2 + 8 + 16 + 6 + 8 + 6 + 4, ck, "IMIMAGE", itl)))

aim_request_sendfile(c, ck) ==
    LET n == Len(c.filename)
    IN  Puts(IcbmHead(10 + 8 + 2 + 1 + Len(c.sn) + 2 + 2 + 2 + 8 + 16 + 6 + 8 + 6 + 4
                        + 2 + 2 + 2 + 2 + 4 + n + 4, ck, 2, c.sn),
             ByHand(5, 2 + 8 + 16 + 6 + 8 + 6 + 4 + 2 + 2 + 2 + 2 + 4 + n + 4,
                    Proposal(ck, "SENDFILE") \o Tlv10
                    \o ByHand(3, 4, <<c.ip>>) \o ByHand(5, 2, <<aimutil_put16(c.port)>>)
                    \o Tlv15
                    \o ByHand(10001, 2 + 2 + 4 + n + 4,
                           <<<<0, 1>>, aimutil_put16(c.numfiles), aimutil_put32(c.totsize),
                             c.filename, Zeros(4)>>)))

aim_addtlvtochain_chatroom(list, t, room) ==
    aim_addtlvtochain_raw(list, t,
        Puts(Writer(2 + 1 + Len(room.name) + 2),
             <<aimutil_put16(room.exchange)>> \o Counted(room.name)
             \o <<aimutil_put16(room.instance)>>).data)

aim_chat_readroominfo(bs) ==
    LET Room(g) == [v  |-> [exchange |-> g.v[1], name |-> g.v[2], instance |-> g.v[3]],
                    bs |-> g.bs]
    IN  Room(Gets(bs, <<2, -1, 2>>))

aim_chat_invite(c, ck) ==
    LET itl == aim_addtlvtochain_chatroom(
                   <<Tlv(10, <<0, 1>>), Tlv(15, <<>>), Tlv(12, c.msg)>>, 10001, c.room)
    IN  aim_writetlvchain(
            IcbmHead(1152 + Len(c.sn) + Len(c.room.name) + Len(c.msg), ck, 2, c.sn),
            <<Tlv(5, HeaderTlv(2 + 8 + 16 + 6 + 4 + 4 + Len(c.msg) + 4 + 2 + 1
                                 + Len(c.room.name) + 2, ck, "CHAT", itl))>>)

-----------------------------------------------------------------------------
(* Chat messages and arrivals *)

\* Mutant: the frame has no room for the headers beside the longest message.
chat_send_im_Short(c, ck) ==
    LET otl == <<Tlv(1, <<>>)>>
               \o (IF "NOREFLECT" \in c.flags THEN <<>> ELSE <<Tlv(6, <<>>)>>)
               \o (IF "AWAY" \in c.flags THEN <<Tlv(7, <<>>)>> ELSE <<>>)
    IN  aim_writetlvchain(Puts(Writer(1112 + 20), <<aim_putsnac(14, 5, 1), ck, <<0, 3>>>>),
            aim_addtlvtochain_frozentlvlist(otl, 5, <<Tlv(1, c.msg)>>))

aim_chat_send_im(c, ck) ==
    LET otl == <<Tlv(1, <<>>)>>
               \o (IF "NOREFLECT" \in c.flags THEN <<>> ELSE <<Tlv(6, <<>>)>>)
               \o (IF "AWAY" \in c.flags THEN <<Tlv(7, <<>>)>> ELSE <<>>)
    IN  aim_writetlvchain(Puts(Writer(1152), <<aim_putsnac(14, 5, 1), ck, <<0, 3>>>>),
            aim_addtlvtochain_frozentlvlist(otl, 5, <<Tlv(1, c.msg)>>))

aim_sendbuddyoncoming(c) ==
    aim_putuserinfo(Puts(Writer(1152), <<aim_putsnac(3, 11, 1)>>), c.user)
=============================================================================
