-------------------------------- MODULE Icbm --------------------------------
(***************************************************************************)
(* Messages from one client to another: sent by the functions of           *)
(* IcbmFrames, passed on by the server, which puts who sent them in front  *)
(* and may add TLVs of its own, and taken apart by the handlers in         *)
(* src/src/im.c, src/src/chat.c and src/src/buddylist.c, whose callbacks   *)
(* get the result.  The handler of ordinary messages works on the frame in *)
(* place, one TLV at a time; it and the user information block before it   *)
(* have to end exactly where the next field starts.                        *)
(*                                                                         *)
(* One message is on the way at a time; what remains from one to the next  *)
(* is the cache of chat cookies.                                           *)
(***************************************************************************)
EXTENDS IcbmFrames

CONSTANTS
    Calls,    \* calls of the functions that send, with their arguments
    Cookies,  \* what rand() makes cookies of
    Senders,  \* users as the server describes them
    Noise,    \* TLVs the server puts into a user information block (chains)
    Extras    \* TLVs the server or another client puts before the message (chains)

ASSUME CookiesAssumption == \A ck \in Cookies : Len(ck) = 8

VARIABLES
    pc,        \* what happens to the message next
    call,      \* the call that sent it
    frame,     \* its frame, then the stream the handler reads
    from,      \* who the server says it is from
    extra,     \* what the server put before it
    args,      \* struct aim_incomingim_ch1_args
    got,       \* what the callback was given
    cookies,   \* the cookies of type CHAT in sess->msgcookies
    quiet      \* those of them whose message does not come back

vars == <<pc, call, frame, from, extra, args, got, cookies, quiet>>

NoCall == [kind |-> "none"]
NoFrame == aim_bstream_init(<<>>)
NoArgs ==
    [flags |-> {}, features |-> <<>>, mpmsg |-> <<>>, charset |-> 0, charsubset |-> 0,
     msg |-> NULL, iconlen |-> 0, iconsum |-> 0, iconstamp |-> 0, extdata |-> NULL]

Init ==
    /\ pc = "idle"
    /\ call = NoCall
    /\ frame = NoFrame
    /\ from = NULL
    /\ extra = <<>>
    /\ args = NoArgs
    /\ got = NoCall
    /\ cookies = {}
    /\ quiet = {}

-----------------------------------------------------------------------------
(* Sending *)

\* The arguments the functions refuse.
Refused(c) ==
    \/ c.kind = "im" /\ IF "MULTIPART" \in c.flags THEN c.mpmsg = <<>>
                        ELSE Len(c.msg) = 0 \/ Len(c.msg) >= MAXMSGLEN
    \/ c.kind = "icon" /\ (Len(c.icon) = 0 \/ Len(c.icon) >= MAXICONLEN)
    \/ c.kind = "chatmsg" /\ c.msg = <<>>

Frame(c, ck) ==
    CASE c.kind = "im"       -> aim_send_im_ext(c, ck)
      [] c.kind = "icon"     -> aim_send_icon(c, ck)
      [] c.kind = "rtf"      -> aim_send_rtfmsg(c, ck)
      [] c.kind = "directim" -> aim_request_directim(c, ck)
      [] c.kind = "sendfile" -> aim_request_sendfile(c, ck)
      [] c.kind = "invite"   -> aim_chat_invite(c, ck)
      [] c.kind = "chatmsg"  -> aim_chat_send_im(c, ck)
      [] c.kind = "oncoming" -> aim_sendbuddyoncoming(c)

\* A chat message leaves its cookie in the cache.
Send(c, ck) ==
    /\ pc = "idle"
    /\ ~Refused(c)
    /\ pc' = "sent"
    /\ call' = c
    /\ frame' = aim_bstream_init(Frame(c, ck).data)
    /\ cookies' = IF c.kind = "chatmsg" THEN cookies \cup {ck} ELSE cookies
    /\ quiet' = IF c.kind = "chatmsg" /\ "NOREFLECT" \in c.flags THEN quiet \cup {ck}
                ELSE quiet
    /\ UNCHANGED <<from, extra, args, got>>

-----------------------------------------------------------------------------
(* The server (external) *)

AfterSnac == aim_bstream_setpos(frame, 10)

\* The addressee gets cookie and channel, the sender's block, and the TLVs; the
\* server adds the address it sees the sender at to a proposal.
Relay(u, noise, more) ==
    LET ck      == aimbs_getraw(AfterSnac, 8)
        channel == aimbs_getraw(ck.bs, 2)
        sn      == GetCounted(channel.bs, 1)
        list    == Reverse(aim_readtlvchain(sn.bs))
        seen    == [i \in 1..Len(list) |->
                       IF list[i].type # 5 THEN list[i]
                       ELSE Tlv(5, list[i].value \o TlvBytes(Tlv(4, <<10, 0, 0, 1>>)))]
        tail(l) == aim_writetlvchain(Writer(65536), l).data
    IN  /\ pc = "sent"
        /\ call.kind \in {"im", "icon", "rtf", "directim", "sendfile", "invite"}
        /\ more # <<>> => call.kind = "im"
        /\ pc' = "incoming"
        /\ from' = u
        /\ extra' = more
        /\ frame' = aim_bstream_init(
               ck.v \o channel.v \o ServerBlock(u, noise) \o
               (IF call.kind = "im"
                THEN tail(more) \o SubSeq(frame.data, sn.bs.offset + 1, Len(frame.data))
                ELSE tail(seen)))
        /\ UNCHANGED <<call, args, got, cookies, quiet>>

\* Everybody in the room gets a chat message, and so does the sender if TLV 6 asks
\* for it; where it does not, we look at another session in the room.
RelayChat(u, noise) ==
    LET ck    == aimbs_getraw(AfterSnac, 8)
        otl   == aim_readtlvchain(aim_bstream_advance(ck.bs, 2))
        list  == <<Tlv(3, ServerBlock(u, noise)), Tlv(1, <<>>)>>
                 \o (IF aim_gettlv(otl, 5, 1) = NULL THEN <<>>
                     ELSE <<Tlv(5, aim_gettlv(otl, 5, 1))>>)
    IN  /\ pc = "sent"
        /\ call.kind = "chatmsg"
        /\ pc' = IF aim_gettlv(otl, 6, 1) # NULL THEN "chatback" ELSE "chatmsg"
        /\ from' = u
        /\ frame' = aim_bstream_init(ck.v \o <<0, 3>> \o aim_writetlvchain(Writer(65536), list).data)
        /\ UNCHANGED <<call, extra, args, got, cookies, quiet>>

-----------------------------------------------------------------------------
(* incomingim *)

\* The callback is called; the frame is gone after it.
Callback(g) == pc' = "done" /\ got' = g /\ frame' = NoFrame

incomingim_ch2_buddyicon(sd) ==
    LET g == Gets(sd, <<4, 4, 4>>)
    IN  [checksum |-> g.v[1], length |-> g.v[2], timestamp |-> g.v[3],
         icon |-> aimbs_getraw(g.bs, g.v[2]).v]

incomingim_ch2_chat(sd) == aim_chat_readroominfo(sd).v

\* Mutant: the length of the answer is taken to have two bytes.
icqserverrelay_Answer16(sd) ==
    LET skip(bs, n) == LET len == aimbs_getle(bs, n) IN aim_bstream_advance(len.bs, len.v)
        answer      == skip(aimbs_getle(skip(skip(sd, 2), 2), 2).bs, 2)
        msglen      == aimbs_getle(answer, 2)
        msg         == aimbs_getraw(msglen.bs, msglen.v)
        colors      == GetsLe(msg.bs, <<4, 4>>)
    IN  [rtfmsg |-> msg.v, fgcolor |-> colors.v[1], bgcolor |-> colors.v[2]]

\* The lengths of what is skipped, and all numbers, are little-endian.
incomingim_ch2_icqserverrelay(sd) ==
    LET skip(bs, n) == LET len == aimbs_getle(bs, n) IN aim_bstream_advance(len.bs, len.v)
        answer      == skip(aimbs_getle(skip(skip(sd, 2), 2), 2).bs, 4)
        msglen      == aimbs_getle(answer, 2)
        msg         == aimbs_getraw(msglen.bs, msglen.v)
        colors      == GetsLe(msg.bs, <<4, 4>>)
    IN  [rtfmsg |-> msg.v, fgcolor |-> colors.v[1], bgcolor |-> colors.v[2]]

\* The service data, taken apart by what the proposal is for.  (A buddy list is
\* only logged.)
ServiceData(reqclass, value) ==
    LET sd == aim_bstream_init(value)
    IN  CASE "BUDDYICON" \in reqclass /\ value # NULL ->
               [class |-> reqclass, info |-> incomingim_ch2_buddyicon(sd)]
          [] "CHAT" \in reqclass /\ value # NULL ->
               [class |-> reqclass, info |-> incomingim_ch2_chat(sd)]
          [] "ICQSERVERRELAY" \in reqclass ->
               [class |-> {"ICQRTF"}, info |-> incomingim_ch2_icqserverrelay(sd)]
          [] OTHER ->
               [class |-> reqclass, info |-> NoCall]

incomingim_ch2(tlvlist) ==
    LET status == aimbs_get(aim_bstream_init(aim_gettlv(tlvlist, 5, 1)), 2)
        cookie == aimbs_getraw(status.bs, 8)
        cap    == aim_getcap(cookie.bs, 16)
        list2  == aim_readtlvchain(cap.bs)
        sd     == ServiceData(cap.v, aim_gettlv(list2, 10001, 1))
    IN  [status |-> status.v, cookie |-> cookie.v, reqclass |-> sd.class,
         clientip |-> aim_gettlv(list2, 2, 1), clientip2 |-> aim_gettlv(list2, 3, 1),
         verifiedip |-> aim_gettlv(list2, 4, 1), port |-> aim_gettlvnum(list2, 5, 2),
         errorcode |-> aim_gettlvnum(list2, 11, 2), msg |-> aim_gettlv(list2, 12, 1),
         encoding |-> aim_gettlv(list2, 13, 1), language |-> aim_gettlv(list2, 14, 1),
         info |-> sd.info]

\* Cookie, channel and sender; a message on channel 1 is then read in place.
incomingim ==
    LET channel == aimbs_get(aim_bstream_advance(frame, 8), 2)
        user    == aim_extractuserinfo(channel.bs)
    IN  /\ pc = "incoming"
        /\ \/ /\ channel.v = 1
              /\ pc' = "ch1"
              /\ frame' = user.bs
              /\ got' = [kind |-> "im", user |-> user.v]
           \/ /\ channel.v = 2
              /\ Callback([kind |-> "proposal", user |-> user.v,
                           args |-> incomingim_ch2(aim_readtlvchain(user.bs))])
        /\ UNCHANGED <<call, from, extra, args, cookies, quiet>>

-----------------------------------------------------------------------------
(* incomingim_ch1 *)

\* Mutant: the character set is counted as part of the text.
ReadSections_KeepsFour(data) ==
    LET n == Len(data)
        sections[o \in 0..n] ==
            IF o = n THEN <<>>
            ELSE LET head == Gets([data |-> data, offset |-> o], <<1, 1, 2, 2, 2>>)
                     text == aimbs_getraw(head.bs, head.v[3])
                 IN  mpmsg_addsection(<<>>, head.v[4], head.v[5], text.v)
                     \o (IF text.v = NULL THEN <<>> ELSE sections[text.bs.offset])
    IN  sections[0]

\* The sections of a message, read until the data ends.
ReadSections(data) ==
    LET n == Len(data)
        sections[o \in 0..n] ==
            IF o = n THEN <<>>
            ELSE LET head == Gets([data |-> data, offset |-> o], <<1, 1, 2, 2, 2>>)
                     text == aimbs_getraw(head.bs, head.v[3] - 4)
                 IN  mpmsg_addsection(<<>>, head.v[4], head.v[5], text.v)
                     \o sections[text.bs.offset]
    IN  sections[0]

charsetpri == <<0, 3, 2>>

\* Mutant: the charsets are tried in the order of their numbers.
Readable_ByNumber(mpmsg) ==
    LET of(charset) == {i \in 1..Len(mpmsg) : mpmsg[i].charset = charset}
        tried       == {k \in {0, 2, 3} : of(k) # {}}
    IN  IF tried = {} THEN 0 ELSE Min(of(Min(tried)))

\* The section shown to clients that know nothing of sections: the first of the
\* most readable charset there is; 0 when there is none.
Readable(mpmsg) ==
    LET of(charset) == {i \in 1..Len(mpmsg) : mpmsg[i].charset = charset}
        tried       == {k \in 1..Len(charsetpri) : of(charsetpri[k]) # {}}
    IN  IF tried = {} THEN 0 ELSE Min(of(charsetpri[Min(tried)]))

CharsetFlags(sec) ==
    (IF sec.charset = 2 THEN {"UNICODE"} ELSE {})
    \cup (IF sec.charset = 3 THEN {"ISO_8859_1"} ELSE {})
    \cup (IF sec.charsubset = 11 THEN {"SUBENC_MACINTOSH"} ELSE {})

incomingim_ch1_parsemsgs(a, data) ==
    LET mpmsg == a.mpmsg \o ReadSections(data)
        i     == Readable(mpmsg)
        all   == [a EXCEPT !.mpmsg = mpmsg, !.flags = @ \cup {"MULTIPART"}]
    IN  IF i = 0
        THEN [all EXCEPT !.charset = 65535, !.charsubset = 65535, !.msg = NULL]
        ELSE [all EXCEPT !.charset = mpmsg[i].charset, !.charsubset = mpmsg[i].charsubset,
                         !.msg = mpmsg[i].data,
                         !.flags = @ \cup {"CUSTOMCHARSET"} \cup CharsetFlags(mpmsg[i])]

\* What a TLV of the given type and length at bs does to the arguments.
ch1_Tlv(a, bs, type, length) ==
    CASE type = 2 ->
           LET featureslen == aimbs_get(aim_bstream_advance(aim_bstream_advance(bs, 1), 1), 2)
               features    == aimbs_getraw(featureslen.bs, featureslen.v)
           IN  incomingim_ch1_parsemsgs(
                   [a EXCEPT !.features = features.v, !.flags = @ \cup {"CUSTOMFEATURES"}],
                   Ahead(features.bs, length - 2 - 2 - featureslen.v))
      [] type \in {3, 4, 6, 9} ->
           [a EXCEPT !.flags = @ \cup {CASE type = 3 -> "ACK" [] type = 4 -> "AWAY"
                                         [] type = 6 -> "OFFLINE" [] type = 9 -> "BUDDYREQ"}]
      [] type = 8 ->
           LET g == Gets(bs, <<4, 2, 2, 4>>).v
           IN  [a EXCEPT !.iconlen = g[1], !.iconsum = g[3], !.iconstamp = g[4],
                         !.flags = IF g[1] = 0 THEN @ ELSE @ \cup {"HASICON"}]
      [] type = 23 ->
           [a EXCEPT !.extdata = aimbs_getraw(bs, length).v]
      [] OTHER -> a

\* Mutant: the type and the length are passed twice.
incomingim_ch1_Overshoots ==
    LET head == Gets(frame, <<2, 2>>)
    IN  /\ pc = "ch1"
        /\ aim_bstream_empty(frame) > 0
        /\ args' = ch1_Tlv(args, head.bs, head.v[1], head.v[2])
        /\ frame' = [head.bs EXCEPT !.offset = @ + 4 + head.v[2]]
        /\ UNCHANGED <<pc, call, from, extra, got, cookies, quiet>>

\* One turn of the loop over the TLVs.  Where the body left the stream does not
\* matter: it is set behind the value.
incomingim_ch1 ==
    LET head == Gets(frame, <<2, 2>>)
    IN  /\ pc = "ch1"
        /\ aim_bstream_empty(frame) > 0
        /\ args' = ch1_Tlv(args, head.bs, head.v[1], head.v[2])
        /\ frame' = aim_bstream_setpos(head.bs, head.bs.offset + head.v[2])
        /\ UNCHANGED <<pc, call, from, extra, got, cookies, quiet>>

WINAIM41 == "WINAIM41"

\* aim_fingerprintclient, from the features.
aim_fingerprintclient(features) ==
    CASE features = <<1, 1, 1>>    -> "MC"
      [] features = <<1, 1, 2>>    -> "WINAIM"
      [] features = <<1, 1, 1, 2>> -> WINAIM41
      [] features = <<1>>          -> "AOL_TOC"
      [] OTHER                     -> "UNKNOWN"

incomingim_ch1_end ==
    /\ pc = "ch1"
    /\ aim_bstream_empty(frame) = 0
    /\ Callback([kind |-> "im", user |-> got.user, args |-> args,
                 client |-> aim_fingerprintclient(args.features)])
    /\ args' = NoArgs
    /\ UNCHANGED <<call, from, extra, cookies, quiet>>

-----------------------------------------------------------------------------
(* The other handlers *)

\* outgoingim: the message as a server sees it, in a program that uses the library
\* to be one.  The character set is kept in single bytes.
outgoingim ==
    LET channel == aimbs_get(aim_bstream_advance(AfterSnac, 8), 2)
        sn      == GetCounted(channel.bs, 1)
        list    == aim_readtlvchain(sn.bs)
        mbs     == aim_bstream_init(aim_gettlv(list, 2, 1))
        feature == aimbs_get(aim_bstream_advance(mbs, 2), 2)
        head    == Gets(aim_bstream_advance(feature.bs, feature.v), <<1, 1, 2, 2, 2>>)
    IN  /\ pc = "sent"
        /\ call.kind = "im"
        /\ channel.v = 1
        /\ Callback([kind |-> "outgoing", sn |-> sn.v,
                     flags |-> (IF aim_gettlv(list, 3, 1) = NULL THEN {} ELSE {"ACK"})
                               \cup (IF aim_gettlv(list, 4, 1) = NULL THEN {} ELSE {"AWAY"}),
                     flag1 |-> head.v[4] % 256, flag2 |-> head.v[5] % 256,
                     msg |-> aimbs_getraw(head.bs, head.v[3] - 4).v])
        /\ UNCHANGED <<call, from, extra, args, cookies, quiet>>

\* Mutant: the cookie of a message that came back is looked for under another type.
uncachecookie_WrongType(ck) == UNCHANGED cookies

aim_uncachecookie(ck) == cookies' = cookies \ {ck}

\* incomingmsg: a chat message, in the sender's own session or in another.
incomingmsg ==
    LET cookie  == aimbs_getraw(frame, 8)
        otl     == aim_readtlvchain(aim_bstream_advance(cookie.bs, 2))
        user    == aim_extractuserinfo(aim_bstream_init(aim_gettlv(otl, 3, 1)))
        block   == aim_gettlv(otl, 5, 1)
    IN  /\ pc \in {"chatback", "chatmsg"}
        /\ IF pc = "chatback" THEN aim_uncachecookie(cookie.v) ELSE UNCHANGED cookies
        /\ quiet' = quiet \cap cookies'
        /\ Callback([kind |-> "chatmsg", user |-> user.v,
                     msg |-> IF block = NULL THEN NULL
                             ELSE aim_gettlv(aim_readtlvchain(aim_bstream_init(block)), 1, 1)])
        /\ UNCHANGED <<call, from, extra, args>>

\* buddychange: a buddy arrives.
buddychange ==
    /\ pc = "sent"
    /\ call.kind = "oncoming"
    /\ Callback([kind |-> "oncoming", user |-> aim_extractuserinfo(AfterSnac).v])
    /\ UNCHANGED <<call, from, extra, args, cookies, quiet>>

\* The callback returns.
Return ==
    /\ pc = "done"
    /\ pc' = "idle"
    /\ call' = NoCall
    /\ from' = NULL
    /\ extra' = <<>>
    /\ got' = NoCall
    /\ UNCHANGED <<frame, args, cookies, quiet>>

-----------------------------------------------------------------------------
Next ==
    \/ \E c \in Calls, ck \in Cookies : Send(c, ck)
    \/ \E u \in Senders, noise \in Noise, more \in Extras : Relay(u, noise, more)
    \/ \E u \in Senders, noise \in Noise : RelayChat(u, noise)
    \/ incomingim
    \/ incomingim_ch1
    \/ incomingim_ch1_end
    \/ outgoingim
    \/ incomingmsg
    \/ buddychange
    \/ Return

Spec == Init /\ [][Next]_vars
-----------------------------------------------------------------------------
(* Properties *)

\* Every variable has its type.
TypeOK ==
    /\ pc \in {"idle", "sent", "incoming", "ch1", "chatback", "chatmsg", "done"}
    /\ call \in Calls \cup {NoCall}
    /\ frame.offset \in 0..Len(frame.data)
    /\ cookies \subseteq Cookies
    /\ quiet \subseteq Cookies
    /\ args.iconlen \in Nat /\ DOMAIN args = DOMAIN NoArgs

Arrived(kind) == pc = "done" /\ got.kind = kind

\* Whatever the server puts into the block before a message, TLVs that are longer
\* than what is read of them and types nobody knows included, the callback is told
\* who sent it, with every field the server gave and no other.
SenderKnown ==
    \A kind \in {"im", "proposal", "chatmsg"} : Arrived(kind) => got.user = from

\* An instant message arrives as it was sent: its sections all there, in the order
\* they were given and with their character sets, the features, the flags that
\* were asked for and no others, and the icon's numbers, wherever other TLVs stand.
ImDelivered ==
    Arrived("im") =>
        LET hasicon == "HASICON" \in call.flags /\ call.iconlen # 0
            numbers == IF "HASICON" \in call.flags
                       THEN <<call.iconlen, call.iconsum, call.iconstamp>> ELSE <<0, 0, 0>>
        IN  /\ got.args.mpmsg = Sections(call)
            /\ got.args.features = Features(call)
            /\ <<got.args.iconlen, got.args.iconsum, got.args.iconstamp>> = numbers
            /\ got.args.extdata = aim_gettlv(extra, 23, 1)
            /\ got.args.flags \cap {"ACK", "AWAY", "OFFLINE", "BUDDYREQ", "HASICON"}
                 = (call.flags \cap {"ACK", "AWAY", "OFFLINE", "BUDDYREQ"})
                   \cup (IF hasicon THEN {"HASICON"} ELSE {})
            /\ "CUSTOMFEATURES" \notin call.flags => got.client = WINAIM41

\* A client that knows nothing of sections is shown an ASCII section if there is
\* one, else ISO-8859-1, else UNICODE, the earliest of those, and the flags and the
\* charset it is given are those of that section; else it is shown nothing.
MostReadable ==
    LET rank(sec) == CASE sec.charset = 0 -> 1 [] sec.charset = 3 -> 2
                       [] sec.charset = 2 -> 3 [] OTHER -> 4
        secs == Sections(call)
        a    == got.args
    IN  Arrived("im") =>
        IF \A i \in 1..Len(secs) : rank(secs[i]) = 4
        THEN a.msg = NULL /\ a.charset = 65535 /\ "CUSTOMCHARSET" \notin a.flags
        ELSE \E i \in 1..Len(secs) :
                /\ a.msg = secs[i].data
                /\ a.charset = secs[i].charset /\ a.charsubset = secs[i].charsubset
                /\ "CUSTOMCHARSET" \in a.flags
                /\ "UNICODE" \in a.flags <=> secs[i].charset = 2
                /\ "ISO_8859_1" \in a.flags <=> secs[i].charset = 3
                /\ \A j \in 1..Len(secs) : rank(secs[j]) >= rank(secs[i])
                /\ \A j \in 1..(i - 1) : rank(secs[j]) > rank(secs[i])

\* A proposal arrives as what it is, with all that was put into the TLVs and the
\* service data by hand: the icon whose checksum aim_iconsum gives, the message and
\* its colours, the room, or where to connect.
ProposalDelivered ==
    LET a == got.args
        class == CASE call.kind = "icon" -> "BUDDYICON" [] call.kind = "rtf" -> "ICQRTF"
                   [] call.kind = "invite" -> "CHAT" [] call.kind = "directim" -> "IMIMAGE"
                   [] call.kind = "sendfile" -> "SENDFILE"
    IN  Arrived("proposal") =>
            /\ a.status = 0
            /\ a.cookie \in Cookies
            /\ a.reqclass = {class}
            /\ a.verifiedip = <<10, 0, 0, 1>>
            /\ call.kind = "icon" =>
                  /\ a.info.icon = call.icon
                  /\ a.info.checksum = aim_iconsum(a.info.icon)
                  /\ a.info.timestamp = call.stamp
            /\ call.kind = "rtf" =>
                  a.info = [rtfmsg  |-> call.rtfmsg \o <<0>>,
                            fgcolor |-> call.fgcolor, bgcolor |-> call.bgcolor]
            /\ call.kind = "invite" => a.info = call.room /\ a.msg = call.msg
            /\ call.kind \in {"directim", "sendfile"} =>
                  a.clientip2 = call.ip /\ a.port = call.port

\* A program that plays the server reads the same message out of the frame: its
\* destination, its first section and the two flags it looks for.
ServerReads ==
    Arrived("outgoing") =>
        /\ got.sn = call.sn
        /\ got.flags = call.flags \cap {"ACK", "AWAY"}
        /\ got.msg = Sections(call)[1].data
        /\ got.flag1 = Sections(call)[1].charset % 256

\* A chat message arrives whole, in every session in the room, up to the longest
\* the frame has room for.
ChatDelivered == Arrived("chatmsg") => got.msg = call.msg

\* Every message arrives as it was sent, at whoever reads it: an instant message at
\* a client that knows sections, at one that does not and at a program that plays
\* the server, a proposal, and a chat message.  About all the lengths computed by
\* hand in the functions that send, and the loops that read in place.
Delivered ==
    /\ ImDelivered
    /\ MostReadable
    /\ ServerReads
    /\ ProposalDelivered
    /\ ChatDelivered

\* Between messages the cache holds no cookie of a chat message that came back to
\* its sender: what is left are those of messages sent with NOREFLECT.
CookiesForgotten == pc = "idle" => cookies \subseteq quiet

\* The fields aim_putuserinfo writes so that aim_extractuserinfo finds them again.
Carried(user) ==
    {"flags", "onlinesince", "idletime", "caps", "sessionlen"}
    \cup (IF IsIcq(user.sn) THEN {"ipaddr"} ELSE {})

\* What a buddy's arrival tells of its user: the name, the warning level and each field
\* that is carried, as it was given and only if it was given, whatever other fields
\* stand beside it; the date of membership as the date of creation; of an ICQ status
\* only that there is one, for what is read as its value runs into the next TLV; and at
\* most 16 capabilities.  No other date of creation, status or address is told.  So
\* aim_putuserinfo is not what the comment before it says, the "inverse of
\* aim_extractuserinfo()" (info.c), and no field that is lost takes another with it.
UserinfoTold ==
    Arrived("oncoming") =>
        LET user == call.user
            had  == DOMAIN user.info
            told == got.user.info
        IN  /\ got.user.sn = user.sn /\ got.user.warnlevel = user.warnlevel
            /\ DOMAIN told = (had \cap Carried(user))
                             \cup (IF "membersince" \in had THEN {"createtime"} ELSE {})
                             \cup (IF IsIcq(user.sn) THEN had \cap {"icqstatus"} ELSE {})
            /\ \A f \in (had \cap Carried(user)) \ {"caps"} : told[f] = user.info[f]
            /\ "membersince" \in had => told["createtime"] = user.info["membersince"]
            /\ "caps" \in had =>
                  /\ told["caps"] \subseteq user.info["caps"]
                  /\ \/ told["caps"] = user.info["caps"]
                     \/ Cardinality(told["caps"]) = 16
=============================================================================
