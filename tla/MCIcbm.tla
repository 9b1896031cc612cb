------------------------------- MODULE MCIcbm -------------------------------
EXTENDS Icbm

sn == <<97, 108>>

\* One message for each way to give its text, with flags that make the frame as
\* long as it gets, and a name near the longest that fits beside them.
MCMessages ==
    {aim_send_im(sn, {}, <<72, 105>>),
     aim_send_im(sn, {"AWAY", "ISO_8859_1", "HASICON"}, <<233>>),
     [sendimext_args([i \in 1..71 |-> 98],
          {"ACK", "AWAY", "OFFLINE", "HASICON", "BUDDYREQ", "CUSTOMFEATURES", "UNICODE"},
          <<0, 72>>)
        EXCEPT !.features = <<1>>, !.iconlen = 300, !.iconsum = 65535, !.iconstamp = 7],
     [sendimext_args(sn, {"HASICON", "CUSTOMCHARSET", "OFFLINE"}, <<72>>)
        EXCEPT !.charset = 0, !.charsubset = 11],
     [sendimext_args(sn, {"MULTIPART", "ACK"}, <<>>)
        EXCEPT !.mpmsg = aim_mpmsg_addascii(aim_mpmsg_addraw(
                             aim_mpmsg_addunicode(aim_mpmsg_init, <<8364, 72>>),
                             3, 0, <<233>>), <<72>>)],
     [sendimext_args(sn, {"MULTIPART", "BUDDYREQ"}, <<>>)
        EXCEPT !.mpmsg = aim_mpmsg_addraw(aim_mpmsg_addraw(
                             aim_mpmsg_addunicode(aim_mpmsg_init, <<8364>>),
                             3, 0, <<233>>), 3, 11, <<200, 201>>)],
     [sendimext_args(sn, {"MULTIPART"}, <<>>)
        EXCEPT !.mpmsg = aim_mpmsg_addraw(aim_mpmsg_init, 65535, 65535, <<1, 2, 3>>)]}

MCIcon == <<255, 255, 255, 255, 3>>

MCProposals ==
    {[kind |-> "icon", sn |-> sn, icon |-> MCIcon, stamp |-> 9, iconsum |-> aim_iconsum(MCIcon)],
     [kind |-> "rtf", sn |-> sn, rtfmsg |-> <<82, 84, 70>>, fgcolor |-> 255, bgcolor |-> 65536],
     [kind |-> "directim", sn |-> sn, ip |-> <<192, 168, 0, 2>>, port |-> 5190],
     [kind |-> "sendfile", sn |-> sn, ip |-> <<192, 168, 0, 2>>, port |-> 5190,
      filename |-> <<102, 46, 99>>, numfiles |-> 1, totsize |-> 70000],
     [kind |-> "invite", sn |-> sn, msg |-> <<104, 105>>,
      room |-> [exchange |-> 4, name |-> <<114, 109>>, instance |-> 1]]}

\* The longest chat message is the one that fills the frame with TLV 7.
MCChat ==
    {[kind |-> "chatmsg", flags |-> {}, msg |-> <<104>>],
     [kind |-> "chatmsg", flags |-> {"NOREFLECT"}, msg |-> <<104, 105>>],
     [kind |-> "chatmsg", flags |-> {"AWAY"}, msg |-> [i \in 1..1112 |-> 120]]}

MCSenders ==
    {[sn |-> <<98>>, warnlevel |-> 0, info |-> ("flags" :> 16) @@ ("icqstatus" :> 32)],
     [sn |-> <<49, 50>>, warnlevel |-> 999,
      info |-> ("createtime" :> 5) @@ ("idletime" :> 3) @@ ("caps" :> {"CHAT", "APINFO"})]}

\* The fields of a user; those that hold a number differ in theirs.
MCFields ==
    ("flags" :> 4) @@ ("createtime" :> 5) @@ ("onlinesince" :> 70000) @@ ("idletime" :> 2)
    @@ ("membersince" :> 65536) @@ ("icqstatus" :> 32) @@ ("ipaddr" :> 16909060)
    @@ ("caps" :> (ToSet(aim_caps) \ {"ICQ"})) @@ ("sessionlen" :> 100)

\* Arrivals with any two of the fields, any but one or two, or all, of an ICQ user and
\* of another, and with every capability at once.
MCArrivals ==
    LET Some == {S \in SUBSET DOMAIN MCFields : Cardinality(S) \notin 3..6}
        Info == {Restrict(MCFields, S) : S \in Some}
                \cup {("caps" :> ToSet(aim_caps)) @@ Restrict(MCFields, S) :
                         S \in {T \in Some : "caps" \in T}}
    IN  {[kind |-> "oncoming", user |-> [sn |-> name, warnlevel |-> 1, info |-> i]] :
            name \in {<<49, 50>>, <<98>>}, i \in Info}

MCCalls == MCMessages \cup MCProposals \cup MCChat \cup MCArrivals

MCCookies == {[i \in 1..8 |-> k] : k \in {1, 255}}
MCNoise == {<<>>, <<Tlv(14, <<>>), Tlv(30, <<1, 2, 3, 4>>), Tlv(153, <<9, 9, 9>>)>>}
MCExtras ==
    {<<>>, <<Tlv(23, <<7, 7>>), Tlv(11, <<0, 2, 0, 0, 5>>)>>, <<Tlv(8, Zeros(12))>>}
=============================================================================
