--------------------------- MODULE RequestFrames ---------------------------
(***************************************************************************)
(* The requests of the families beside ICBM: what each function that sends *)
(* one stores in the SNAC cache and puts into its frame.  As in IcbmFrames *)
(* a frame has the room computed beforehand, and a put that does not fit   *)
(* is dropped.                                                             *)
(***************************************************************************)
EXTENDS IcbmFrames

CONSTANT MaxNames  \* the names aim_bos_changevisibility puts into one frame (99)

ASSUME FramesAssumption == MaxNames \in Nat \ {0}

\* No data, or no request.
Absent == [absent |-> TRUE]

\* A request: its SNAC, the room of its frame, what is kept in the cache, and what is
\* put into the frame, TLVs last.
Request(family, type, room, data, pieces, chain) ==
    [family |-> family, type |-> type, room |-> room, pieces |-> pieces, chain |-> chain,
     kept |-> [family |-> family, type |-> type, data |-> data], cached |-> TRUE, named |-> TRUE]

\* What a request has to be: its frame has room for the header, and bytes are put into it.
IsRequest(r) ==
    /\ r.family \in Nat /\ r.type \in Nat
    /\ r.room \in Nat /\ r.room >= 10
    /\ r.pieces \in Seq(Seq(Byte))
    /\ r.chain \in Seq([type : Nat, value : Seq(Byte)])
    /\ DOMAIN r.kept = {"family", "type", "data"}

\* Its frame; the header carries the id the cache gave, if the function passes it on.
FrameOf(r, snacid) ==
    aim_writetlvchain(
        Puts(Writer(r.room),
             <<aim_putsnac(r.family, r.type, IF r.named THEN snacid ELSE 0)>> \o r.pieces),
        r.chain).data

aim_genericreq_n(family, type) ==
    [Request(family, type, 10, Absent, <<>>, <<>>) EXCEPT !.cached = FALSE, !.named = FALSE]

aim_genericreq_n_snacid(family, type) == Request(family, type, 10, Absent, <<>>, <<>>)

aim_genericreq_l(family, type, longdata) ==
    Request(family, type, 10 + 4, Absent, <<aimutil_put32(longdata)>>, <<>>)

aim_genericreq_s(family, type, shortdata) ==
    Request(family, type, 10 + 2, Absent, <<aimutil_put16(shortdata)>>, <<>>)

aim_bos_reqlocaterights   == aim_genericreq_n(2, 2)
aim_bos_reqbuddyrights    == aim_genericreq_n(3, 2)
aim_bos_reqrights         == aim_genericreq_n(9, 2)
aim_reqicbmparams         == aim_genericreq_n(4, 4)
aim_admin_reqconfirm      == aim_genericreq_n(7, 6)
aim_ssi_reqrights         == aim_genericreq_n(19, 2)
aim_ssi_enable            == aim_genericreq_n(19, 7)
aim_ssi_modbegin          == aim_genericreq_n(19, 17)
aim_ssi_modend            == aim_genericreq_n(19, 18)
aim_reqpersonalinfo       == aim_genericreq_n(1, 14)
aim_chatnav_reqrights     == aim_genericreq_n_snacid(13, 2)
aim_bos_setidle(idletime) == aim_genericreq_l(1, 17, idletime)
aim_bos_setprivacyflags(flags) == aim_genericreq_l(1, 20, flags)
aim_bos_setgroupperm(mask) == aim_genericreq_l(9, 4, mask)

\* With the id of a service.
aim_reqservice(serviceid) == aim_genericreq_s(1, 4, serviceid)

-----------------------------------------------------------------------------
(* Lists of names: "One&Two&" *)

Amp == 38

\* The places of the separators, and the end.
Ends(s) == SelectSeq([i \in 1..(Len(s) + 1) |-> i], LAMBDA i : i = Len(s) + 1 \/ s[i] = Amp)

aimutil_itemcnt(s) == Len(Ends(s))

\* The characters of the first items, without separators.
aimutil_tokslen(s, index) ==
    IF aimutil_itemcnt(s) > index THEN Ends(s)[index] - 1 - (index - 1)
    ELSE Len(s) - (aimutil_itemcnt(s) - 1)

\* The item at an index from 0.
aimutil_itemidx(s, index) ==
    LET ends == Ends(s)
    IN  IF index >= Len(ends) THEN <<>>
        ELSE SubSeq(s, IF index = 0 THEN 1 ELSE ends[index] + 1, ends[index + 1] - 1)

\* What strtok finds: the items that are not empty.
Tokens(s) ==
    SelectSeq([i \in 1..aimutil_itemcnt(s) |-> aimutil_itemidx(s, i - 1)], LAMBDA t : t # <<>>)

CountedAll(names) == FlattenSeq([i \in 1..Len(names) |-> Counted(names[i])])

aim_bos_setbuddylist(list) ==
    LET len == FoldLeft(LAMBDA n, t : n + 1 + Len(t), 0, Tokens(list))
    IN  Request(3, 4, 10 + len, Absent, CountedAll(Tokens(list)), <<>>)

\* Mutant: the lengths before the names are not counted.
changevisibility_NoCounts(subtype, list) ==
    LET listcount == aimutil_itemcnt(list)
        n         == IF listcount - 1 < MaxNames THEN listcount - 1 ELSE MaxNames
    IN  Request(9, subtype, aimutil_tokslen(list, MaxNames) + 10, Absent,
                CountedAll([i \in 1..n |-> aimutil_itemidx(list, i - 1)]), <<>>)

aim_bos_changevisibility(subtype, list) ==
    LET listcount == aimutil_itemcnt(list)
        n         == IF listcount - 1 < MaxNames THEN listcount - 1 ELSE MaxNames
    IN  Request(9, subtype, aimutil_tokslen(list, MaxNames) + listcount + 9, Absent,
                CountedAll([i \in 1..n |-> aimutil_itemidx(list, i - 1)]), <<>>)

-----------------------------------------------------------------------------
(* Buddy list, locate, search, warnings *)

aim_add_buddy(sn) == Request(3, 4, 10 + 1 + Len(sn), [sn |-> sn], Counted(sn), <<>>)

aim_remove_buddy(sn) == Request(3, 5, 10 + 1 + Len(sn), [sn |-> sn], Counted(sn), <<>>)

aim_sendbuddyoffgoing(sn) == Request(3, 12, 10 + 1 + Len(sn), Absent, Counted(sn), <<>>)

aim_0002_000b(sn) == Request(2, 11, 10 + 1 + Len(sn), Absent, Counted(sn), <<>>)

aim_getinfo(sn, infotype) ==
    Request(2, 5, 12 + 1 + Len(sn), [sn |-> sn, infotype |-> infotype],
            <<aimutil_put16(infotype)>> \o Counted(sn), <<>>)

aim_usersearch_address(address) ==
    Request(10, 2, 10 + Len(address), [address |-> address], <<address>>, <<>>)

aim_send_warning(sn, anon) ==
    Request(4, 8, Len(sn) + 13, [sn |-> sn],
            <<IF anon THEN <<0, 1>> ELSE <<0, 0>>>> \o Counted(sn), <<>>)

\* A TLV for an argument that was given.
Given(t, v) == IF v = NULL THEN <<>> ELSE <<Tlv(t, v)>>

defencoding == [i \in 1..31 |-> 116]

\* With an away message that is empty, TLV 4 says that one is back.
aim_bos_setprofile(profile, awaymsg, caps) ==
    LET tl == aim_addtlvtochain_caps(
                  (IF profile = NULL THEN <<>> ELSE <<Tlv(1, defencoding), Tlv(2, profile)>>)
                  \o (IF awaymsg \in {NULL, <<>>} THEN Given(4, awaymsg)
                      ELSE <<Tlv(3, defencoding), Tlv(4, awaymsg)>>), 5, caps)
    IN  Request(2, 4, 10 + aim_sizetlvchain(tl), Absent, <<>>, tl)

DirectoryTlvs == <<<<1, "first">>, <<2, "last">>, <<3, "middle">>, <<4, "maiden">>,
                   <<7, "state">>, <<8, "city">>, <<12, "nickname">>, <<13, "zip">>,
                   <<33, "street">>>>

aim_setdirectoryinfo(info, privacy) ==
    LET tl == <<Tlv(10, aimutil_put16(privacy))>>
              \o FlattenSeq([i \in 1..9 |-> Given(DirectoryTlvs[i][1],
                     IF DirectoryTlvs[i][2] \in DOMAIN info THEN info[DirectoryTlvs[i][2]]
                     ELSE NULL)])
    IN  Request(2, 9, 10 + aim_sizetlvchain(tl), Absent, <<>>, tl)

\* Its id is cached and not sent.
aim_setuserinterests(interests, privacy) ==
    LET tl == <<Tlv(10, aimutil_put16(privacy))>>
              \o FlattenSeq([i \in 1..Len(interests) |-> Given(11, interests[i])])
    IN  [Request(2, 15, 10 + aim_sizetlvchain(tl), Absent, <<>>, tl) EXCEPT !.named = FALSE]

-----------------------------------------------------------------------------
(* Account administration, stored information, chat, ICBM and status *)

aim_admin_changepasswd(newpw, curpw) ==
    Request(7, 4, 10 + 4 + Len(curpw) + 4 + Len(newpw), Absent, <<>>,
            <<Tlv(2, newpw), Tlv(18, curpw)>>)

\* The cache entry names family 2, the frame family 7.
aim_admin_getinfo(info) ==
    [Request(7, 2, 14, Absent, <<aimutil_put16(info), <<0, 0>>>>, <<>>) EXCEPT !.kept.family = 2]

aim_admin_setemail(v) == Request(7, 4, 10 + 2 + 2 + Len(v), Absent, <<>>, <<Tlv(17, v)>>)

aim_admin_setnick(v) == Request(7, 4, 10 + 2 + 2 + Len(v), Absent, <<>>, <<Tlv(1, v)>>)

aim_ssi_reqdata(localstamp, localrev) ==
    Request(19, 5, 10 + 4 + 2, Absent, <<aimutil_put32(localstamp), aimutil_put16(localrev)>>, <<>>)

create == <<99, 114, 101, 97, 116, 101>>
charset == [i \in 1..8 |-> 117]
lang == <<101, 110>>

aim_chatnav_createroom(name, exchange) ==
    LET tl == <<Tlv(211, name), Tlv(214, charset), Tlv(215, lang)>>
    IN  Request(13, 8, 1152, Absent,
                <<aimutil_put16(exchange)>> \o Counted(create)
                \o <<<<255, 255>>, <<1>>, aimutil_put16(aim_counttlvchain(tl))>>, tl)

aim_chat_join(room) ==
    Request(1, 4, 512, [room |-> room], <<<<0, 14>>>>, aim_addtlvtochain_chatroom(<<>>, 1, room))

aim_denytransfer(sender, cookie, code) ==
    Request(4, 11, 10 + 8 + 2 + 1 + Len(sender) + 6, Absent,
            <<cookie, <<0, 2>>>> \o Counted(sender), <<Tlv(3, aimutil_put16(code))>>)

aim_seticbmparam(p) ==
    Request(4, 2, 10 + 16, Absent,
            <<<<0, 0>>, aimutil_put32(p.flags), aimutil_put16(p.maxmsglen),
              aimutil_put16(p.maxsenderwarn), aimutil_put16(p.maxrecverwarn),
              aimutil_put32(p.minmsginterval)>>, <<>>)

\* 0x00030000 | status, for a status of 16 bits.
aim_setextstatus(status) ==
    Request(1, 30, 10 + 8, Absent, <<>>, <<Tlv(6, aimutil_put32(196608 + status))>>)

-----------------------------------------------------------------------------
(* ICQ: a little-endian packet in TLV 1 *)

\* The number a string of digits stands for.
atoi(s) ==
    LET value[i \in 0..Len(s)] == IF i = 0 THEN 0 ELSE 10 * value[i - 1] + s[i] - 48
    IN  value[Len(s)]

IcqRequest(sn, snacid, bslen, command, more) ==
    Request(21, 2, 10 + 4 + bslen, Absent,
            ByHand(1, bslen, <<le16(bslen - 2), le32(atoi(sn)), le16(command), le16(snacid)>>
                             \o more), <<>>)

aim_icq_reqofflinemsgs(sn, snacid) == IcqRequest(sn, snacid, 2 + 4 + 2 + 2, 60, <<>>)

aim_icq_ackofflinemsgs(sn, snacid) == IcqRequest(sn, snacid, 2 + 4 + 2 + 2, 62, <<>>)

aim_icq_sendxmlreq(sn, snacid, xml) ==
    IcqRequest(sn, snacid, 2 + 10 + 2 + Len(xml) + 1, 2000,
               <<le16(2456), le16(Len(xml) + 1), xml \o <<0>>>>)

aim_icq_getsimpleinfo(sn, snacid, uin) ==
    IcqRequest(sn, snacid, 2 + 4 + 2 + 2 + 2 + 4, 2000, <<le16(1311), le32(atoi(uin))>>)
=============================================================================
