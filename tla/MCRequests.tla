----------------------------- MODULE MCRequests -----------------------------
EXTENDS Requests

al == <<97, 108>>
bo == <<98, 111, 98>>
uin == <<52, 55>>
room == [exchange |-> 4, name |-> <<114, 109>>, instance |-> 1]
Many(n) == FlattenSeq([i \in 1..n |-> <<97, Amp>>])

\* A call that does not look at its id, and what it is to mean.
Plain(r, fields, end) ==
    [req |-> [id \in 0..MaxRequests |-> r], means |-> [fields |-> fields, end |-> end]]

Icq(f, command, more) ==
    [req |-> f, means |-> [fields |-> <<>>, end |-> <<47, command, more>>]]

\* The calls whose answers or errors are told apart by the request: these are made in
\* any combination.
MCLookedUp ==
    <<Plain(aim_usersearch_address(al), <<>>, al),
     Plain(aim_usersearch_address(bo), <<>>, bo),
     Plain(aim_getinfo(al, 1), <<1, al>>, <<>>),
     Plain(aim_getinfo(bo, 3), <<3, bo>>, <<>>),
     Plain(aim_chatnav_reqrights, <<>>, <<>>),
     Plain(aim_chatnav_createroom(<<114>>, 4), <<4, create, 65535, 1, 3>>,
           <<Tlv(211, <<114>>), Tlv(214, charset), Tlv(215, lang)>>),
     Plain(aim_send_warning(bo, TRUE), <<1, bo>>, <<>>)>>

\* The others; lists of names up to and above what a frame may hold.
MCOthers ==
    <<Plain(aim_chat_join(room), <<14>>, <<Tlv(1, <<0, 4, 2, 114, 109, 0, 1>>)>>),
     Plain(aim_add_buddy(bo), <<>>, <<bo>>),
     Plain(aim_getinfo(al, 4), <<4, al>>, <<>>),
     Plain(aim_remove_buddy(al), <<>>, <<al>>),
     Plain(aim_sendbuddyoffgoing(al), <<>>, <<al>>),
     Plain(aim_0002_000b(al), <<>>, <<al>>),
     Plain(aim_bos_setbuddylist(al \o <<Amp>> \o bo \o <<Amp>>), <<>>, <<al, bo>>),
     Plain(aim_bos_setbuddylist(<<Amp>> \o al \o <<Amp, Amp>> \o bo), <<>>, <<al, bo>>),
     Plain(aim_bos_changevisibility(5, al \o <<Amp>> \o bo \o <<Amp>>), <<>>, <<al, bo>>),
     Plain(aim_bos_changevisibility(6, <<>>), <<>>, <<>>),
     Plain(aim_bos_changevisibility(7, Many(MaxNames)), <<>>, [i \in 1..MaxNames |-> <<97>>]),
     Plain(aim_bos_changevisibility(8, Many(MaxNames + 2)), <<>>, [i \in 1..MaxNames |-> <<97>>]),
     Plain(aim_bos_setprofile(al, bo, {"CHAT"}), <<>>,
           <<Tlv(1, defencoding), Tlv(2, al), Tlv(3, defencoding), Tlv(4, bo),
             Tlv(5, aim_putcap(Writer(16), {"CHAT"}).data)>>),
     Plain(aim_bos_setprofile(NULL, <<>>, {"CHAT"}), <<>>,
           <<Tlv(4, <<>>), Tlv(5, aim_putcap(Writer(16), {"CHAT"}).data)>>),
     Plain(aim_setdirectoryinfo(("first" :> al) @@ ("street" :> bo), 1), <<>>,
           <<Tlv(10, <<0, 1>>), Tlv(1, al), Tlv(33, bo)>>),
     Plain(aim_setuserinterests(<<al, NULL, bo>>, 0), <<>>,
           <<Tlv(10, <<0, 0>>), Tlv(11, al), Tlv(11, bo)>>),
     Plain(aim_admin_changepasswd(al, bo), <<>>, <<Tlv(2, al), Tlv(18, bo)>>),
     Plain(aim_admin_getinfo(17), <<17, 0>>, <<>>),
     Plain(aim_admin_setemail(bo), <<>>, <<Tlv(17, bo)>>),
     Plain(aim_admin_setnick(al), <<>>, <<Tlv(1, al)>>),
     Plain(aim_ssi_reqdata(70000, 3), <<70000, 3>>, <<>>),
     Plain(aim_denytransfer(al, [i \in 1..8 |-> 1], 2), <<16843009, 16843009, 2, al>>,
           <<Tlv(3, <<0, 2>>)>>),
     Plain(aim_seticbmparam([flags |-> 11, maxmsglen |-> 8000, maxsenderwarn |-> 999,
                             maxrecverwarn |-> 998, minmsginterval |-> 70000]),
           <<0, 11, 8000, 999, 998, 70000>>, <<>>),
     Plain(aim_setextstatus(32), <<>>, <<Tlv(6, <<0, 3, 0, 32>>)>>),
     Plain(aim_bos_setidle(600), <<600>>, <<>>),
     Plain(aim_bos_setprivacyflags(3), <<3>>, <<>>),
     Plain(aim_bos_setgroupperm(31), <<31>>, <<>>),
     Plain(aim_reqservice(13), <<13>>, <<>>),
     Icq([id \in 0..MaxRequests |-> aim_icq_reqofflinemsgs(uin, id)], 60, <<>>),
     Icq([id \in 0..MaxRequests |-> aim_icq_ackofflinemsgs(uin, id)], 62, <<>>),
     Icq([id \in 0..MaxRequests |-> aim_icq_sendxmlreq(uin, id, al)], 2000,
         <<152, 9, 3, 0, 97, 108, 0>>),
     Icq([id \in 0..MaxRequests |-> aim_icq_getsimpleinfo(uin, id, uin)], 2000,
         <<31, 5, 47, 0, 0, 0>>)>>
    \o LET plain == <<aim_bos_reqlocaterights, aim_bos_reqbuddyrights, aim_bos_reqrights,
                      aim_reqicbmparams, aim_ssi_reqrights, aim_ssi_enable, aim_ssi_modbegin,
                      aim_ssi_modend, aim_reqpersonalinfo, aim_admin_reqconfirm>>
       IN  [i \in DOMAIN plain |-> Plain(plain[i], <<>>, <<>>)]

MCCalls == MCLookedUp \o MCOthers
MCCombined == DOMAIN MCLookedUp

MCUsers ==
    {[user |-> [sn |-> al, warnlevel |-> 10, info |-> ("flags" :> 16) @@ ("onlinesince" :> 70000)],
      profile |-> <<112>>, away |-> <<119>>, caps |-> {"CHAT", "SENDFILE"}],
     [user |-> [sn |-> bo, warnlevel |-> 0, info |-> ("idletime" :> 3)],
      profile |-> <<>>, away |-> <<119, 98>>, caps |-> {}]}

-----------------------------------------------------------------------------
Block(u) == ServerBlock(u, <<Tlv(14, <<9>>)>>)
UserA == [sn |-> al, warnlevel |-> 1, info |-> ("flags" :> 16) @@ ("sessionlen" :> 9)]
UserB == [sn |-> bo, warnlevel |-> 0, info |-> ("idletime" :> 3)]
Nums(n) == [nums |-> n]
Fields(f) == [fields |-> f]

To(request, snac, body, told) == [to |-> request, snac |-> snac, body |-> body, told |-> told]

Exchange(n, name) ==
    Tlv(3, aimutil_put16(n) \o TlvsBytes(<<Tlv(201, <<0, n>>), Tlv(211, name), Tlv(214, charset)>>))
MeantExchange(n, name) ==
    [number |-> n, flags |-> n,
     strings |-> [t \in {211} \cup 214..217 |-> CASE t = 211 -> name [] t = 214 -> charset
                                                  [] OTHER -> NULL]]

Rights == TlvsBytes(<<Tlv(1, <<1, 0>>), Tlv(2, <<0, 99>>), Tlv(3, <<0, 10>>)>>)
Le(s) == le16(Len(s)) \o s
IcqBody(packet) == TlvsBytes(<<Tlv(1, le16(Len(packet)) \o packet)>>)

MCAnswers ==
    <<To(<<10, 2>>, <<10, 3>>, TlvsBytes(<<Tlv(1, al), Tlv(1, bo), Tlv(1, uin)>>),
        <<[list |-> <<al, bo, uin>>]>>),
     To(<<10, 2>>, <<10, 3>>, <<>>, <<[list |-> <<>>]>>),
     To(<<13, 2>>, <<13, 9>>, TlvsBytes(<<Tlv(2, <<5>>), Exchange(4, al), Exchange(5, bo)>>),
        <<[type |-> 2, maxrooms |-> 5, list |-> <<MeantExchange(4, al), MeantExchange(5, bo)>>]>>),
     To(<<13, 8>>, <<13, 9>>,
        TlvsBytes(<<Tlv(4, <<0, 4, 2, 114, 109, 0, 1, 2, 0, 2>>
            \o TlvsBytes(<<Tlv(106, bo), Tlv(201, <<0, 4>>), Tlv(202, <<0, 1, 0, 0>>),
                           Tlv(209, <<4, 0>>), Tlv(211, al), Tlv(213, <<2>>)>>))>>),
        <<[type |-> 8, fields |-> <<4, room.name, 1, 2, 2>>, fqcn |-> bo,
           name |-> al, nums |-> <<4, 65536, 1024, 0, 2>>]>>),
     To(<<2, 2>>, <<2, 3>>, Rights, <<Nums(<<256>>)>>),
     To(<<3, 2>>, <<3, 3>>, Rights, <<Nums(<<256, 99>>)>>),
     To(<<9, 2>>, <<9, 3>>, Rights, <<Nums(<<256, 99>>)>>),
     To(<<4, 4>>, <<4, 5>>, <<0, 2, 0, 0, 0, 3, 31, 64, 3, 231, 3, 231, 0, 0, 3, 232>>,
        <<Fields(<<2, 3, 8000, 999, 999, 1000>>)>>),
     To(<<7, 2>>, <<7, 3>>,
        <<0, 3, 0, 2>> \o TlvsBytes(<<Tlv(17, bo), Tlv(1, al)>>) \o <<0, 2, 0, 1>>
        \o TlvsBytes(<<Tlv(4, <<>>)>>),
        <<[change |-> FALSE, perms |-> 3, fields |-> <<17, bo>>],
          [change |-> FALSE, perms |-> 3, fields |-> <<1, al>>],
          [change |-> FALSE, perms |-> 2, fields |-> <<4, <<>>>>]>>),
     To(<<7, 4>>, <<7, 5>>, <<0, 3, 0, 0>>, <<>>),
     To(<<7, 6>>, <<7, 7>>, <<0, 19>>, <<Fields(<<19>>)>>),
     To(<<19, 2>>, <<19, 3>>, <<>>, <<Fields(<<>>)>>),
     To(<<19, 5>>, <<19, 15>>, <<>>, <<Fields(<<>>)>>),
     To(<<19, 5>>, <<19, 6>>,
        <<0, 0, 2>> \o <<0, 2>> \o al \o <<0, 1, 0, 2, 0, 0, 0, 10>>
        \o TlvsBytes(<<Tlv(200, <<0, 1>>), Tlv(1, <<>>)>>)
        \o <<0, 0, 0, 0, 0, 3, 0, 4, 0, 0>> \o <<0, 1, 0, 0>>,
        <<[fields |-> <<0, 2>>,
           items |-> [stamp |-> 65536,
                      items |-> <<[name |-> al, ids |-> <<1, 2, 0>>,
                                   data |-> <<Tlv(1, <<>>), Tlv(200, <<0, 1>>)>>],
                                  [name |-> NULL, ids |-> <<0, 3, 4>>, data |-> <<>>]>>]]>>),
     To(<<21, 2, 60>>, <<21, 3>>,
        IcqBody(le32(47) \o le16(65) \o le16(1) \o le32(70000) \o le16(2001) \o <<12, 31, 23, 59>>
                \o le16(1) \o Le(bo)),
        <<[msg |-> <<70000, 2001, 12, 31, 23, 59, 1, bo>>]>>),
     To(<<21, 2, 60>>, <<21, 3>>, IcqBody(le32(47) \o le16(66) \o le16(1) \o <<0>>), <<[msg |-> <<>>]>>),
     To(<<21, 2, 2000>>, <<21, 3>>,
        IcqBody(le32(47) \o le16(2010) \o le16(1) \o le16(410) \o <<10, 0, 0>> \o le32(47)
                \o Le(al) \o Le(bo) \o Le(<<>>) \o Le(al) \o <<1>>),
        <<[info |-> <<410, 10, 0, 47, al, bo, <<>>, al>>]>>),
     To(<<1, 14>>, <<1, 15>>, Block(UserA), <<[user |-> UserA]>>)>>

MCNotices ==
    LET n ==
      <<<<<<1, 10>>, <<0, 1, 0, 3>> \o Zeros(24) \o <<0, 0, 1, 0>>,
         <<Fields(<<1, 3, 0, 0, 0, 0, 0, 0, 256>>)>>>>,
       <<<<1, 13>>, <<>>, <<Fields(<<>>)>>>>,
       <<<<1, 16>>, <<0, 50>>,
         <<[newevil |-> 50, user |-> [sn |-> <<>>, warnlevel |-> 0, info |-> <<>>]]>>>>,
       <<<<1, 16>>, <<0, 50>> \o Block(UserB), <<[newevil |-> 50, user |-> UserB]>>>>,
       <<<<1, 19>>, <<0, 4>> \o TlvsBytes(<<Tlv(11, bo)>>), <<[fields |-> <<4>>, str |-> bo]>>>>,
       <<<<1, 31>>, <<0, 0, 16, 0, 0, 0, 0, 16>>, <<[fields |-> <<4096, 16>>, str |-> NULL]>>>>,
       <<<<3, 12>>, Block(UserB), <<[user |-> UserB]>>>>,
       <<<<4, 10>>, <<0, 1>> \o Block(UserA) \o <<0, 2, 0, 3>> \o <<0, 2>> \o Block(UserB)
                    \o <<0, 1, 0, 0>>,
         <<[user |-> UserA, fields |-> <<1, 2, 3>>], [user |-> UserB, fields |-> <<2, 1, 0>>]>>>>,
       <<<<4, 11>>, Zeros(8) \o <<0, 2, 2>> \o al \o <<0, 3>>, <<Fields(<<0, 0, 2, al, 3>>)>>>>,
       <<<<4, 12>>, Zeros(8) \o <<0, 2, 2>> \o al, <<Fields(<<0, 0, 2, al>>)>>>>,
       <<<<8, 2>>, TlvsBytes(<<Tlv(1, al), Tlv(2, bo), Tlv(3, <<1, 0>>), Tlv(5, <<0, 7>>)>>),
         <<[msg |-> al, url |-> bo, nums |-> <<256, 0, 7>>]>>>>,
       <<<<11, 2>>, <<4, 176>>, <<Fields(<<1200>>)>>>>,
       <<<<14, 2>>, <<0, 4, 2, 114, 109, 0, 1, 2, 0, 5>>
            \o TlvsBytes(<<Tlv(106, al), Tlv(111, <<0, 2>>), Tlv(115, Block(UserA) \o Block(UserB)),
                           Tlv(201, <<0, 4>>), Tlv(209, <<4, 0>>), Tlv(211, bo), Tlv(218, <<1, 0>>)>>),
         <<[room |-> room, roomname |-> al, users |-> <<UserA, UserB>>, roomdesc |-> bo,
            nums |-> <<4, 0, 1024, 0, 0, 256>>]>>>>,
       <<<<14, 2>>, <<0, 4, 2, 114, 109, 0, 1, 1, 0, 0>>, <<>>>>,
       <<<<14, 3>>, Block(UserB) \o Block(UserA),
         <<[users |-> <<[user |-> UserB, fields |-> <<>>], [user |-> UserA, fields |-> <<>>]>>]>>>>>>
    IN  [i \in DOMAIN n |-> To(<<>>, n[i][1], n[i][2], n[i][3])]
=============================================================================
