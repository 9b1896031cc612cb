------------------------------ MODULE Userinfo ------------------------------
(***************************************************************************)
(* Capability blocks and the user information block (src/src/info.c) that  *)
(* says who an ICBM, a chat message or a buddy's arrival comes from: the   *)
(* screen name, the warning level, a count and that many TLVs, which are   *)
(* read in place and followed by whatever the message goes on with.        *)
(*                                                                         *)
(* A user is [sn, warnlevel, info], info a function on the fields that are *)
(* present.                                                                *)
(***************************************************************************)
EXTENDS Tlv

\* The table aim_caps, in its order.
aim_caps ==
    <<"CHAT", "VOICE", "SENDFILE", "ICQ", "IMIMAGE", "BUDDYICON", "SAVESTOCKS",
      "GETFILE", "ICQSERVERRELAY", "GAMES", "GAMES2", "SENDBUDDYLIST", "ICQRTF",
      "ICQUNKNOWN", "EMPTY", "TRILLIANCRYPT", "APINFO">>

CapIndices == [i \in 1..Len(aim_caps) |-> i]

\* The 16 bytes of a capability: what matters is that they differ.
CapBlock(i) == [j \in 1..16 |-> IF aim_caps[i] = "EMPTY" THEN 0 ELSE i]

aim_putcap(w, caps) ==
    FoldLeft(LAMBDA x, i : IF aim_caps[i] \in caps THEN aimbs_put(x, CapBlock(i)) ELSE x,
             w, CapIndices)

\* aim_getcap: the capabilities known to the table among those in len bytes.  The
\* blocks are whole: a stream that ends within one is not modelled.
aim_getcap(bs, len) ==
    LET n      == (len + 15) \div 16
        blocks == {SubSeq(bs.data, bs.offset + 16 * k - 15, bs.offset + 16 * k) :
                      k \in 1..n}
    IN  [v  |-> {aim_caps[i] : i \in {j \in 1..Len(aim_caps) : CapBlock(j) \in blocks}},
         bs |-> [bs EXCEPT !.offset = @ + 16 * n]]

\* aim_addtlvtochain_caps has room for 16 blocks.
aim_addtlvtochain_caps(list, t, caps) ==
    IF caps = {} THEN list
    ELSE aim_addtlvtochain_raw(list, t, aim_putcap(Writer(16 * 16), caps).data)

-----------------------------------------------------------------------------
(* aim_extractuserinfo *)

\* The numbers among the fields: their TLV type, name, the bytes skipped before
\* them and their width.
Numbers ==
    {<<1, "flags", 0, 2>>, <<2, "createtime", 0, 4>>, <<3, "onlinesince", 0, 4>>,
     <<4, "idletime", 0, 2>>, <<5, "membersince", 0, 4>>, <<6, "icqstatus", 2, 2>>,
     <<10, "ipaddr", 0, 4>>, <<15, "sessionlen", 0, 4>>, <<16, "sessionlen", 0, 4>>}

Ignored == {14, 29, 30}

\* What the body of the loop does with the value of a TLV at bs: the field it sets,
\* and where it leaves the stream.  dumptlv takes its length as one byte.
ReadField(bs, type, length) ==
    LET number == CHOOSE x \in Numbers : x[1] = type
        at     == IF number[3] = 0 THEN bs ELSE aimbs_get(bs, number[3]).bs
    IN  CASE \E x \in Numbers : x[1] = type ->
               LET g == aimbs_get(at, number[4]) IN [f |-> number[2] :> g.v, bs |-> g.bs]
          [] type = 12 ->
               LET g == aimbs_getraw(bs, 37)
               IN  [f |-> "crap" :> (IF g.v = NULL THEN Zeros(37) ELSE g.v), bs |-> g.bs]
          [] type = 13 ->
               LET g == aim_getcap(bs, length) IN [f |-> "caps" :> g.v, bs |-> g.bs]
          [] type \in Ignored ->
               [f |-> <<>>, bs |-> bs]
          [] OTHER ->
               [f |-> <<>>, bs |-> aim_bstream_advance(bs, length % 256)]

\* Mutant: the stream is left where the value was read to.
ExtractTlv_NoRealign(u) ==
    LET head == Gets(u.bs, <<2, 2>>)
        r    == ReadField(head.bs, head.v[1], head.v[2])
    IN  [info |-> r.f @@ u.info, bs |-> r.bs]

\* One turn of the loop: whatever was read, the stream goes on behind the value.
ExtractTlv(u) ==
    LET head == Gets(u.bs, <<2, 2>>)
        r    == ReadField(head.bs, head.v[1], head.v[2])
    IN  [info |-> r.f @@ u.info,
         bs   |-> aim_bstream_setpos(r.bs, head.bs.offset + head.v[2])]

\* aim_extractuserinfo: the user, and the stream behind the block.
aim_extractuserinfo(bs) ==
    LET Block(head) ==
            LET turn[k \in 0..head.v[3]] ==
                    IF k = 0 THEN [info |-> <<>>, bs |-> head.bs] ELSE ExtractTlv(turn[k - 1])
                User(end) == [v  |-> [sn |-> head.v[1], warnlevel |-> head.v[2], info |-> end.info],
                              bs |-> end.bs]
            IN  User(turn[head.v[3]])
    IN  Block(Gets(bs, <<-1, 2, 2>>))

-----------------------------------------------------------------------------
(* aim_putuserinfo *)

\* atoi(sn) # 0, for names of letters and digits.
IsIcq(sn) == \E i \in 1..Len(sn) : sn[i] \in 49..57 /\ \A j \in 1..(i - 1) : sn[j] = 48

AOLFlag(u) == "flags" \in DOMAIN u.info /\ (u.info["flags"] \div 4) % 2 = 1

\* What the fields are written as: name, TLV type and bytes of the value.
Written(u) ==
    <<<<"flags", 1, 2>>, <<"membersince", 2, 4>>, <<"onlinesince", 3, 4>>,
      <<"idletime", 4, 2>>>>
    \o (IF IsIcq(u.sn) THEN <<<<"icqstatus", 6, 2>>, <<"ipaddr", 10, 4>>>> ELSE <<>>)
    \o <<<<"caps", 13, 0>>, <<"sessionlen", IF AOLFlag(u) THEN 16 ELSE 15, 4>>>>

UserinfoChain(u) ==
    FoldLeft(LAMBDA list, x :
                 CASE x[1] \notin DOMAIN u.info -> list
                   [] x[1] \in DOMAIN u.info /\ x[1] = "caps" ->
                        aim_addtlvtochain_caps(list, 13, u.info["caps"])
                   [] OTHER ->
                        aim_addtlvtochain_raw(list, x[2],
                            IF x[3] = 2 THEN aimutil_put16(u.info[x[1]])
                                        ELSE aimutil_put32(u.info[x[1]])),
             <<>>, Written(u))

aim_putuserinfo(w, u) ==
    aim_writetlvchain(
        Puts(w, Counted(u.sn) \o <<aimutil_put16(u.warnlevel),
                                   aimutil_put16(aim_counttlvchain(UserinfoChain(u)))>>),
        UserinfoChain(u))

-----------------------------------------------------------------------------
(* The server (external) *)

\* A user information block: the fields as aim_extractuserinfo knows them.
ServerBlock(u, noise) ==
    LET tlvs == {Tlv(x[1], Zeros(x[3]) \o (IF x[4] = 2 THEN aimutil_put16(u.info[x[2]])
                                                       ELSE aimutil_put32(u.info[x[2]]))) :
                    x \in {y \in Numbers : y[1] # 16 /\ y[2] \in DOMAIN u.info}}
        caps == IF "caps" \in DOMAIN u.info
                THEN <<Tlv(13, aim_putcap(Writer(16 * 32), u.info["caps"]).data)>> ELSE <<>>
        list == noise \o SetToSeq(tlvs) \o caps \o noise
    IN  aim_writetlvchain(
            Puts(Writer(8192), Counted(u.sn) \o <<aimutil_put16(u.warnlevel),
                                                  aimutil_put16(Len(list))>>), list).data
=============================================================================
