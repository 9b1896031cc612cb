------------------------------ MODULE Requests ------------------------------
(***************************************************************************)
(* Requests to the server and what comes back.  A request is kept in the   *)
(* SNAC cache under the id its frame carries; the answer carries that id   *)
(* again, in whatever order answers come, and its handler looks the        *)
(* request up to know what was asked.  Beside answers the server sends     *)
(* errors, which the catch-all module takes for every family that does     *)
(* not, and notices nobody asked for.                                      *)
(*                                                                         *)
(* The cache is the map SnacMap describes; SnacCache shows that the hash   *)
(* table implements it.                                                    *)
(***************************************************************************)
EXTENDS RequestFrames

CONSTANTS
    Calls,        \* calls (a sequence): the request made, for each id, and what it is to tell
    Combined,     \* those made one after the other (bound: the rest are made alone)
    Users,        \* the users the server knows, with their texts and capabilities
    Answers,      \* what the server answers (a sequence): to which request, SNAC, body, meaning
    Notices,      \* what it sends unasked (a sequence)
    Returns,      \* what callbacks return
    Failures,     \* TRUE: aim_cachesnac may find no memory
    MaxRequests   \* requests made

ASSUME RequestsAssumption == MaxRequests \in Nat \ {0} /\ Returns \subseteq {0, 1}

ASSUME CallsAssumption ==
    \A c \in DOMAIN Calls : \A id \in 0..MaxRequests : IsRequest(Calls[c].req[id])

VARIABLES
    requests,  \* the requests made: which call, frame and id, in order
    cache,     \* sess->snacs: from ids to what was kept
    open,      \* the requests whose answer has not arrived
    got        \* the last answer that arrived, and the callbacks made for it

vars == <<requests, cache, open, got>>

Nothing == [request |-> 0, known |-> FALSE, told |-> <<>>, calls |-> <<>>]

Init ==
    /\ requests = <<>>
    /\ cache = <<>>
    /\ open = {}
    /\ got = Nothing

-----------------------------------------------------------------------------
(* The cache *)

\* Mutant: the newest request is found, whatever the id.
remsnac_Newest(c, id) ==
    IF DOMAIN c = {} THEN Absent ELSE c[CHOOSE i \in DOMAIN c : \A j \in DOMAIN c : j <= i]

\* aim_remsnac: what was kept under the id, or NULL (Absent); it is Without it afterwards.
aim_remsnac(c, id) == IF id \in DOMAIN c THEN c[id] ELSE Absent

Without(c, id) == [i \in DOMAIN c \ {id} |-> c[i]]

\* aim_cachesnac: the cache with this kept under the id.
With(c, id, kept) == [i \in DOMAIN c \cup {id} |-> IF i = id THEN kept ELSE c[i]]

\* Mutant: a request without an id is cached too.
Ask_CachesZero(c, fails) ==
    LET n   == Len(requests) + 1
        req == Calls[c].req
        id  == IF fails \/ ~req[n].cached THEN 0 ELSE n
    IN  /\ n <= MaxRequests
        /\ n > 1 => {c, requests[1].call} \subseteq Combined
        /\ requests' = Append(requests, [call |-> c, id |-> id, frame |-> FrameOf(req[id], id)])
        /\ cache' = With(cache, id, req[id].kept)
        /\ open' = open \cup {n}
        /\ got' = Nothing

\* A request: ids are counted from 1; without memory for the cache its id is 0.
Ask(c, fails) ==
    LET n   == Len(requests) + 1
        req == Calls[c].req
        id  == IF fails \/ ~req[n].cached THEN 0 ELSE n
    IN  /\ n <= MaxRequests
        /\ n > 1 => {c, requests[1].call} \subseteq Combined
        /\ requests' = Append(requests, [call |-> c, id |-> id, frame |-> FrameOf(req[id], id)])
        /\ cache' = IF id = 0 THEN cache ELSE With(cache, id, req[id].kept)
        /\ open' = open \cup {n}
        /\ got' = Nothing

\* aim_cleansnacs, called when an IM is sent: requests older than a minute go.
aim_cleansnacs(oldest) ==
    /\ \E id \in DOMAIN cache : id < oldest
    /\ cache' = [id \in {i \in DOMAIN cache : i >= oldest} |-> cache[id]]
    /\ got' = Nothing
    /\ UNCHANGED <<requests, open>>

-----------------------------------------------------------------------------
(* The server (external): what it reads *)

Body(frame) == aim_bstream_setpos(aim_bstream_init(frame), 10)
Snac(frame) == Gets(aim_bstream_init(frame), <<2, 2, 2, 4>>).v
Rest(bs) == Ahead(bs, aim_bstream_empty(bs))

\* Counted names up to the end.
Names(bs) ==
    LET n == Len(bs.data)
        from[o \in 0..n] ==
            IF o = n THEN <<>>
            ELSE LET g == GetCounted([bs EXCEPT !.offset = o], 1)
                 IN  IF g.v = NULL THEN <<NULL>> ELSE <<g.v>> \o from[g.bs.offset]
    IN  from[bs.offset]

\* The layout of a request: its fields, and how it ends.
Grammar(snac) ==
    CASE snac \in {<<3, 4>>, <<3, 5>>, <<3, 12>>, <<2, 11>>} \cup ({9} \X (5..8)) ->
           [fields |-> <<>>, end |-> "names"]
      [] snac \in {<<2, 4>>, <<2, 9>>, <<2, 15>>, <<7, 4>>, <<1, 30>>} ->
           [fields |-> <<>>, end |-> "tlvs"]
      [] snac \in {<<2, 5>>, <<4, 8>>} -> [fields |-> <<2, -1>>, end |-> "raw"]
      [] snac \in {<<9, 4>>, <<1, 17>>, <<1, 20>>} -> [fields |-> <<4>>, end |-> "raw"]
      [] snac = <<7, 2>>  -> [fields |-> <<2, 2>>, end |-> "raw"]
      [] snac = <<19, 5>> -> [fields |-> <<4, 2>>, end |-> "raw"]
      [] snac = <<4, 2>>  -> [fields |-> <<2, 4, 2, 2, 2, 4>>, end |-> "raw"]
      [] snac = <<13, 8>> -> [fields |-> <<2, -1, 2, 1, 2>>, end |-> "tlvs"]
      [] snac = <<1, 4>>  -> [fields |-> <<2>>, end |-> "tlvs"]
      [] snac = <<4, 11>> -> [fields |-> <<4, 4, 2, -1>>, end |-> "tlvs"]
      [] snac = <<21, 2>> -> [fields |-> <<>>, end |-> "icq"]
      [] OTHER            -> [fields |-> <<>>, end |-> "raw"]

\* The packet in TLV 1: uin, command and what follows, if its length is right.
IcqPacket(packet) ==
    LET Command(head) ==
            IF head.v[1] # Len(packet) - 2 THEN NULL ELSE <<head.v[2], head.v[3], Rest(head.bs)>>
    IN  Command(GetsLe(aim_bstream_init(packet), <<2, 4, 2, 2>>))

\* What the server makes of a frame.
ServerReads(frame) ==
    LET Ending(bs, end) ==
            CASE end = "names" -> Names(bs)
              [] end = "tlvs"  -> Reverse(aim_readtlvchain(bs))
              [] end = "icq"   -> IcqPacket(aim_gettlv(aim_readtlvchain(bs), 1, 1))
              [] end = "raw"   -> Rest(bs)
        Whole(g, end) == [fields |-> g.v, end |-> Ending(g.bs, end)]
        Laid(grammar) == Whole(Gets(Body(frame), grammar.fields), grammar.end)
    IN  Laid(Grammar(SubSeq(Snac(frame), 1, 2)))

-----------------------------------------------------------------------------
(* The server (external): what it answers *)

TlvsBytes(list) == aim_writetlvchain(Writer(65536), list).data

\* What is told about a user depends on what was asked for.
InfoAnswer(u, infotype) ==
    [to |-> <<2, 5>>, snac |-> <<2, 6>>,
     body |-> ServerBlock(u.user, <<>>)
              \o TlvsBytes(CASE infotype = 1 -> <<Tlv(1, charset), Tlv(2, u.profile)>>
                             [] infotype = 3 -> <<Tlv(3, charset), Tlv(4, u.away)>>
                             [] OTHER -> <<Tlv(5, aim_putcap(Writer(512), u.caps).data)>>),
     told |-> <<CASE infotype = 1 -> [user |-> u.user, encoding |-> charset, text |-> u.profile]
                  [] infotype = 3 -> [user |-> u.user, encoding |-> charset, text |-> u.away]
                  [] OTHER -> [user |-> [u.user EXCEPT !.info = "caps" :> u.caps],
                               encoding |-> NULL, text |-> NULL]>>]

\* What it says about a user is computed once.
InfoAnswers == [infotype \in {1, 3, 4} |-> {InfoAnswer(u, infotype) : u \in Users}]

\* The answers to a frame; to an ICQ request they depend on its command.
ServerAnswers(frame) ==
    LET To(snac, r) ==
            LET key == IF snac = <<21, 2>> THEN Append(snac, r.end[2]) ELSE snac
            IN  {Answers[i] : i \in {j \in DOMAIN Answers : Answers[j].to = key}}
                \cup (IF snac # <<2, 5>> THEN {}
                      ELSE {a \in InfoAnswers[r.fields[1]] : a.told[1].user.sn = r.fields[2]})
                \cup {[to |-> snac, snac |-> <<snac[1], 1>>, body |-> <<0, 4>>, told |-> <<>>]}
    IN  To(SubSeq(Snac(frame), 1, 2), ServerReads(frame))

-----------------------------------------------------------------------------
(* Handlers that look the request up *)

\* The arguments of a callback: their form, the data kept with the request, the rest.
Args(form, data, v) == [form |-> form, data |-> data, v |-> v]

\* search.c
error(snac2) == IF snac2 = Absent THEN <<>> ELSE <<Args("address", snac2.data, Absent)>>

\* The names, in the order of the chain.
reply(bs, snac2) ==
    LET tlvlist == aim_readtlvchain(bs)
        names   == SelectSeq(tlvlist, LAMBDA tlv : tlv.type = 1)
    IN  <<Args("answer", IF snac2 = Absent THEN Absent ELSE snac2.data,
               [list |-> [i \in 1..Len(names) |-> names[i].value]])>>

\* misc.c: the error, and NULL for a request that is not known.
generror(bs, snac2) ==
    <<Args("error", IF snac2 = Absent THEN Absent ELSE snac2.data, Gets(bs, <<2>>).v)>>

\* info.c; for capabilities nothing else of the user is present afterwards.
InfoCall(user, tlvlist, infoneed, data) ==
    LET str(t) == aim_gettlv(tlvlist, t, 1)
        made(u, encoding, text) ==
            <<Args("answer", data, [user |-> u, encoding |-> encoding, text |-> text])>>
        WithCaps(v) == IF v = NULL THEN user
                       ELSE [user EXCEPT !.info =
                                 "caps" :> aim_getcap(aim_bstream_init(v), Len(v)).v]
    IN  CASE infoneed = 1 -> made(user, str(1), str(2))
          [] infoneed = 3 -> made(user, str(3), str(4))
          [] infoneed = 4 -> made(WithCaps(str(5)), NULL, NULL)
          [] OTHER -> <<>>

userinfo(bs, snac2) ==
    LET About(user) ==
            InfoCall(user.v, aim_readtlvchain(user.bs), snac2.data.infotype, snac2.data)
    IN  IF snac2 = Absent THEN <<>> ELSE About(aim_extractuserinfo(bs))

\* chatnav.c: the exchanges are in the order of the chain.  The flags of one that
\* names none are not initialised (-1).
ExchangeInfo(number, inner) ==
    [number |-> number,
     flags |-> IF aim_gettlv(inner, 201, 1) = NULL THEN -1 ELSE aim_gettlvnum(inner, 201, 2),
     strings |-> [t \in {211} \cup 214..217 |-> aim_gettlv(inner, t, 1)]]

parseinfo_perms(tlvlist, snac2) ==
    LET tlvs      == SelectSeq(tlvlist, LAMBDA tlv : tlv.type = 3)
        Info(number) == ExchangeInfo(number.v, aim_readtlvchain(number.bs))
    IN  <<Args("answer", snac2.data,
               [type |-> snac2.type, maxrooms |-> aim_gettlvnum(tlvlist, 2, 1),
                list |-> [i \in 1..Len(tlvs) |-> Info(aimbs_get(aim_bstream_init(tlvs[i].value), 2))]])>>

parseinfo_create(tlvlist, snac2) ==
    LET bigblock == aim_gettlv(tlvlist, 4, 1)
        Room(fields, inner) ==
            LET num(t, w) == aim_gettlvnum(inner, t, w)
            IN  [type |-> snac2.type, fields |-> fields,
                 fqcn |-> aim_gettlv(inner, 106, 1), name |-> aim_gettlv(inner, 211, 1),
                 nums |-> <<num(201, 2), num(202, 4), num(209, 2), num(210, 2), num(213, 1)>>]
        Created(g) == IF g.v[4] # 2 THEN <<>>
                      ELSE <<Args("answer", snac2.data, Room(g.v, aim_readtlvchain(g.bs)))>>
    IN  IF bigblock = NULL THEN <<>>
        ELSE Created(Gets(aim_bstream_init(bigblock), <<2, -1, 2, 1, 2>>))

\* Which of the two it is, only the request can tell.
parseinfo(bs, snac2) ==
    CASE snac2 = Absent -> <<>>
      [] snac2 # Absent /\ snac2.family = 13 /\ snac2.type = 2 -> parseinfo_perms(aim_readtlvchain(bs), snac2)
      [] snac2 # Absent /\ snac2.family = 13 /\ snac2.type = 8 -> parseinfo_create(aim_readtlvchain(bs), snac2)
      [] OTHER -> <<>>

-----------------------------------------------------------------------------
(* Handlers that do not *)

Told(v) == <<Args("answer", Absent, v)>>

\* Callbacks that get the fields of the body.
FromFields(bs, fields) == Told([fields |-> Gets(bs, fields).v])

paraminfo(bs)       == FromFields(bs, <<2, 4, 2, 2, 2, 4>>)
clienterr(bs)       == FromFields(bs, <<4, 4, 2, -1, 2>>)
msgack(bs)          == FromFields(bs, <<4, 4, 2, -1>>)
ratechange(bs)      == FromFields(bs, <<2, 2, 4, 4, 4, 4, 4, 4, 4>>)
accountconfirm(bs)  == FromFields(bs, <<2>>)
reportinterval(bs)  == FromFields(bs, <<2>>)
serverresume(bs)    == FromFields(bs, <<>>)
parserights(bs)     == FromFields(bs, <<>>)
parsedataunchanged(bs) == FromFields(bs, <<>>)

\* Callbacks that get numbers from its TLVs.
FromTlvs(bs, types) ==
    LET tlvlist == aim_readtlvchain(bs)
    IN  Told([nums |-> [i \in 1..Len(types) |-> aim_gettlvnum(tlvlist, types[i], 2)]])

locate_rights(bs)   == FromTlvs(bs, <<1>>)
buddylist_rights(bs) == FromTlvs(bs, <<1, 2>>)
bos_rights(bs)      == FromTlvs(bs, <<1, 2>>)

\* Several callbacks, one for each of these.
Each(told) == [i \in 1..Len(told) |-> Args("answer", Absent, told[i])]

\* admin.c: blocks of TLVs, each with its permissions; a callback for each TLV.
ChangedFields(bs, change) ==
    LET n == Len(bs.data)
        from[o \in 0..n, left \in 0..65535, perms \in 0..65535] ==
            LET Block(g) == from[g.bs.offset, g.v[2], g.v[1]]
                Field(g) == <<[change |-> change, perms |-> perms, fields |-> g.v]>>
                            \o from[g.bs.offset, left - 1, perms]
                at       == [bs EXCEPT !.offset = o]
            IN  CASE o = n -> <<>>
                  [] o < n /\ left = 0 -> Block(Gets(at, <<2, 2>>))
                  [] OTHER -> Field(Gets(at, <<2, -2>>))
    IN  from[bs.offset, 0, 0]

infochange(bs, change) == Each(ChangedFields(bs, change))

\* Mutant: what is left must be longer than the shortest item and the time stamp.
StampLeft_Early(left) == left <= 4 + 10

\* Only the time stamp is left.
StampLeft(left) == left <= 4

\* ssi.c: items up to the time stamp.
parsedata(bs) ==
    LET n == Len(bs.data)
        Item(g) == [name |-> IF g.v[1] = <<>> THEN NULL ELSE g.v[1], ids |-> SubSeq(g.v, 2, 4),
                    data |-> aim_readtlvchain(aim_bstream_init(g.v[5]))]
        from[o \in 0..n] ==
            LET Before(item, rest) == [rest EXCEPT !.items = <<item>> \o @]
                Then(g) == Before(Item(g), from[g.bs.offset])
                at      == [bs EXCEPT !.offset = o]
            IN  IF StampLeft(n - o) THEN [items |-> <<>>, stamp |-> aimbs_get(at, 4).v]
                ELSE Then(Gets(at, <<-2, 2, 2, 2, -2>>))
        All(g) == Told([fields |-> g.v, items |-> from[g.bs.offset]])
    IN  All(Gets(bs, <<1, 2>>))

\* icq.c
icqresponse(bs) ==
    LET datatlv == aim_gettlv(aim_readtlvchain(bs), 1, 1)
        Message(g) == CASE g.v[3] = 65 -> Told([msg |-> GetsLe(g.bs, <<4, 2, 1, 1, 1, 1, 2, -2>>).v])
                        [] g.v[3] = 66 -> Told([msg |-> <<>>])
                        [] g.v[3] = 2010 /\ aimbs_getle(g.bs, 2).v = 410 ->
                             Told([info |-> GetsLe(g.bs, <<2, 1, 2, 4, -2, -2, -2, -2>>).v])
                        [] OTHER -> <<>>
    IN  IF datatlv = NULL THEN <<>>
        ELSE Message(GetsLe(aim_bstream_init(datatlv), <<2, 4, 2, 2>>))

\* chat.c
infoupdate(bs) ==
    LET Occupants(tlv, count) ==
            LET occupant[k \in 0..count] ==
                    IF k = 0 THEN [v |-> NULL, bs |-> aim_bstream_init(tlv)]
                    ELSE aim_extractuserinfo(occupant[k - 1].bs)
            IN  IF tlv = NULL THEN <<>> ELSE [k \in 1..count |-> occupant[k].v]
        Update(room, tlvlist) ==
            LET num(t, w) == aim_gettlvnum(tlvlist, t, w)
            IN  Told([room |-> room, roomname |-> aim_gettlv(tlvlist, 106, 1),
                      users |-> Occupants(aim_gettlv(tlvlist, 115, 1), num(111, 2)),
                      roomdesc |-> aim_gettlv(tlvlist, 211, 1),
                      nums |-> <<num(201, 2), num(202, 4), num(209, 2), num(210, 2), num(213, 1),
                                 num(218, 2)>>])
        Detailed(room, g) ==
            IF g.v[1] # 2 THEN <<>> ELSE Update(room, aim_readtlvchain(g.bs))
        Of(room) == Detailed(room.v, Gets(room.bs, <<1, 2>>))
    IN  Of(aim_chat_readroominfo(bs))

\* User blocks up to the end, between as many bytes before and behind each of them:
\* userlistchange (chat.c) has none, missedcall (im.c) the channel, a count and a reason.
UserBlocks(bs, before, behind) ==
    LET n == Len(bs.data)
        from[o \in 0..n] ==
            LET Block(pre, user, post) == <<[user |-> user, fields |-> pre \o post.v]>>
                                          \o from[post.bs.offset]
                User(pre, user) == Block(pre, user.v, Gets(user.bs, behind))
                Then(pre)       == User(pre.v, aim_extractuserinfo(pre.bs))
            IN  IF o = n THEN <<>> ELSE Then(Gets([bs EXCEPT !.offset = o], before))
    IN  from[bs.offset]

userlistchange(bs) == Told([users |-> UserBlocks(bs, <<>>, <<>>)])

missedcall(bs) == Each(UserBlocks(bs, <<2>>, <<2, 2>>))

selfinfo(bs) == Told([user |-> aim_extractuserinfo(bs).v])
buddychange(bs) == Told([user |-> aim_extractuserinfo(bs).v])

\* The warner is not named if it is anonymous.
evilnotify(bs) ==
    LET Warned(newevil) ==
            Told([newevil |-> newevil.v,
                  user |-> IF aim_bstream_empty(newevil.bs) = 0
                           THEN [sn |-> <<>>, warnlevel |-> 0, info |-> <<>>]
                           ELSE aim_extractuserinfo(newevil.bs).v])
    IN  Warned(aimbs_get(bs, 2))

\* Fields, and a string from a TLV.
FieldsAndString(bs, fields, t) ==
    LET Made(g) == Told([fields |-> g.v, str |-> aim_gettlv(aim_readtlvchain(g.bs), t, 1)])
    IN  Made(Gets(bs, fields))

motd(bs) == FieldsAndString(bs, <<2>>, 11)
memrequest(bs) == FieldsAndString(bs, <<4, 4>>, 1)

\* popups.c
parsepopup(bs) ==
    LET tl == aim_readtlvchain(bs)
    IN  Told([msg |-> aim_gettlv(tl, 1, 1), url |-> aim_gettlv(tl, 2, 1),
              nums |-> [i \in 1..3 |-> aim_gettlvnum(tl, 2 + i, 2)]])

-----------------------------------------------------------------------------
(* Dispatch *)

\* The snachandler of the family's module: the callbacks it makes.
snachandler(snac, bs, snac2) ==
    CASE snac = <<10, 1>> -> error(snac2)
      [] snac = <<10, 3>> -> reply(bs, snac2)
      [] snac = <<2, 6>>  -> userinfo(bs, snac2)
      [] snac = <<13, 9>> -> parseinfo(bs, snac2)
      [] snac = <<2, 3>>  -> locate_rights(bs)
      [] snac = <<3, 3>>  -> buddylist_rights(bs)
      [] snac = <<9, 3>>  -> bos_rights(bs)
      [] snac = <<4, 5>>  -> paraminfo(bs)
      [] snac \in {<<7, 3>>, <<7, 5>>} -> infochange(bs, snac[2] = 5)
      [] snac = <<7, 7>>  -> accountconfirm(bs)
      [] snac = <<11, 2>> -> reportinterval(bs)
      [] snac = <<19, 3>> -> parserights(bs)
      [] snac = <<19, 15>> -> parsedataunchanged(bs)
      [] snac = <<1, 13>> -> serverresume(bs)
      [] snac = <<19, 6>> -> parsedata(bs)
      [] snac = <<21, 3>> -> icqresponse(bs)
      [] snac = <<1, 10>> -> ratechange(bs)
      [] snac = <<1, 15>> -> selfinfo(bs)
      [] snac = <<3, 12>> -> buddychange(bs)
      [] snac = <<1, 16>> -> evilnotify(bs)
      [] snac = <<1, 19>> -> motd(bs)
      [] snac = <<1, 31>> -> memrequest(bs)
      [] snac = <<4, 10>> -> missedcall(bs)
      [] snac = <<4, 11>> -> clienterr(bs)
      [] snac = <<4, 12>> -> msgack(bs)
      [] snac = <<8, 2>>  -> parsepopup(bs)
      [] snac = <<14, 2>> -> infoupdate(bs)
      [] snac \in {<<14, 3>>, <<14, 4>>} -> userlistchange(bs)
      [] OTHER -> <<>>

\* The answers whose handlers take the request from the cache.
LooksUp == {<<10, 1>>, <<10, 3>>, <<2, 6>>, <<13, 9>>}

\* Mutant: the catch-all module is the first to be asked.
consumesnac_CatchAllFirst(a, id, ret, made) ==
    IF a.snac[2] = 1
    THEN [calls |-> generror(aim_bstream_init(a.body), aim_remsnac(cache, id)),
          cache |-> Without(cache, id)]
    ELSE [calls |-> made, cache |-> IF a.snac \in LooksUp THEN Without(cache, id) ELSE cache]

\* consumesnac: after the module of the family, which made these calls, the catch-all
\* module, if the SNAC is an error and no callback of the first returned anything but 0.
consumesnac(a, id, ret, made) ==
    LET left     == IF a.snac \in LooksUp THEN Without(cache, id) ELSE cache
        passedOn == a.snac[2] = 1 /\ (made = <<>> \/ ret = 0)
    IN  [calls |-> IF ~passedOn THEN made
                   ELSE made \o generror(aim_bstream_init(a.body), aim_remsnac(left, id)),
         cache |-> IF passedOn THEN Without(left, id) ELSE left]

\* What may arrive: the answer to a request, or its refusal, in any order of the
\* requests; or (0) a notice, which has nothing to do with requests and comes first.
Incoming(n) ==
    CASE n \in open -> {[a |-> a, id |-> Snac(requests[n].frame)[4]] :
                           a \in ServerAnswers(requests[n].frame)}
      [] n = 0 /\ requests = <<>> -> {[a |-> Notices[i], id |-> 0] : i \in DOMAIN Notices}
      [] OTHER -> {}

\* A SNAC arrives.
Arrive(n, a, id, ret) ==
    \E result \in
          {consumesnac(a, id, ret,
               snachandler(a.snac, aim_bstream_init(a.body), aim_remsnac(cache, id)))} :
        /\ cache' = result.cache
        /\ got' = [request |-> n, known |-> id \in DOMAIN cache, snac |-> a.snac,
                   told |-> a.told, calls |-> result.calls]
        /\ open' = open \ {n}
        /\ UNCHANGED requests

-----------------------------------------------------------------------------
Next ==
    \/ \E c \in DOMAIN Calls, fails \in Failures : Ask(c, fails)
    \/ \E n \in 0..MaxRequests, ret \in Returns :
          \E w \in Incoming(n) : Arrive(n, w.a, w.id, ret)
    \/ \E id \in 2..(MaxRequests + 1) : aim_cleansnacs(id)

Spec == Init /\ [][Next]_vars

-----------------------------------------------------------------------------
(* Properties *)

Kept(n) == Calls[requests[n].call].req[requests[n].id].kept

\* Ids are those of requests; what is kept under one is what its request keeps.
TypeOK ==
    /\ Len(requests) <= MaxRequests
    /\ \A n \in 1..Len(requests) : requests[n].id \in {0, n}
    /\ \A id \in DOMAIN cache : id \in 1..Len(requests) /\ cache[id] = Kept(id)
    /\ open \subseteq 1..Len(requests)

\* The server reads in every frame what the call was to tell it: no put was dropped
\* for want of room, every length stated beforehand is right, and nothing follows.
\* About the length arithmetic of the functions that send.
Understood ==
    [][\A n \in open' \ open :
          ServerReads(requests'[n].frame) = Calls[requests'[n].call].means]_vars

\* No callback is given the data of a request other than the one answered, in
\* whatever order requests are made, answered, refused and forgotten.  About
\* aim_remsnac as the handlers use it.
Attributed ==
    \A i \in DOMAIN got.calls :
        got.calls[i].data # Absent => got.request # 0 /\ got.calls[i].data = Kept(got.request).data

\* An answer or error whose request is still known reaches the client: one callback,
\* with what was kept, in the form its SNAC has.  About the handlers that look the
\* request up, the catch-all's generror, and the order of the modules.
Answered ==
    got.known /\ (got.snac \in LooksUp \/ got.snac[2] = 1) =>
        /\ Len(got.calls) = 1
        /\ got.calls[1].data = Kept(got.request).data
        /\ got.calls[1].form = (CASE got.snac = <<10, 1>> -> "address"
                                  [] got.snac # <<10, 1>> /\ got.snac[2] = 1 -> "error"
                                  [] OTHER -> "answer")

\* Lists read from chains come in another order.
Unordered(v) == IF "list" \in DOMAIN v THEN [v EXCEPT !.list = <<Len(@), ToSet(@)>>] ELSE v

\* What reaches the client is what the server meant: everything it named, once, taken
\* for the answer to what was asked; only an answer that is nothing without its
\* request may be dropped when the request is forgotten.  About every handler that
\* parses an answer or a notice.
Decoded ==
    got # Nothing /\ got.snac[2] # 1 /\ (got.snac \in LooksUp => got.known) =>
        [i \in DOMAIN got.calls |-> Unordered(got.calls[i].v)]
            = [i \in DOMAIN got.told |-> Unordered(got.told[i])]

\* The callback for a search error is given the address that was searched for, as its
\* one registered signature says.  About search.c's error and misc.c's generror.
AddressGiven ==
    \A i \in DOMAIN got.calls :
        got # Nothing /\ got.snac = <<10, 1>> => got.calls[i].form = "address"
=============================================================================
