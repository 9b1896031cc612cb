---------------------------- MODULE LoginProofs ----------------------------
(***************************************************************************)
(* What holds of logging in and of connection set-up for every choice of   *)
(* accounts, services and rooms, and any number of connections.            *)
(***************************************************************************)
EXTENDS Login, SequenceTheorems, TLAPS

-----------------------------------------------------------------------------
(* Types *)

Args == Rooms \cup Services \cup {None}
Items == {"gen", "msg", 1, 2} \cup ConnTypes

FrameKinds == {"flapver", "name", "snaclogin", "xorlogin", "cookie", "versions", "reqrates",
               "rateack", "reqrights", "clientready", "service", "join", "im", "pauseack"}
MsgKinds == {"key", "authresp", "hostonline", "hostversions", "rateresp", "bosrights",
             "redirect", "pause", "migrate", "close"}

Frames == [k : FrameKinds, id : 0 .. MaxIds, list : Seq(Items), arg : Args]
Msgs == [k : MsgKinds, id : 0 .. MaxIds, arg : Args, ok : BOOLEAN]

Connections ==
    [type : ConnTypes, groups : Seq(Items), rates : Seq(Items), name : Rooms \cup {None},
     done : BOOLEAN, in : Seq(Msgs), sent : Seq(Frames), got : Nat, paused : BOOLEAN,
     closed : BOOLEAN, asked : Args]

\* A request is for a room or a service, and so is the redirect that answers it.
FrameRight(f) == /\ f.k = "service" => f.arg \in Services
                 /\ f.k = "join" => f.arg \in Rooms
MsgRight(m) == m.k = "redirect" => m.arg \in Services \cup Rooms
ArgsRight(x) ==
    /\ x.got <= Len(x.sent)
    /\ \A i \in 1 .. Len(x.sent) : FrameRight(x.sent[i])
    /\ \A p \in 1 .. Len(x.in) : MsgRight(x.in[p])

IsAFun(f) == f = [d \in DOMAIN f |-> f[d]]

\* The types of all the fields.
TypeInv ==
    /\ TypeOK
    /\ IsAFun(conns)
    /\ \A c \in DOMAIN conns : conns[c] \in Connections /\ ArgsRight(conns[c])

-----------------------------------------------------------------------------
(* What a step does to one connection *)

\* The first message of x is handled, with these frames as the response.
Handled(x, frames) == [x EXCEPT !.in = Tail(@), !.sent = @ \o frames]

Requests(x, y) ==
    /\ x.type = "bos" \/ Contains(x.groups, "msg")
    /\ \E f \in Frames : /\ \/ f.k = "service" /\ f.arg \in Services
                            \/ f.k = "join" /\ f.arg \in Rooms /\ [id |-> f.id, room |-> f.arg] \in snacs'
                            \/ f.k = "im"
                         /\ f.id = nextid /\ nextid' = nextid + 1
                         /\ y = [x EXCEPT !.sent = Append(@, f)]

\* What the handlers make of a connection they do not kill.
KeyStep(x, y) == Head(x.in).k = "key" /\ y = Handled(x, <<LoginFrame(flags)>>)
QuietStep(x, y) == Head(x.in).k \in {"close", "redirect"} /\ y = Handled(x, <<>>)
OnlineStep(x, y) ==
    /\ Head(x.in).k = "hostonline"
    /\ LET groups == Reverse(HostGroups(x.type)) \o x.groups
       IN  y = [Handled(x, <<[Frame("versions") EXCEPT !.list = groups]>>) EXCEPT !.groups = groups]
VersionsStep(x, y) == Head(x.in).k = "hostversions" /\ y = Handled(x, <<Frame("reqrates")>>)
RatesStep(x, y) ==
    /\ Head(x.in).k = "rateresp"
    /\ LET rates == x.rates \o HostRates
           then  == IF x.type = "bos" THEN Frame("reqrights") ELSE Frame("clientready")
       IN  y = [Handled(x, <<[Frame("rateack") EXCEPT !.list = rates], then>>)
                   EXCEPT !.rates = rates, !.done = TRUE]
RightsStep(x, y) == Head(x.in).k = "bosrights" /\ y = Handled(x, <<Frame("clientready")>>)
PauseStep(x, y) ==
    /\ Head(x.in).k = "pause"
    /\ y = Handled(x, <<[Frame("pauseack") EXCEPT !.list = x.groups]>>)

Handles(x, y) ==
    /\ x.in # <<>>
    /\ \/ KeyStep(x, y) \/ QuietStep(x, y) \/ OnlineStep(x, y) \/ VersionsStep(x, y)
       \/ RatesStep(x, y) \/ RightsStep(x, y) \/ PauseStep(x, y)

\* What the servers do to it.
Reads(x, y) ==
    /\ x.got < Len(x.sent)
    /\ \E in \in {<<>>} \cup {<<m>> : m \in Answers(x.sent[x.got + 1])} :
          y = [x EXCEPT !.got = @ + 1, !.in = @ \o in]
Pauses(x, y) ==
    /\ x.type = "bos" /\ x.done
    /\ y = [x EXCEPT !.paused = TRUE, !.in = Append(@, Msg("pause"))]
Closes(x, y) ==
    /\ x.type # "auth"
    /\ y = [x EXCEPT !.closed = TRUE, !.in = Append(@, Msg("close"))]

Moves(x, y) == Requests(x, y) \/ Handles(x, y) \/ Reads(x, y) \/ Pauses(x, y) \/ Closes(x, y)

\* A new connection: to the authorizer, or to a host it shows a cookie.
ToAuth(z) == \E frames \in {<<Frame("xorlogin")>>, <<Frame("snaclogin")>>, <<Frame("flapver"), Frame("name")>>} :
                z = [Conn("auth", None) EXCEPT !.sent = frames]
HostTypes == {"bos", "chat"} \cup Services
Host(type, name, asked) == [Conn(type, asked) EXCEPT !.name = name, !.sent = <<Frame("cookie")>>]
ToHost(z) == \E type \in HostTypes, name \in Rooms \cup {None}, asked \in Args : z = Host(type, name, asked)

\* c's connection becomes y, and the others stay.
Turns(old, new, c, y) ==
    /\ IsAFun(new) /\ DOMAIN new = DOMAIN old
    /\ new[c] = y
    /\ \A d \in DOMAIN old \ {c} : new[d] = old[d]

LEMMA RespondTurns ==
    ASSUME IsAFun(conns), NEW c \in DOMAIN conns, NEW frames
    PROVE  Turns(conns, Respond(c, frames), c, Handled(conns[c], frames))
  <1> DEFINE in == Tail(conns[c].in)
             sent == conns[c].sent \o frames
  <1>1. Respond(c, frames) = [conns EXCEPT ![c].in = in, ![c].sent = sent]
    BY DEF Respond
  <1>2. Handled(conns[c], frames) = [conns[c] EXCEPT !.in = in, !.sent = sent]
    BY DEF Handled
  <1> HIDE DEF in, sent
  <1> QED
    BY <1>1, <1>2 DEF Turns, IsAFun

LEMMA GroupsTurn ==
    ASSUME NEW old, NEW mid, NEW c \in DOMAIN old, NEW y, Turns(old, mid, c, y), NEW groups
    PROVE  Turns(old, [mid EXCEPT ![c].groups = groups], c, [y EXCEPT !.groups = groups])
  BY DEF Turns, IsAFun

LEMMA RatesTurn ==
    ASSUME NEW old, NEW mid, NEW c \in DOMAIN old, NEW y, Turns(old, mid, c, y), NEW rates
    PROVE  Turns(old, [mid EXCEPT ![c].rates = rates, ![c].done = TRUE],
                 c, [y EXCEPT !.rates = rates, !.done = TRUE])
  BY DEF Turns, IsAFun

LEMMA SentTurns ==
    ASSUME IsAFun(conns), NEW c \in DOMAIN conns, NEW f
    PROVE  Turns(conns, [conns EXCEPT ![c].sent = Append(@, f)],
                 c, [conns[c] EXCEPT !.sent = Append(@, f)])
  <1> DEFINE sent == Append(conns[c].sent, f)
  <1>1. [conns EXCEPT ![c].sent = Append(@, f)] = [conns EXCEPT ![c].sent = sent]
    OBVIOUS
  <1>2. [conns[c] EXCEPT !.sent = Append(@, f)] = [conns[c] EXCEPT !.sent = sent]
    OBVIOUS
  <1> HIDE DEF sent
  <1> QED
    BY <1>1, <1>2 DEF Turns, IsAFun

LEMMA InTurns ==
    ASSUME IsAFun(conns), NEW c \in DOMAIN conns, NEW more
    PROVE  /\ Turns(conns, [conns EXCEPT ![c].got = @ + 1, ![c].in = @ \o more],
                    c, [conns[c] EXCEPT !.got = @ + 1, !.in = @ \o more])
           /\ Turns(conns, [conns EXCEPT ![c].paused = TRUE, ![c].in = Append(@, more)],
                    c, [conns[c] EXCEPT !.paused = TRUE, !.in = Append(@, more)])
           /\ Turns(conns, [conns EXCEPT ![c].closed = TRUE, ![c].in = Append(@, more)],
                    c, [conns[c] EXCEPT !.closed = TRUE, !.in = Append(@, more)])
  <1> DEFINE got == conns[c].got + 1
             in  == conns[c].in \o more
             app == Append(conns[c].in, more)
  <1>1. /\ [conns EXCEPT ![c].got = @ + 1, ![c].in = @ \o more] = [conns EXCEPT ![c].got = got, ![c].in = in]
        /\ [conns[c] EXCEPT !.got = @ + 1, !.in = @ \o more] = [conns[c] EXCEPT !.got = got, !.in = in]
    OBVIOUS
  <1>2. /\ [conns EXCEPT ![c].paused = TRUE, ![c].in = Append(@, more)] = [conns EXCEPT ![c].paused = TRUE, ![c].in = app]
        /\ [conns[c] EXCEPT !.paused = TRUE, !.in = Append(@, more)] = [conns[c] EXCEPT !.paused = TRUE, !.in = app]
    OBVIOUS
  <1>3. /\ [conns EXCEPT ![c].closed = TRUE, ![c].in = Append(@, more)] = [conns EXCEPT ![c].closed = TRUE, ![c].in = app]
        /\ [conns[c] EXCEPT !.closed = TRUE, !.in = Append(@, more)] = [conns[c] EXCEPT !.closed = TRUE, !.in = app]
    OBVIOUS
  <1> HIDE DEF got, in, app
  <1>4. Turns(conns, [conns EXCEPT ![c].got = got, ![c].in = in], c, [conns[c] EXCEPT !.got = got, !.in = in])
    BY DEF Turns, IsAFun
  <1>5. Turns(conns, [conns EXCEPT ![c].paused = TRUE, ![c].in = app], c, [conns[c] EXCEPT !.paused = TRUE, !.in = app])
    BY DEF Turns, IsAFun
  <1>6. Turns(conns, [conns EXCEPT ![c].closed = TRUE, ![c].in = app], c, [conns[c] EXCEPT !.closed = TRUE, !.in = app])
    BY DEF Turns, IsAFun
  <1> QED
    BY <1>1, <1>2, <1>3, <1>4, <1>5, <1>6

\* From old to new, this connection to a host may be added.
Opened(old, new, host) ==
    /\ IsAFun(new)
    /\ \/ new = old
       \/ /\ DOMAIN new = DOMAIN old \cup {nconns + 1}
          /\ \A d \in DOMAIN old : new[d] = old[d]
          /\ new[nconns + 1] = host
          /\ nconns < MaxConns /\ nconns' = nconns + 1

LEMMA KillIs ==
    ASSUME NEW c \in DOMAIN conns
    PROVE  /\ IsAFun(Kill(c)) /\ DOMAIN Kill(c) = DOMAIN conns \ {c}
           /\ \A d \in DOMAIN conns \ {c} : Kill(c)[d] = conns[d]
  BY DEF Kill, IsAFun

LEMMA OpensIs ==
    ASSUME NEW cs, IsAFun(cs), nconns + 1 \notin DOMAIN cs, NEW type, NEW name, NEW asked,
           Opens(cs, [Conn(type, asked) EXCEPT !.name = name])
    PROVE  Opened(cs, conns', Host(type, name, asked))
  <1> DEFINE new == [[Conn(type, asked) EXCEPT !.name = name] EXCEPT !.sent = <<Frame("cookie")>>]
  <1>1. CASE conns' = cs
    BY <1>1 DEF Opened
  <1>2. CASE conns' = Add(cs, new) /\ nconns < MaxConns /\ nconns' = nconns + 1
    <2>1. new = Host(type, name, asked)
      BY DEF Conn, Host
    <2> HIDE DEF new
    <2> QED
      BY <1>2, <2>1 DEF Opened, Add, IsAFun
  <1> QED
    BY <1>1, <1>2 DEF Opens

\* How each connection comes out of a step.
Shape ==
    /\ IsAFun(conns')
    /\ \/ DOMAIN conns' \subseteq DOMAIN conns
       \/ /\ DOMAIN conns' \subseteq DOMAIN conns \cup {nconns + 1}
          /\ nconns < MaxConns /\ nconns' = nconns + 1
    /\ \A d \in DOMAIN conns' :
          IF d \in DOMAIN conns THEN conns'[d] = conns[d] \/ Moves(conns[d], conns'[d])
                                ELSE ToHost(conns'[d]) \/ ToAuth(conns'[d])
    /\ \A d, e \in DOMAIN conns \cap DOMAIN conns' : conns'[d] # conns[d] /\ conns'[e] # conns[e] => d = e

LEMMA TurnShape ==
    ASSUME NEW c \in DOMAIN conns, NEW y, Turns(conns, conns', c, y), Moves(conns[c], y)
    PROVE  Shape
  BY DEF Turns, Shape

LEMMA HeadTyped ==
    ASSUME NEW x \in Connections, x.in # <<>>
    PROVE  /\ Head(x.in) \in Msgs /\ Head(x.in) = x.in[1] /\ Len(x.in) >= 1
           /\ Tail(x.in) \in Seq(Msgs) /\ Len(Tail(x.in)) = Len(x.in) - 1
           /\ \A p \in 1 .. Len(Tail(x.in)) : Tail(x.in)[p] = x.in[p + 1]
  <1>1. x.in \in Seq(Msgs)
    BY DEF Connections
  <1> QED
    BY <1>1, HeadTailProperties, EmptySeq

LEMMA NoItems == <<>> \in Seq(Items)
  BY EmptySeq

LEMMA FrameTyped ==
    ASSUME NEW k \in FrameKinds
    PROVE  /\ Frame(k) \in Frames /\ Frame(k).k = k
           /\ \A l \in Seq(Items) : /\ [Frame(k) EXCEPT !.list = l] \in Frames
                                   /\ [Frame(k) EXCEPT !.list = l].k = k
                                   /\ [Frame(k) EXCEPT !.list = l].list = l
  <1>1. 0 \in 0 .. MaxIds
    BY LoginAssumption
  <1>2. None \in Args
    BY DEF Args
  <1> QED
    BY <1>1, <1>2, NoItems DEF Frame, Frames

LEMMA RequestShape ==
    ASSUME TypeInv, NEW c \in DOMAIN conns,
           \/ \E s \in Services : aim_reqservice(c, s)
           \/ \E r \in Rooms : aim_chat_join(c, r)
    PROVE  Shape
  <1>1. IsAFun(conns) /\ nextid \in 1 .. MaxIds + 1 /\ MaxIds \in Nat
    BY LoginAssumption DEF TypeInv, TypeOK
  <1>2. ASSUME NEW s \in Services, aim_reqservice(c, s)
        PROVE  Shape
    <2> DEFINE f == [Frame("service") EXCEPT !.id = nextid, !.arg = s]
               y == [conns[c] EXCEPT !.sent = Append(@, f)]
    <2>1. nextid \in 0 .. MaxIds
      <3>1. nextid <= MaxIds
        BY <1>2 DEF aim_reqservice, CacheSnac
      <3> QED
        BY <1>1, <3>1
    <2>2. f \in Frames /\ f.k = "service" /\ f.arg = s /\ f.id = nextid
      <3>1. s \in Args /\ "service" \in FrameKinds
        BY DEF Args, FrameKinds
      <3> QED
        BY <2>1, <3>1, NoItems DEF Frame, Frames
    <2>3. conns' = [conns EXCEPT ![c].sent = Append(@, f)] /\ conns[c].type = "bos" /\ nextid' = nextid + 1
      BY <1>2 DEF aim_reqservice, Asks, CacheSnac
    <2> HIDE DEF f
    <2>4. Turns(conns, conns', c, y)
      BY <1>1, <2>3, SentTurns
    <2>5. Moves(conns[c], y)
      BY <2>2, <2>3 DEF Moves, Requests
    <2> QED
      BY <2>4, <2>5, TurnShape
  <1>3. ASSUME NEW r \in Rooms, aim_chat_join(c, r)
        PROVE  Shape
    <2> DEFINE f == [Frame("join") EXCEPT !.id = nextid, !.arg = r]
               y == [conns[c] EXCEPT !.sent = Append(@, f)]
    <2>1. nextid \in 0 .. MaxIds
      <3>1. nextid <= MaxIds
        BY <1>3 DEF aim_chat_join, CacheSnac
      <3> QED
        BY <1>1, <3>1
    <2>2. f \in Frames /\ f.k = "join" /\ f.arg = r /\ f.id = nextid
      <3>1. r \in Args /\ "join" \in FrameKinds
        BY DEF Args, FrameKinds
      <3> QED
        BY <2>1, <3>1, NoItems DEF Frame, Frames
    <2>3. /\ conns' = [conns EXCEPT ![c].sent = Append(@, f)] /\ conns[c].type = "bos"
          /\ nextid' = nextid + 1 /\ [id |-> nextid, room |-> r] \in snacs'
      BY <1>3 DEF aim_chat_join, Asks, CacheSnac
    <2> HIDE DEF f
    <2>4. Turns(conns, conns', c, y)
      BY <1>1, <2>3, SentTurns
    <2>5. Moves(conns[c], y)
      BY <2>2, <2>3 DEF Moves, Requests
    <2> QED
      BY <2>4, <2>5, TurnShape
  <1> QED
    BY <1>2, <1>3

LEMMA ImShape ==
    ASSUME TypeInv, NEW forgotten \in 0 .. MaxIds, aim_send_im_ext(forgotten)
    PROVE  Shape
  <1> DEFINE f == [Frame("im") EXCEPT !.id = nextid]
  <1>1. PICK c \in aim_conn_findbygroup("msg") : conns' = [conns EXCEPT ![c].sent = Append(@, f)]
    BY DEF aim_send_im_ext, Asks
  <1>2. c \in DOMAIN conns /\ Contains(conns[c].groups, "msg")
    BY <1>1 DEF aim_conn_findbygroup
  <1> DEFINE y == [conns[c] EXCEPT !.sent = Append(@, f)]
  <1>3. IsAFun(conns) /\ nextid \in 0 .. MaxIds /\ nextid' = nextid + 1
    BY LoginAssumption DEF TypeInv, TypeOK, aim_send_im_ext
  <1>4. f \in Frames /\ f.k = "im" /\ f.id = nextid
    <2>1. None \in Args /\ "im" \in FrameKinds
      BY DEF Args, FrameKinds
    <2> QED
      BY <1>3, <2>1, NoItems DEF Frame, Frames
  <1> HIDE DEF f
  <1>5. Turns(conns, conns', c, y)
    BY <1>1, <1>2, <1>3, SentTurns
  <1>6. Moves(conns[c], y)
    BY <1>2, <1>3, <1>4 DEF Moves, Requests
  <1> QED
    BY <1>2, <1>5, <1>6, TurnShape

\* A handler that answers with these frames and changes nothing else.
LEMMA ReplyShape ==
    ASSUME IsAFun(conns), NEW c \in DOMAIN conns, NEW frames, conns' = Respond(c, frames),
           Moves(conns[c], Handled(conns[c], frames))
    PROVE  Shape
  BY RespondTurns, TurnShape

LEMMA KillShape ==
    ASSUME NEW c \in DOMAIN conns, conns' = Kill(c)
    PROVE  Shape
  BY KillIs DEF Shape

\* The client comes from c's connection to one to a BOS.
LEMMA KillOpens ==
    ASSUME TypeInv, NEW c \in DOMAIN conns, Opens(Kill(c), Conn("bos", None))
    PROVE  Shape /\ Opened(Kill(c), conns', Host("bos", None, None))
  <1>1. Conn("bos", None) = [Conn("bos", None) EXCEPT !.name = None]
    BY DEF Conn, None
  <1>2. nconns + 1 \notin DOMAIN conns
    BY DEF TypeInv, TypeOK
  <1>3. Opened(Kill(c), conns', Host("bos", None, None))
    <2>1. Opens(Kill(c), [Conn("bos", None) EXCEPT !.name = None])
      BY <1>1
    <2>2. nconns + 1 \notin DOMAIN Kill(c) /\ IsAFun(Kill(c))
      BY <1>2, KillIs
    <2> QED
      BY <2>1, <2>2, OpensIs
  <1>4. ToHost(Host("bos", None, None))
    BY DEF ToHost, HostTypes, Args
  <1> QED
    BY <1>2, <1>3, <1>4, KillIs DEF Opened, Shape

\* What redirect opens: the service, or the chat with the remembered room.
RedirectHost(m) ==
    LET orig == Remembered(m.id)
        type == IF m.arg \in Rooms THEN "chat" ELSE m.arg
        room == IF type = "chat" /\ orig # {} THEN (CHOOSE s \in orig : TRUE).room ELSE None
    IN  Host(type, room, m.arg)

LEMMA RedirectIs ==
    ASSUME TypeInv, NEW c \in DOMAIN conns, redirect(c)
    PROVE  LET m == Head(conns[c].in)
           IN  /\ conns[c].in # <<>> /\ m.k = "redirect" /\ m.arg \in Services \cup Rooms
               /\ ToHost(RedirectHost(m))
               /\ Turns(conns, Respond(c, <<>>), c, Handled(conns[c], <<>>))
               /\ Opened(Respond(c, <<>>), conns', RedirectHost(m))
  <1> DEFINE x    == conns[c]
             m    == Head(x.in)
             orig == Remembered(m.id)
             type == IF m.arg \in Rooms THEN "chat" ELSE m.arg
             room == IF type = "chat" /\ orig # {} THEN (CHOOSE s \in orig : TRUE).room ELSE None
  <1>0. IsAFun(conns) /\ x \in Connections
    BY DEF TypeInv
  <1>1. x.in # <<>> /\ m.k = "redirect"
    BY DEF redirect, Gets
  <1>2. Opens(Respond(c, <<>>), [Conn(type, m.arg) EXCEPT !.name = room])
    BY Zenon DEF redirect
  <1>3. m.arg \in Services \cup Rooms
    BY <1>0, <1>1, HeadTyped DEF TypeInv, ArgsRight, MsgRight
  <1>4. type \in HostTypes /\ m.arg \in Args
    BY <1>3 DEF HostTypes, Args
  <1>5. room \in Rooms \cup {None}
    <2>1. \A s \in orig : s.room \in Rooms \cup {None}
      BY DEF Remembered, TypeInv, TypeOK
    <2> QED
      BY <2>1
  <1>6. RedirectHost(m) = Host(type, room, m.arg)
    BY Zenon DEF RedirectHost
  <1>7. Turns(conns, Respond(c, <<>>), c, Handled(x, <<>>))
    BY <1>0, RespondTurns
  <1>8. nconns + 1 \notin DOMAIN conns
    BY DEF TypeInv, TypeOK
  <1> HIDE DEF type, room
  <1>9. Opened(Respond(c, <<>>), conns', Host(type, room, m.arg))
    BY <1>2, <1>7, <1>8, OpensIs DEF Turns
  <1>10. ToHost(Host(type, room, m.arg))
    BY <1>4, <1>5 DEF ToHost
  <1> QED
    BY <1>1, <1>3, <1>6, <1>7, <1>9, <1>10

LEMMA HandleShape ==
    ASSUME TypeInv, NEW c \in DOMAIN conns, Handle(c)
    PROVE  Shape
  <1> DEFINE x == conns[c]
  <1>0. IsAFun(conns) /\ x \in Connections
    BY DEF TypeInv
  <1>1. CASE keyparse(c)
    <2>1. x.in # <<>> /\ Head(x.in).k = "key" /\ conns' = Respond(c, <<LoginFrame(flags)>>)
      BY <1>1 DEF keyparse, Gets
    <2>2. Moves(x, Handled(x, <<LoginFrame(flags)>>))
      BY <2>1 DEF Moves, Handles, KeyStep
    <2> QED
      BY <1>0, <2>1, <2>2, ReplyShape
  <1>2. CASE parse(c)
    BY <1>2, KillShape, KillOpens DEF parse
  <1>3. CASE negchan_middle(c)
    <2>1. x.in # <<>> /\ Head(x.in).k = "close"
      BY <1>3 DEF negchan_middle, Gets
    <2>2. Moves(x, Handled(x, <<>>))
      BY <2>1 DEF Moves, Handles, QuietStep
    <2>3. conns' = Kill(c) \/ conns' = Respond(c, <<>>)
      BY <1>3 DEF negchan_middle
    <2> QED
      BY <1>0, <2>2, <2>3, ReplyShape, KillShape
  <1>4. CASE hostonline(c)
    <2> DEFINE groups == Reverse(HostGroups(x.type)) \o x.groups
               frames == <<[Frame("versions") EXCEPT !.list = groups]>>
               y == [Handled(x, frames) EXCEPT !.groups = groups]
    <2>1. x.in # <<>> /\ Head(x.in).k = "hostonline"
      BY <1>4 DEF hostonline, Gets
    <2>2. conns' = [Respond(c, frames) EXCEPT ![c].groups = groups]
      BY <1>4, Zenon DEF hostonline
    <2>3. Moves(x, y)
      BY <2>1 DEF Moves, Handles, OnlineStep
    <2> HIDE DEF groups, frames
    <2>4. Turns(conns, conns', c, y)
      BY <1>0, <2>2, RespondTurns, GroupsTurn
    <2> QED
      BY <2>3, <2>4, TurnShape
  <1>5. CASE hostversions(c)
    <2>1. x.in # <<>> /\ Head(x.in).k = "hostversions" /\ conns' = Respond(c, <<Frame("reqrates")>>)
      BY <1>5 DEF hostversions, Gets
    <2>2. Moves(x, Handled(x, <<Frame("reqrates")>>))
      BY <2>1 DEF Moves, Handles, VersionsStep
    <2> QED
      BY <1>0, <2>1, <2>2, ReplyShape
  <1>6. CASE rateresp(c)
    <2> DEFINE rates == x.rates \o HostRates
               then == IF x.type = "bos" THEN Frame("reqrights") ELSE Frame("clientready")
               frames == <<[Frame("rateack") EXCEPT !.list = rates], then>>
               y == [Handled(x, frames) EXCEPT !.rates = rates, !.done = TRUE]
    <2>1. x.in # <<>> /\ Head(x.in).k = "rateresp"
      BY <1>6 DEF rateresp, Gets
    <2>2. conns' = [Respond(c, frames) EXCEPT ![c].rates = rates, ![c].done = TRUE]
      BY <1>6, Zenon DEF rateresp
    <2>3. Moves(x, y)
      BY <2>1 DEF Moves, Handles, RatesStep
    <2> HIDE DEF rates, frames
    <2>4. Turns(conns, conns', c, y)
      BY <1>0, <2>2, RespondTurns, RatesTurn
    <2> QED
      BY <2>3, <2>4, TurnShape
  <1>7. CASE bosrights(c)
    <2>1. x.in # <<>> /\ Head(x.in).k = "bosrights" /\ conns' = Respond(c, <<Frame("clientready")>>)
      BY <1>7 DEF bosrights, Gets
    <2>2. Moves(x, Handled(x, <<Frame("clientready")>>))
      BY <2>1 DEF Moves, Handles, RightsStep
    <2> QED
      BY <1>0, <2>1, <2>2, ReplyShape
  <1>8. CASE serverpause(c)
    <2> DEFINE frames == <<[Frame("pauseack") EXCEPT !.list = x.groups]>>
    <2>1. x.in # <<>> /\ Head(x.in).k = "pause" /\ conns' = Respond(c, frames)
      BY <1>8 DEF serverpause, Gets
    <2>2. Moves(x, Handled(x, frames))
      BY <2>1 DEF Moves, Handles, PauseStep
    <2> QED
      BY <1>0, <2>1, <2>2, ReplyShape
  <1>9. CASE migrate(c)
    BY <1>9, KillOpens DEF migrate
  <1>10. CASE redirect(c)
    <2> DEFINE host == RedirectHost(Head(x.in))
    <2>1. /\ x.in # <<>> /\ Head(x.in).k = "redirect" /\ ToHost(host)
          /\ Turns(conns, Respond(c, <<>>), c, Handled(x, <<>>))
          /\ Opened(Respond(c, <<>>), conns', host)
      BY <1>10, RedirectIs
    <2>2. nconns + 1 \notin DOMAIN conns
      BY DEF TypeInv, TypeOK
    <2>3. Moves(x, Handled(x, <<>>))
      BY <2>1 DEF Moves, Handles, QuietStep
    <2> HIDE DEF host
    <2> QED
      BY <2>1, <2>2, <2>3 DEF Opened, Turns, Shape
  <1> QED
    BY <1>1, <1>2, <1>3, <1>4, <1>5, <1>6, <1>7, <1>8, <1>9, <1>10 DEF Handle

LEMMA ServerShape ==
    ASSUME TypeInv, NEW c \in DOMAIN conns, ServerReads(c) \/ ServerPauses(c) \/ ServerCloses(c)
    PROVE  Shape
  <1> DEFINE x == conns[c]
  <1>0. IsAFun(conns) /\ x \in Connections /\ ArgsRight(x)
    BY DEF TypeInv
  <1>1. CASE ServerReads(c)
    <2> DEFINE answers == Answers(x.sent[x.got + 1])
    <2>1. x.got < Len(x.sent)
      BY <1>1 DEF ServerReads
    <2>2. PICK in \in IF answers = {} THEN {<<>>} ELSE {<<m>> : m \in answers} :
             conns' = [conns EXCEPT ![c].got = @ + 1, ![c].in = @ \o in]
      BY <1>1 DEF ServerReads
    <2>3. in \in {<<>>} \cup {<<m>> : m \in answers}
      BY <2>2
    <2> HIDE DEF answers
    <2>4. Turns(conns, conns', c, [x EXCEPT !.got = @ + 1, !.in = @ \o in])
      BY <1>0, <2>2, InTurns
    <2>5. Moves(x, [x EXCEPT !.got = @ + 1, !.in = @ \o in])
      BY <2>1, <2>3 DEF Moves, Reads, answers
    <2> QED
      BY <2>4, <2>5, TurnShape
  <1>2. CASE ServerPauses(c)
    <2>1. Turns(conns, conns', c, [x EXCEPT !.paused = TRUE, !.in = Append(@, Msg("pause"))])
      BY <1>0, <1>2, InTurns DEF ServerPauses
    <2>2. Moves(x, [x EXCEPT !.paused = TRUE, !.in = Append(@, Msg("pause"))])
      BY <1>2 DEF ServerPauses, Moves, Pauses
    <2> QED
      BY <2>1, <2>2, TurnShape
  <1>3. CASE ServerCloses(c)
    <2>1. Turns(conns, conns', c, [x EXCEPT !.closed = TRUE, !.in = Append(@, Msg("close"))])
      BY <1>0, <1>3, InTurns DEF ServerCloses
    <2>2. Moves(x, [x EXCEPT !.closed = TRUE, !.in = Append(@, Msg("close"))])
      BY <1>3 DEF ServerCloses, Moves, Closes
    <2> QED
      BY <2>1, <2>2, TurnShape
  <1> QED
    BY <1>1, <1>2, <1>3

LEMMA LoginShape ==
    ASSUME TypeInv, NEW acct \in Accounts, login(acct)
    PROVE  Shape /\ DOMAIN conns = {} /\ \A d \in DOMAIN conns' : ToAuth(conns'[d])
  <1>1. PICK frames : /\ frames = IF acct = "icq" THEN <<LoginFrame(flags')>>
                                  ELSE <<Frame("flapver"), Frame("name")>>
                      /\ conns' = Add(conns, [Conn("auth", None) EXCEPT !.sent = frames])
    BY Zenon DEF login
  <1>2. frames \in {<<Frame("xorlogin")>>, <<Frame("snaclogin")>>, <<Frame("flapver"), Frame("name")>>}
    BY <1>1 DEF LoginFrame
  <1>3. ToAuth([Conn("auth", None) EXCEPT !.sent = frames])
    BY <1>2 DEF ToAuth
  <1>4. DOMAIN conns = {}
    BY DEF login
  <1> DEFINE z == [Conn("auth", None) EXCEPT !.sent = frames]
  <1> HIDE DEF z
  <1>5. /\ IsAFun(conns') /\ \A d \in DOMAIN conns' : conns'[d] = z
        /\ DOMAIN conns' \subseteq {nconns + 1}
    BY <1>1, <1>4 DEF Add, IsAFun, z
  <1>6. nconns < MaxConns /\ nconns' = nconns + 1
    BY DEF login
  <1> QED
    BY <1>3, <1>4, <1>5, <1>6 DEF Shape, z

LEMMA StepShape ==
    ASSUME TypeInv, Next
    PROVE  Shape
  <1>1. CASE aim_logoff \/ logout
    BY <1>1 DEF aim_logoff, logout, Shape, IsAFun
  <1>2. CASE \E c \in DOMAIN conns : Handle(c)
    BY <1>2, HandleShape
  <1>3. CASE \E c \in DOMAIN conns : ServerReads(c) \/ ServerPauses(c) \/ ServerCloses(c)
    BY <1>3, ServerShape
  <1>4. CASE \E c \in DOMAIN conns : ConnLost(c)
    BY <1>4, KillShape DEF ConnLost
  <1>5. CASE \E c \in DOMAIN conns : \/ \E s \in Services : aim_reqservice(c, s)
                                     \/ \E r \in Rooms : aim_chat_join(c, r)
    BY <1>5, RequestShape
  <1>6. CASE \E forgotten \in 0 .. MaxIds : aim_send_im_ext(forgotten)
    BY <1>6, ImShape
  <1>7. CASE \E acct \in Accounts : login(acct)
    BY <1>7, LoginShape
  <1> QED
    BY <1>1, <1>2, <1>3, <1>4, <1>5, <1>6, <1>7 DEF Next

-----------------------------------------------------------------------------
(* Type correctness *)

\* What appending does, element by element.
LEMMA Joined ==
    ASSUME NEW S, NEW s \in Seq(S), NEW t \in Seq(S)
    PROVE  /\ s \o t \in Seq(S) /\ Len(s \o t) = Len(s) + Len(t)
           /\ \A i \in 1 .. Len(s) : (s \o t)[i] = s[i]
           /\ \A i \in 1 .. Len(t) : (s \o t)[Len(s) + i] = t[i]
           /\ Len(s) \in Nat /\ Len(t) \in Nat
           /\ \A i \in 1 .. Len(s \o t) : i \in 1 .. Len(s) \/ i - Len(s) \in 1 .. Len(t)
           /\ \A i \in 1 .. Len(s \o t) : i \notin 1 .. Len(s) => (s \o t)[i] = t[i - Len(s)]
  <1>1. Len(s) \in Nat /\ Len(t) \in Nat
    BY LenProperties
  <1> QED
    BY <1>1, ConcatProperties

LEMMA Singly ==
    ASSUME NEW S, NEW a \in S
    PROVE  <<a>> \in Seq(S) /\ Len(<<a>>) = 1 /\ <<a>>[1] = a
  OBVIOUS

LEMMA Doubly ==
    ASSUME NEW S, NEW a \in S, NEW b \in S
    PROVE  <<a, b>> \in Seq(S) /\ Len(<<a, b>>) = 2 /\ <<a, b>>[1] = a /\ <<a, b>>[2] = b
  OBVIOUS

LEMMA Appended ==
    ASSUME NEW S, NEW s \in Seq(S), NEW a \in S
    PROVE  Append(s, a) = s \o <<a>>
  OBVIOUS

\* A move takes the first message or none, sends frames, and receives messages; the
\* identity of the connection stays.
Same(x, y) == y.type = x.type /\ y.name = x.name /\ y.asked = x.asked
Takes(x, y, frames) ==
    /\ Same(x, y) /\ y.got = x.got
    /\ x.in # <<>> /\ y.in = Tail(x.in)
    /\ frames \in Seq(Frames) /\ y.sent = x.sent \o frames
Sends(x, y, f) ==
    /\ Same(x, y) /\ y.got = x.got /\ y.in = x.in
    /\ f \in Frames /\ y.sent = x.sent \o <<f>>
Receives(x, y, msgs) ==
    /\ Same(x, y) /\ y.sent = x.sent
    /\ msgs \in Seq(Msgs) /\ y.in = x.in \o msgs

LEMMA HandledTakes ==
    ASSUME NEW x \in Connections, x.in # <<>>, NEW frames \in Seq(Frames),
           NEW y, y = Handled(x, frames)
    PROVE  /\ y \in Connections /\ Takes(x, y, frames)
           /\ y.groups = x.groups /\ y.rates = x.rates /\ y.done = x.done
  <1> DEFINE in == Tail(x.in)
             sent == x.sent \o frames
  <1>1. y = [x EXCEPT !.in = in, !.sent = sent]
    BY DEF Handled
  <1>2. in \in Seq(Msgs) /\ sent \in Seq(Frames)
    BY HeadTyped, Joined DEF Connections
  <1> HIDE DEF in, sent
  <1>3. /\ y \in Connections /\ y.in = in /\ y.sent = sent /\ Same(x, y) /\ y.got = x.got
        /\ y.groups = x.groups /\ y.rates = x.rates /\ y.done = x.done
    BY <1>1, <1>2 DEF Connections, Same
  <1> QED
    BY <1>3 DEF Takes, in, sent

LEMMA GroupsField ==
    ASSUME NEW x \in Connections, NEW y, NEW frames, y \in Connections, Takes(x, y, frames),
           NEW groups \in Seq(Items), NEW z, z = [y EXCEPT !.groups = groups]
    PROVE  /\ z \in Connections /\ Takes(x, z, frames)
           /\ z.groups = groups /\ z.rates = y.rates /\ z.done = y.done
  <1>1. /\ z \in Connections /\ z.in = y.in /\ z.sent = y.sent /\ Same(y, z) /\ z.got = y.got
        /\ z.groups = groups /\ z.rates = y.rates /\ z.done = y.done
    BY DEF Connections, Same
  <1> QED
    BY <1>1 DEF Takes, Same

LEMMA HostGroupsAre ==
    ASSUME NEW type \in ConnTypes
    PROVE  /\ HostGroups(type) \in Seq(Items) /\ Len(HostGroups(type)) = 2
           /\ HostGroups(type)[1] = "gen"
           /\ HostGroups(type)[2] = (IF type = "bos" THEN "msg" ELSE type)
           /\ Reverse(HostGroups(type)) \in Seq(Items) /\ Len(Reverse(HostGroups(type))) = 2
           /\ Reverse(HostGroups(type))[1] = HostGroups(type)[2]
           /\ Reverse(HostGroups(type))[2] = HostGroups(type)[1]
  <1>1. type \in Items /\ "gen" \in Items /\ "msg" \in Items
    BY DEF Items
  <1>2. /\ HostGroups(type) \in Seq(Items) /\ Len(HostGroups(type)) = 2
        /\ HostGroups(type)[1] = "gen"
        /\ HostGroups(type)[2] = (IF type = "bos" THEN "msg" ELSE type)
    BY <1>1, Doubly DEF HostGroups
  <1> DEFINE l == HostGroups(type)
  <1>3. Reverse(l) = [i \in 1 .. Len(l) |-> l[(Len(l) - i) + 1]]
    BY DEF Reverse
  <1> HIDE DEF l
  <1>4. Reverse(l) = [i \in 1 .. 2 |-> l[(2 - i) + 1]] /\ \A i \in 1 .. 2 : l[i] \in Items
    BY <1>1, <1>2, <1>3, ElementOfSeq DEF l
  <1>5. Reverse(l) \in [1 .. 2 -> Items] /\ Reverse(l)[1] = l[2] /\ Reverse(l)[2] = l[1]
    <2> DEFINE r == [i \in 1 .. 2 |-> l[(2 - i) + 1]]
    <2>1. \A i \in 1 .. 2 : (2 - i) + 1 \in 1 .. 2
      OBVIOUS
    <2>2. r \in [1 .. 2 -> Items]
      BY <1>4, <2>1
    <2>3. r[1] = l[2] /\ r[2] = l[1]
      OBVIOUS
    <2> QED
      BY <1>4, <2>2, <2>3
  <1>6. Reverse(l) \in Seq(Items) /\ Len(Reverse(l)) = 2
    <2> HIDE DEF l
    <2> DEFINE r == Reverse(l)
    <2>1. r \in [1 .. 2 -> Items]
      BY <1>5
    <2> HIDE DEF r
    <2>2. r \in Seq(Items)
      BY <2>1, SeqDef
    <2>3. DOMAIN r = 1 .. 2 /\ DOMAIN r = 1 .. Len(r) /\ Len(r) \in Nat
      BY <2>1, <2>2, LenProperties
    <2>4. Len(r) = 2
      BY <2>3
    <2> QED
      BY <2>2, <2>4 DEF r
  <1> QED
    BY <1>2, <1>5, <1>6 DEF l

LEMMA HostRatesAre == HostRates \in Seq(Items) /\ Len(HostRates) = 2 /\ HostRates[1] = 1 /\ HostRates[2] = 2
  <1>1. 1 \in Items /\ 2 \in Items
    BY DEF Items
  <1> QED
    BY <1>1, Doubly DEF HostRates

LEMMA FrameKind ==
    ASSUME NEW k \in FrameKinds
    PROVE  Frame(k) \in Frames /\ Frame(k).k = k
  BY FrameTyped

LEMMA MsgKind ==
    ASSUME NEW k \in MsgKinds
    PROVE  Msg(k) \in Msgs /\ Msg(k).k = k
  <1>1. 0 \in 0 .. MaxIds /\ None \in Args
    BY LoginAssumption DEF Args
  <1> QED
    BY <1>1 DEF Msg, Msgs

Kept(x, y) == y.groups = x.groups /\ y.rates = x.rates /\ y.done = x.done

\* What sending one frame and nothing else comes to.
LEMMA ReplyEffect ==
    ASSUME NEW x \in Connections, x.in # <<>>, NEW f \in Frames, NEW y, y = Handled(x, <<f>>)
    PROVE  y \in Connections /\ Takes(x, y, <<f>>) /\ Kept(x, y)
  <1>1. <<f>> \in Seq(Frames)
    BY Singly
  <1> QED
    BY <1>1, HandledTakes DEF Kept

LEMMA QuietEffect ==
    ASSUME NEW x \in Connections, x.in # <<>>, NEW y, QuietStep(x, y)
    PROVE  y \in Connections /\ Takes(x, y, <<>>) /\ Kept(x, y)
  <1>1. <<>> \in Seq(Frames)
    BY EmptySeq
  <1> QED
    BY <1>1, HandledTakes DEF Kept, QuietStep

LEMMA LoginFrameIs ==
    /\ LoginFrame(flags) \in Frames
    /\ LoginFrame(flags).k = IF "XORLOGIN" \in flags THEN "xorlogin" ELSE "snaclogin"
  <1>1. "xorlogin" \in FrameKinds /\ "snaclogin" \in FrameKinds
    BY DEF FrameKinds
  <1> QED
    BY <1>1, FrameKind DEF LoginFrame

LEMMA KeyEffect ==
    ASSUME NEW x \in Connections, x.in # <<>>, NEW y, KeyStep(x, y)
    PROVE  \E f \in Frames : /\ f.k = IF "XORLOGIN" \in flags THEN "xorlogin" ELSE "snaclogin"
                             /\ y \in Connections /\ Takes(x, y, <<f>>) /\ Kept(x, y)
  BY LoginFrameIs, ReplyEffect DEF KeyStep

LEMMA OnlineEffect ==
    ASSUME NEW x \in Connections, x.in # <<>>, NEW y, OnlineStep(x, y)
    PROVE  \E f \in Frames :
              /\ f.k = "versions" /\ f.list = Reverse(HostGroups(x.type)) \o x.groups
              /\ y \in Connections /\ Takes(x, y, <<f>>)
              /\ y.groups = f.list /\ y.rates = x.rates /\ y.done = x.done
  <1> DEFINE groups == Reverse(HostGroups(x.type)) \o x.groups
             f == [Frame("versions") EXCEPT !.list = groups]
  <1>1. y = [Handled(x, <<f>>) EXCEPT !.groups = groups]
    BY DEF OnlineStep
  <1>2. x.type \in ConnTypes /\ x.groups \in Seq(Items) /\ "versions" \in FrameKinds
    BY DEF Connections, FrameKinds
  <1>3. groups \in Seq(Items)
    BY <1>2, HostGroupsAre, Joined
  <1> HIDE DEF groups
  <1>4. f \in Frames /\ f.k = "versions" /\ f.list = groups
    BY <1>2, <1>3, FrameTyped, Zenon
  <1> HIDE DEF f
  <1>5. /\ Handled(x, <<f>>) \in Connections /\ Takes(x, Handled(x, <<f>>), <<f>>)
        /\ Kept(x, Handled(x, <<f>>))
    BY <1>4, ReplyEffect
  <1>6. /\ y \in Connections /\ Takes(x, y, <<f>>)
        /\ y.groups = groups /\ y.rates = x.rates /\ y.done = x.done
    BY <1>1, <1>3, <1>5, GroupsField DEF Kept
  <1> QED
    BY <1>4, <1>6 DEF groups

LEMMA VersionsEffect ==
    ASSUME NEW x \in Connections, x.in # <<>>, NEW y, VersionsStep(x, y)
    PROVE  \E f \in Frames : /\ f.k = "reqrates"
                             /\ y \in Connections /\ Takes(x, y, <<f>>) /\ Kept(x, y)
  <1>1. "reqrates" \in FrameKinds
    BY DEF FrameKinds
  <1> QED
    BY <1>1, FrameKind, ReplyEffect DEF VersionsStep

LEMMA RightsEffect ==
    ASSUME NEW x \in Connections, x.in # <<>>, NEW y, RightsStep(x, y)
    PROVE  \E f \in Frames : /\ f.k = "clientready"
                             /\ y \in Connections /\ Takes(x, y, <<f>>) /\ Kept(x, y)
  <1>1. "clientready" \in FrameKinds
    BY DEF FrameKinds
  <1> QED
    BY <1>1, FrameKind, ReplyEffect DEF RightsStep

LEMMA PauseEffect ==
    ASSUME NEW x \in Connections, x.in # <<>>, NEW y, PauseStep(x, y)
    PROVE  \E f \in Frames : /\ f.k = "pauseack" /\ f.list = x.groups
                             /\ y \in Connections /\ Takes(x, y, <<f>>) /\ Kept(x, y)
  <1>1. "pauseack" \in FrameKinds /\ x.groups \in Seq(Items)
    BY DEF FrameKinds, Connections
  <1> DEFINE f == [Frame("pauseack") EXCEPT !.list = x.groups]
  <1>2. f \in Frames /\ f.k = "pauseack" /\ f.list = x.groups
    BY <1>1, FrameTyped, Zenon
  <1>3. y = Handled(x, <<f>>)
    BY DEF PauseStep
  <1> HIDE DEF f
  <1> QED
    BY <1>2, <1>3, ReplyEffect

LEMMA RatesEffect ==
    ASSUME NEW x \in Connections, x.in # <<>>, NEW y, RatesStep(x, y)
    PROVE  \E f \in Frames, g \in Frames :
              /\ f.k = "rateack" /\ f.list = x.rates \o HostRates
              /\ g.k = (IF x.type = "bos" THEN "reqrights" ELSE "clientready")
              /\ y \in Connections /\ Takes(x, y, <<f, g>>)
              /\ y.groups = x.groups /\ y.rates = f.list /\ y.done = TRUE
  <1> DEFINE rates == x.rates \o HostRates
             f == [Frame("rateack") EXCEPT !.list = rates]
             g == IF x.type = "bos" THEN Frame("reqrights") ELSE Frame("clientready")
  <1>1. y = [Handled(x, <<f, g>>) EXCEPT !.rates = rates, !.done = TRUE]
    BY DEF RatesStep
  <1>2. x.rates \in Seq(Items) /\ "rateack" \in FrameKinds
    BY DEF Connections, FrameKinds
  <1>3. rates \in Seq(Items)
    BY <1>2, HostRatesAre, Joined
  <1> HIDE DEF rates
  <1>4. f \in Frames /\ f.k = "rateack" /\ f.list = rates
    BY <1>2, <1>3, FrameTyped, Zenon
  <1>5. "reqrights" \in FrameKinds /\ "clientready" \in FrameKinds
    BY DEF FrameKinds
  <1>6. g \in Frames /\ g.k = (IF x.type = "bos" THEN "reqrights" ELSE "clientready")
    BY <1>5, FrameKind
  <1> HIDE DEF f, g
  <1>7. <<f, g>> \in Seq(Frames)
    BY <1>4, <1>6, Doubly
  <1>8. /\ Handled(x, <<f, g>>) \in Connections /\ Takes(x, Handled(x, <<f, g>>), <<f, g>>)
        /\ Kept(x, Handled(x, <<f, g>>))
    BY <1>7, HandledTakes DEF Kept
  <1>9. /\ y \in Connections /\ Takes(x, y, <<f, g>>)
        /\ y.groups = x.groups /\ y.rates = rates /\ y.done = TRUE
    <2> DEFINE h == Handled(x, <<f, g>>)
    <2>1. h \in Connections /\ Takes(x, h, <<f, g>>) /\ h.groups = x.groups
      BY <1>8 DEF Kept
    <2>2. y = [h EXCEPT !.rates = rates, !.done = TRUE]
      BY <1>1
    <2> HIDE DEF h
    <2> QED
      <3>1. /\ y \in Connections /\ y.in = h.in /\ y.sent = h.sent /\ Same(h, y) /\ y.got = h.got
            /\ y.groups = h.groups /\ y.rates = rates /\ y.done = TRUE
        BY <1>3, <2>1, <2>2 DEF Connections, Same
      <3> QED
        BY <2>1, <3>1 DEF Takes, Same
  <1> QED
    BY <1>4, <1>6, <1>9 DEF rates

LEMMA RequestEffect ==
    ASSUME NEW x \in Connections, NEW y, Requests(x, y)
    PROVE  /\ x.type = "bos" \/ Contains(x.groups, "msg")
           /\ \E f \in Frames :
                 /\ \/ f.k = "service" /\ f.arg \in Services
                    \/ f.k = "join" /\ f.arg \in Rooms /\ [id |-> f.id, room |-> f.arg] \in snacs'
                    \/ f.k = "im"
                 /\ f.id = nextid /\ nextid' = nextid + 1
                 /\ y \in Connections /\ Sends(x, y, f) /\ Kept(x, y)
  <1>1. PICK f \in Frames : /\ \/ f.k = "service" /\ f.arg \in Services
                               \/ f.k = "join" /\ f.arg \in Rooms /\ [id |-> f.id, room |-> f.arg] \in snacs'
                               \/ f.k = "im"
                            /\ f.id = nextid /\ nextid' = nextid + 1
                            /\ y = [x EXCEPT !.sent = Append(@, f)]
    BY DEF Requests
  <1> DEFINE sent == x.sent \o <<f>>
  <1>2. Append(x.sent, f) = sent /\ sent \in Seq(Frames)
    BY Singly, Joined, Appended DEF Connections
  <1>3. y = [x EXCEPT !.sent = sent]
    BY <1>1, <1>2
  <1> HIDE DEF sent
  <1>4. /\ y \in Connections /\ Same(x, y) /\ y.got = x.got /\ y.in = x.in /\ y.sent = sent
        /\ Kept(x, y)
    BY <1>2, <1>3 DEF Connections, Same, Kept
  <1>5. Sends(x, y, f)
    BY <1>4 DEF Sends, sent
  <1> QED
    BY <1>1, <1>4, <1>5 DEF Requests

\* Which answer belongs to which frame.
LEMMA AnswerKind ==
    ASSUME NEW f \in Frames, NEW m \in Answers(f)
    PROVE  /\ m \in Msgs
           /\ m.k = "hostonline" => f.k = "cookie"
           /\ m.k = "hostversions" => f.k = "versions"
           /\ m.k = "rateresp" => f.k = "reqrates"
           /\ m.k = "bosrights" => f.k = "reqrights"
           /\ m.k = "migrate" => f.k = "pauseack"
           /\ m.k = "redirect" => f.k \in {"service", "join"} /\ m.id = f.id /\ m.arg = f.arg
           /\ m.k \in {"key", "authresp"} => f.k \in {"name", "snaclogin", "xorlogin"}
           /\ m.k \notin {"pause", "close"}
  <1>1. /\ 0 \in 0 .. MaxIds /\ None \in Args /\ f.id \in 0 .. MaxIds /\ f.arg \in Args
        /\ \A k \in {"key", "authresp", "hostonline", "hostversions", "rateresp", "bosrights",
                   "redirect", "migrate"} : k \in MsgKinds
    BY LoginAssumption DEF Args, Frames, MsgKinds
  <1>2. CASE f.k = "name"
    <2>1. m = Msg("key") \/ m = [Msg("authresp") EXCEPT !.ok = FALSE]
      BY <1>2 DEF Answers
    <2>2. CASE m = Msg("key")
      BY <1>1, <1>2, <2>2 DEF Msg, Msgs
    <2>3. CASE m = [Msg("authresp") EXCEPT !.ok = FALSE]
      <3>1. m = [k |-> "authresp", id |-> 0, arg |-> None, ok |-> FALSE]
        BY <2>3 DEF Msg
      <3> QED
        BY <1>1, <1>2, <3>1 DEF Msgs
    <2> QED
      BY <2>1, <2>2, <2>3
  <1>3. CASE f.k \in {"snaclogin", "xorlogin"}
    <2>1. m = Msg("authresp") \/ m = [Msg("authresp") EXCEPT !.ok = FALSE]
      BY <1>3 DEF Answers
    <2>2. CASE m = Msg("authresp")
      BY <1>1, <1>3, <2>2 DEF Msg, Msgs
    <2>3. CASE m = [Msg("authresp") EXCEPT !.ok = FALSE]
      <3>1. m = [k |-> "authresp", id |-> 0, arg |-> None, ok |-> FALSE]
        BY <2>3 DEF Msg
      <3> QED
        BY <1>1, <1>3, <3>1 DEF Msgs
    <2> QED
      BY <2>1, <2>2, <2>3
  <1>4. CASE f.k = "cookie"
    <2>1. m = Msg("hostonline")
      BY <1>4 DEF Answers
    <2> QED
      BY <1>1, <1>4, <2>1 DEF Msg, Msgs
  <1>5. CASE f.k = "versions"
    <2>1. m = Msg("hostversions")
      BY <1>5 DEF Answers
    <2> QED
      BY <1>1, <1>5, <2>1 DEF Msg, Msgs
  <1>6. CASE f.k = "reqrates"
    <2>1. m = Msg("rateresp")
      BY <1>6 DEF Answers
    <2> QED
      BY <1>1, <1>6, <2>1 DEF Msg, Msgs
  <1>7. CASE f.k = "reqrights"
    <2>1. m = Msg("bosrights")
      BY <1>7 DEF Answers
    <2> QED
      BY <1>1, <1>7, <2>1 DEF Msg, Msgs
  <1>8. CASE f.k \in {"service", "join"}
    <2>1. m = [Msg("redirect") EXCEPT !.id = f.id, !.arg = f.arg]
      BY <1>8 DEF Answers
    <2> QED
      BY <1>1, <1>8, <2>1 DEF Msg, Msgs
  <1>9. CASE f.k = "pauseack"
    <2>1. m = Msg("migrate")
      BY <1>9 DEF Answers
    <2> QED
      BY <1>1, <1>9, <2>1 DEF Msg, Msgs
  <1>10. CASE f.k \notin {"name", "snaclogin", "xorlogin", "cookie", "versions", "reqrates",
                          "reqrights", "service", "join", "pauseack"}
    BY <1>10 DEF Answers
  <1> QED
    BY <1>2, <1>3, <1>4, <1>5, <1>6, <1>7, <1>8, <1>9, <1>10

LEMMA ReadEffect ==
    ASSUME NEW x \in Connections, NEW y, Reads(x, y)
    PROVE  /\ y \in Connections /\ Kept(x, y) /\ x.got < Len(x.sent) /\ y.got = x.got + 1
           /\ x.sent[x.got + 1] \in Frames
           /\ \/ Receives(x, y, <<>>)
              \/ \E m \in Answers(x.sent[x.got + 1]) : Receives(x, y, <<m>>)
  <1>1. PICK in \in {<<>>} \cup {<<m>> : m \in Answers(x.sent[x.got + 1])} :
           y = [x EXCEPT !.got = @ + 1, !.in = @ \o in]
    BY DEF Reads
  <1>2. /\ x.got \in Nat /\ x.sent \in Seq(Frames) /\ x.in \in Seq(Msgs) /\ x.got < Len(x.sent)
        /\ Len(x.sent) \in Nat
    BY LenProperties DEF Connections, Reads
  <1>3. x.sent[x.got + 1] \in Frames
    <2>1. x.got + 1 \in 1 .. Len(x.sent)
      BY <1>2
    <2> QED
      BY <1>2, <2>1, ElementOfSeq
  <1>4. in \in Seq(Msgs)
    <2>1. <<>> \in Seq(Msgs)
      BY EmptySeq
    <2>2. \A m \in Answers(x.sent[x.got + 1]) : <<m>> \in Seq(Msgs)
      BY <1>3, AnswerKind, Singly
    <2> QED
      BY <2>1, <2>2
  <1> DEFINE got == x.got + 1
             news == x.in \o in
  <1>5. y = [x EXCEPT !.got = got, !.in = news]
    BY <1>1
  <1>6. got \in Nat /\ news \in Seq(Msgs)
    BY <1>2, <1>4, Joined
  <1> HIDE DEF got, news
  <1>7. /\ y \in Connections /\ y.got = got /\ y.in = news /\ y.sent = x.sent /\ Same(x, y)
        /\ Kept(x, y)
    BY <1>5, <1>6 DEF Connections, Same, Kept
  <1>8. Receives(x, y, in) /\ y.got = x.got + 1
    BY <1>4, <1>7 DEF Receives, got, news
  <1> QED
    BY <1>1, <1>2, <1>3, <1>7, <1>8

LEMMA NewsEffect ==
    ASSUME NEW x \in Connections, NEW y, Pauses(x, y) \/ Closes(x, y)
    PROVE  /\ y \in Connections /\ Kept(x, y) /\ y.got = x.got
           /\ \E m \in Msgs : /\ Receives(x, y, <<m>>)
                              /\ \/ m.k = "pause" /\ x.type = "bos" /\ x.done
                                 \/ m.k = "close" /\ x.type # "auth"
  <1>1. "pause" \in MsgKinds /\ "close" \in MsgKinds /\ x.in \in Seq(Msgs)
    BY DEF MsgKinds, Connections
  <1>2. /\ Msg("pause") \in Msgs /\ Msg("close") \in Msgs
        /\ Msg("pause").k = "pause" /\ Msg("close").k = "close"
    BY <1>1, MsgKind
  <1>3. CASE Pauses(x, y)
    <2> DEFINE news == x.in \o <<Msg("pause")>>
    <2>1. Append(x.in, Msg("pause")) = news /\ news \in Seq(Msgs) /\ <<Msg("pause")>> \in Seq(Msgs)
      BY <1>1, <1>2, Singly, Joined, Appended
    <2>2. y = [x EXCEPT !.paused = TRUE, !.in = news]
      BY <1>3, <2>1 DEF Pauses
    <2> HIDE DEF news
    <2>3. /\ y \in Connections /\ y.got = x.got /\ y.in = news /\ y.sent = x.sent /\ Same(x, y)
          /\ Kept(x, y)
      BY <2>1, <2>2 DEF Connections, Same, Kept
    <2>4. Receives(x, y, <<Msg("pause")>>)
      BY <2>1, <2>3 DEF Receives, news
    <2> QED
      BY <1>2, <1>3, <2>3, <2>4 DEF Pauses
  <1>4. CASE Closes(x, y)
    <2> DEFINE news == x.in \o <<Msg("close")>>
    <2>1. Append(x.in, Msg("close")) = news /\ news \in Seq(Msgs) /\ <<Msg("close")>> \in Seq(Msgs)
      BY <1>1, <1>2, Singly, Joined, Appended
    <2>2. y = [x EXCEPT !.closed = TRUE, !.in = news]
      BY <1>4, <2>1 DEF Closes
    <2> HIDE DEF news
    <2>3. /\ y \in Connections /\ y.got = x.got /\ y.in = news /\ y.sent = x.sent /\ Same(x, y)
          /\ Kept(x, y)
      BY <2>1, <2>2 DEF Connections, Same, Kept
    <2>4. Receives(x, y, <<Msg("close")>>)
      BY <2>1, <2>3 DEF Receives, news
    <2> QED
      BY <1>2, <1>4, <2>3, <2>4 DEF Closes
  <1> QED
    BY <1>3, <1>4

\* The sequences of a connection, element by element.
LEMMA Elements ==
    ASSUME NEW x \in Connections
    PROVE  /\ x.sent \in Seq(Frames) /\ Len(x.sent) \in Nat
           /\ \A i \in 1 .. Len(x.sent) : x.sent[i] \in Frames
           /\ x.in \in Seq(Msgs) /\ Len(x.in) \in Nat
           /\ \A p \in 1 .. Len(x.in) : x.in[p] \in Msgs
           /\ x.got \in Nat
  <1>1. x.sent \in Seq(Frames) /\ x.in \in Seq(Msgs) /\ x.got \in Nat
    BY DEF Connections
  <1> QED
    BY <1>1, LenProperties, ElementOfSeq

LEMMA TakesElements ==
    ASSUME NEW x \in Connections, NEW y, NEW frames, Takes(x, y, frames)
    PROVE  /\ Len(y.sent) = Len(x.sent) + Len(frames) /\ Len(frames) \in Nat
           /\ \A i \in 1 .. Len(x.sent) : y.sent[i] = x.sent[i]
           /\ \A i \in 1 .. Len(frames) : y.sent[Len(x.sent) + i] = frames[i]
           /\ \A i \in 1 .. Len(y.sent) :
                 i \notin 1 .. Len(x.sent) => /\ i - Len(x.sent) \in 1 .. Len(frames)
                                              /\ y.sent[i] = frames[i - Len(x.sent)]
           /\ Len(x.in) >= 1 /\ Head(x.in) = x.in[1]
           /\ Len(y.in) = Len(x.in) - 1
           /\ \A p \in 1 .. Len(y.in) : p + 1 \in 1 .. Len(x.in) /\ y.in[p] = x.in[p + 1]
  <1>1. x.in # <<>> /\ y.in = Tail(x.in) /\ frames \in Seq(Frames) /\ y.sent = x.sent \o frames
    BY DEF Takes
  <1>2. x.sent \in Seq(Frames) /\ Len(x.in) \in Nat
    BY Elements
  <1>3. /\ Len(y.sent) = Len(x.sent) + Len(frames) /\ Len(frames) \in Nat
        /\ \A i \in 1 .. Len(x.sent) : y.sent[i] = x.sent[i]
        /\ \A i \in 1 .. Len(frames) : y.sent[Len(x.sent) + i] = frames[i]
        /\ \A i \in 1 .. Len(y.sent) :
                 i \notin 1 .. Len(x.sent) => /\ i - Len(x.sent) \in 1 .. Len(frames)
                                              /\ y.sent[i] = frames[i - Len(x.sent)]
    BY <1>1, <1>2, Joined
  <1>4. /\ Len(x.in) >= 1 /\ Head(x.in) = x.in[1]
        /\ Len(y.in) = Len(x.in) - 1
        /\ \A p \in 1 .. Len(y.in) : y.in[p] = x.in[p + 1]
    BY <1>1, HeadTyped
  <1> QED
    BY <1>2, <1>3, <1>4

LEMMA SendsElements ==
    ASSUME NEW x \in Connections, NEW y, NEW f, Sends(x, y, f)
    PROVE  /\ Len(y.sent) = Len(x.sent) + 1
           /\ \A i \in 1 .. Len(x.sent) : y.sent[i] = x.sent[i]
           /\ y.sent[Len(x.sent) + 1] = f
           /\ \A i \in 1 .. Len(y.sent) : i \notin 1 .. Len(x.sent) => i = Len(x.sent) + 1
           /\ y.in = x.in
  <1>1. f \in Frames /\ y.sent = x.sent \o <<f>> /\ x.sent \in Seq(Frames)
    BY Elements DEF Sends
  <1>2. <<f>> \in Seq(Frames) /\ Len(<<f>>) = 1 /\ <<f>>[1] = f
    BY <1>1, Singly
  <1>3. /\ Len(y.sent) = Len(x.sent) + Len(<<f>>)
        /\ \A i \in 1 .. Len(x.sent) : y.sent[i] = x.sent[i]
        /\ \A i \in 1 .. Len(<<f>>) : y.sent[Len(x.sent) + i] = <<f>>[i]
        /\ \A i \in 1 .. Len(y.sent) : i \in 1 .. Len(x.sent) \/ i - Len(x.sent) \in 1 .. Len(<<f>>)
    BY <1>1, <1>2, Joined
  <1>4. Len(x.sent) \in Nat
    BY Elements
  <1> QED
    BY <1>2, <1>3, <1>4 DEF Sends

LEMMA ReceivesElements ==
    ASSUME NEW x \in Connections, NEW y, NEW msgs, Receives(x, y, msgs)
    PROVE  /\ y.sent = x.sent
           /\ Len(y.in) = Len(x.in) + Len(msgs) /\ Len(msgs) \in Nat
           /\ \A p \in 1 .. Len(x.in) : y.in[p] = x.in[p]
           /\ \A p \in 1 .. Len(y.in) :
                 p \notin 1 .. Len(x.in) => /\ p - Len(x.in) \in 1 .. Len(msgs)
                                            /\ y.in[p] = msgs[p - Len(x.in)]
  <1>1. msgs \in Seq(Msgs) /\ y.in = x.in \o msgs /\ x.in \in Seq(Msgs)
    BY Elements DEF Receives
  <1> QED
    BY <1>1, Joined DEF Receives

LEMMA TakesRight ==
    ASSUME NEW x \in Connections, ArgsRight(x), NEW y, NEW frames, Takes(x, y, frames),
           \A i \in 1 .. Len(frames) : FrameRight(frames[i])
    PROVE  ArgsRight(y)
  <1>1. y.got = x.got /\ x.got \in Nat /\ Len(x.sent) \in Nat
    BY Elements DEF Takes
  <1>2. y.got <= Len(y.sent)
    BY <1>1, TakesElements DEF ArgsRight
  <1>3. ASSUME NEW i \in 1 .. Len(y.sent)
        PROVE  FrameRight(y.sent[i])
    <2>1. \/ y.sent[i] = x.sent[i] /\ i \in 1 .. Len(x.sent)
          \/ i - Len(x.sent) \in 1 .. Len(frames) /\ y.sent[i] = frames[i - Len(x.sent)]
      BY TakesElements
    <2> QED
      BY <2>1 DEF ArgsRight
  <1>4. ASSUME NEW p \in 1 .. Len(y.in)
        PROVE  MsgRight(y.in[p])
    BY <1>4, TakesElements DEF ArgsRight
  <1> QED
    BY <1>2, <1>3, <1>4 DEF ArgsRight

LEMMA ReceivesRight ==
    ASSUME NEW x \in Connections, ArgsRight(x), NEW y, NEW msgs, Receives(x, y, msgs),
           y.got = x.got \/ (x.got < Len(x.sent) /\ y.got = x.got + 1),
           \A p \in 1 .. Len(msgs) : MsgRight(msgs[p])
    PROVE  ArgsRight(y)
  <1>1. y.got <= Len(y.sent)
    BY Elements, ReceivesElements DEF ArgsRight
  <1>2. \A i \in 1 .. Len(y.sent) : FrameRight(y.sent[i])
    BY ReceivesElements DEF ArgsRight
  <1>3. ASSUME NEW p \in 1 .. Len(y.in)
        PROVE  MsgRight(y.in[p])
    <2>1. \/ y.in[p] = x.in[p] /\ p \in 1 .. Len(x.in)
          \/ p - Len(x.in) \in 1 .. Len(msgs) /\ y.in[p] = msgs[p - Len(x.in)]
      BY ReceivesElements
    <2> QED
      BY <2>1 DEF ArgsRight
  <1> QED
    BY <1>1, <1>2, <1>3 DEF ArgsRight

LEMMA OneFrame ==
    ASSUME NEW f \in Frames, FrameRight(f)
    PROVE  \A i \in 1 .. Len(<<f>>) : FrameRight(<<f>>[i])
  BY Singly

LEMMA HandlesTyped ==
    ASSUME NEW x \in Connections, ArgsRight(x), NEW y, Handles(x, y)
    PROVE  y \in Connections /\ ArgsRight(y) /\ Same(x, y)
  <1>0. x.in # <<>>
    BY DEF Handles
  <1>a. ASSUME NEW f \in Frames, f.k \notin {"service", "join"}, Takes(x, y, <<f>>)
        PROVE  ArgsRight(y) /\ Same(x, y)
    <2>1. FrameRight(f)
      BY <1>a DEF FrameRight
    <2> QED
      BY <1>a, <2>1, OneFrame, TakesRight DEF Takes
  <1>1. CASE KeyStep(x, y)
    BY <1>0, <1>1, <1>a, KeyEffect
  <1>2. CASE QuietStep(x, y)
    <2>1. \A i \in 1 .. Len(<<>>) : FrameRight(<<>>[i])
      BY EmptySeq
    <2> QED
      BY <1>0, <1>2, <2>1, QuietEffect, TakesRight DEF Takes
  <1>3. CASE OnlineStep(x, y)
    BY <1>0, <1>3, <1>a, OnlineEffect
  <1>4. CASE VersionsStep(x, y)
    BY <1>0, <1>4, <1>a, VersionsEffect
  <1>5. CASE RatesStep(x, y)
    <2>1. PICK f \in Frames, g \in Frames :
              /\ f.k = "rateack" /\ g.k = (IF x.type = "bos" THEN "reqrights" ELSE "clientready")
              /\ y \in Connections /\ Takes(x, y, <<f, g>>)
      BY <1>0, <1>5, RatesEffect
    <2>2. FrameRight(f) /\ FrameRight(g)
      BY <2>1 DEF FrameRight
    <2>3. \A i \in 1 .. Len(<<f, g>>) : FrameRight(<<f, g>>[i])
      BY <2>2, Doubly
    <2> QED
      BY <2>1, <2>3, TakesRight DEF Takes
  <1>6. CASE RightsStep(x, y)
    BY <1>0, <1>6, <1>a, RightsEffect
  <1>7. CASE PauseStep(x, y)
    BY <1>0, <1>7, <1>a, PauseEffect
  <1> QED
    BY <1>1, <1>2, <1>3, <1>4, <1>5, <1>6, <1>7 DEF Handles

LEMMA OneMsg ==
    ASSUME NEW m \in Msgs, MsgRight(m)
    PROVE  \A p \in 1 .. Len(<<m>>) : MsgRight(<<m>>[p])
  BY Singly

LEMMA MovesTyped ==
    ASSUME NEW x \in Connections, ArgsRight(x), NEW y, Moves(x, y)
    PROVE  y \in Connections /\ ArgsRight(y) /\ Same(x, y)
  <1>1. CASE Requests(x, y)
    <2>1. PICK f \in Frames :
                 /\ \/ f.k = "service" /\ f.arg \in Services
                    \/ f.k = "join" /\ f.arg \in Rooms
                    \/ f.k = "im"
                 /\ y \in Connections /\ Sends(x, y, f)
      BY <1>1, RequestEffect
    <2>2. FrameRight(f)
      BY <2>1 DEF FrameRight
    <2>3. \A i \in 1 .. Len(y.sent) : FrameRight(y.sent[i])
      BY <2>1, <2>2, SendsElements DEF ArgsRight
    <2>4. y.got <= Len(y.sent) /\ y.in = x.in
      BY <2>1, Elements, SendsElements DEF ArgsRight, Sends
    <2> QED
      BY <2>1, <2>3, <2>4 DEF ArgsRight, Sends
  <1>2. CASE Handles(x, y)
    BY <1>2, HandlesTyped
  <1>3. CASE Reads(x, y)
    <2>1. /\ y \in Connections /\ x.got < Len(x.sent) /\ y.got = x.got + 1
          /\ \/ Receives(x, y, <<>>)
             \/ \E m \in Answers(x.sent[x.got + 1]) : Receives(x, y, <<m>>)
          /\ x.sent[x.got + 1] \in Frames
      BY <1>3, ReadEffect
    <2>2. CASE Receives(x, y, <<>>)
      <3>1. \A p \in 1 .. Len(<<>>) : MsgRight(<<>>[p])
        BY EmptySeq
      <3> QED
        BY <2>1, <2>2, <3>1, ReceivesRight DEF Receives
    <2>3. ASSUME NEW m \in Answers(x.sent[x.got + 1]), Receives(x, y, <<m>>)
          PROVE  ArgsRight(y) /\ Same(x, y)
      <3>1. FrameRight(x.sent[x.got + 1])
        <4>1. x.got + 1 \in 1 .. Len(x.sent)
          BY <2>1, Elements
        <4> QED
          BY <4>1 DEF ArgsRight
      <3>2. m \in Msgs /\ MsgRight(m)
        BY <2>1, <3>1, AnswerKind DEF MsgRight, FrameRight
      <3> QED
        BY <2>1, <2>3, <3>2, OneMsg, ReceivesRight DEF Receives
    <2> QED
      BY <2>1, <2>2, <2>3
  <1>4. CASE Pauses(x, y) \/ Closes(x, y)
    <2>1. PICK m \in Msgs : m.k \in {"pause", "close"} /\ Receives(x, y, <<m>>)
      BY <1>4, NewsEffect
    <2>2. MsgRight(m)
      BY <2>1 DEF MsgRight
    <2>3. y \in Connections /\ y.got = x.got
      BY <1>4, NewsEffect
    <2>4. \A p \in 1 .. Len(<<m>>) : MsgRight(<<m>>[p])
      BY <2>2, OneMsg
    <2>5. ArgsRight(y)
      <3> DEFINE msgs == <<m>>
      <3>1. Receives(x, y, msgs) /\ \A p \in 1 .. Len(msgs) : MsgRight(msgs[p])
        BY <2>1, <2>4
      <3> HIDE DEF msgs
      <3> QED
        BY <2>3, <3>1, ReceivesRight
    <2> QED
      BY <2>1, <2>3, <2>5 DEF Receives
  <1> QED
    BY <1>1, <1>2, <1>3, <1>4 DEF Moves

LEMMA ToAuthTyped ==
    ASSUME NEW z, ToAuth(z)
    PROVE  /\ z \in Connections /\ ArgsRight(z) /\ z.type = "auth" /\ z.name = None /\ z.asked = None
           /\ z.in = <<>> /\ z.got = 0 /\ z.groups = <<>> /\ z.rates = <<>> /\ ~z.done
           /\ \A i \in 1 .. Len(z.sent) : z.sent[i].k \in {"xorlogin", "snaclogin", "flapver", "name"}
           /\ z.sent \in {<<Frame("xorlogin")>>, <<Frame("snaclogin")>>, <<Frame("flapver"), Frame("name")>>}
  <1>1. PICK frames \in {<<Frame("xorlogin")>>, <<Frame("snaclogin")>>, <<Frame("flapver"), Frame("name")>>} :
            z = [Conn("auth", None) EXCEPT !.sent = frames]
    BY DEF ToAuth
  <1>2. /\ "xorlogin" \in FrameKinds /\ "snaclogin" \in FrameKinds
        /\ "flapver" \in FrameKinds /\ "name" \in FrameKinds
    BY DEF FrameKinds
  <1>3. /\ Frame("xorlogin") \in Frames /\ Frame("xorlogin").k = "xorlogin"
        /\ Frame("snaclogin") \in Frames /\ Frame("snaclogin").k = "snaclogin"
        /\ Frame("flapver") \in Frames /\ Frame("flapver").k = "flapver"
        /\ Frame("name") \in Frames /\ Frame("name").k = "name"
    BY <1>2, FrameKind
  <1>4. /\ frames \in Seq(Frames) /\ Len(frames) \in Nat
        /\ \A i \in 1 .. Len(frames) : frames[i].k \in {"xorlogin", "snaclogin", "flapver", "name"}
    <2>1. CASE frames = <<Frame("xorlogin")>>
      BY <1>3, <2>1, Singly
    <2>2. CASE frames = <<Frame("snaclogin")>>
      BY <1>3, <2>2, Singly
    <2>3. CASE frames = <<Frame("flapver"), Frame("name")>>
      BY <1>3, <2>3, Doubly
    <2> QED
      BY <1>1, <2>1, <2>2, <2>3
  <1>5. "auth" \in ConnTypes /\ None \in Args /\ None \in Rooms \cup {None} /\ <<>> \in Seq(Items)
    BY NoItems DEF ConnTypes, Args
  <1>6. <<>> \in Seq(Msgs) /\ Len(<<>>) = 0
    BY EmptySeq
  <1>7. /\ z \in Connections /\ z.type = "auth" /\ z.name = None /\ z.asked = None
        /\ z.in = <<>> /\ z.got = 0 /\ z.sent = frames
        /\ z.groups = <<>> /\ z.rates = <<>> /\ ~z.done
    BY <1>1, <1>4, <1>5, <1>6 DEF Conn, Connections
  <1>8. ArgsRight(z)
    <2>1. \A i \in 1 .. Len(z.sent) : FrameRight(z.sent[i])
      BY <1>4, <1>7 DEF FrameRight
    <2>2. z.got <= Len(z.sent)
      BY <1>4, <1>7
    <2>3. \A p \in 1 .. Len(z.in) : MsgRight(z.in[p])
      BY <1>6, <1>7
    <2> QED
      BY <2>1, <2>2, <2>3 DEF ArgsRight
  <1> QED
    BY <1>1, <1>4, <1>7, <1>8

LEMMA ToHostTyped ==
    ASSUME NEW z, ToHost(z)
    PROVE  /\ z \in Connections /\ ArgsRight(z) /\ z.type # "auth" /\ z.type \in HostTypes
           /\ z.in = <<>> /\ z.got = 0 /\ z.groups = <<>> /\ z.rates = <<>> /\ ~z.done
           /\ Len(z.sent) = 1 /\ z.sent[1].k = "cookie"
  <1>1. PICK type \in HostTypes, name \in Rooms \cup {None}, asked \in Args : z = Host(type, name, asked)
    BY DEF ToHost
  <1>2. "cookie" \in FrameKinds
    BY DEF FrameKinds
  <1>3. Frame("cookie") \in Frames /\ Frame("cookie").k = "cookie"
    BY <1>2, FrameKind
  <1> DEFINE frames == <<Frame("cookie")>>
  <1>4. frames \in Seq(Frames) /\ Len(frames) = 1 /\ frames[1].k = "cookie"
    BY <1>3, Singly
  <1>5. z = [Conn(type, asked) EXCEPT !.name = name, !.sent = frames]
    BY <1>1 DEF Host
  <1>a. type \in ConnTypes \ {"auth"}
    BY LoginAssumption DEF HostTypes, ConnTypes
  <1> HIDE DEF frames
  <1>6. <<>> \in Seq(Msgs) /\ Len(<<>>) = 0 /\ <<>> \in Seq(Items)
    BY EmptySeq
  <1>7. /\ z \in Connections /\ z.type = type
        /\ z.in = <<>> /\ z.got = 0 /\ z.sent = frames
        /\ z.groups = <<>> /\ z.rates = <<>> /\ ~z.done
    BY <1>4, <1>5, <1>6, <1>a DEF Conn, Connections
  <1>8. ArgsRight(z)
    <2>1. \A i \in 1 .. Len(z.sent) : FrameRight(z.sent[i])
      <3>1. Len(z.sent) = 1 /\ FrameRight(z.sent[1])
        BY <1>4, <1>7 DEF FrameRight
      <3> QED
        BY <3>1
    <2>2. z.got <= Len(z.sent)
      BY <1>4, <1>7
    <2>3. \A p \in 1 .. Len(z.in) : MsgRight(z.in[p])
      BY <1>6, <1>7
    <2> QED
      BY <2>1, <2>2, <2>3 DEF ArgsRight
  <1> QED
    BY <1>4, <1>7, <1>8, <1>a

LEMMA ConnsTyped ==
    ASSUME TypeInv, Shape, NEW d \in DOMAIN conns'
    PROVE  conns'[d] \in Connections /\ ArgsRight(conns'[d])
  <1>1. CASE d \in DOMAIN conns
    BY <1>1, MovesTyped DEF TypeInv, Shape
  <1>2. CASE d \notin DOMAIN conns
    BY <1>2, ToHostTyped, ToAuthTyped DEF Shape
  <1> QED
    BY <1>1, <1>2

LEMMA OpensCounts ==
    ASSUME nconns \in 0 .. MaxConns, NEW cs, NEW conn, Opens(cs, conn)
    PROVE  nconns' \in 0 .. MaxConns /\ nconns' >= nconns
  BY LoginAssumption DEF Opens

LEMMA CacheTyped ==
    ASSUME TypeInv, NEW room \in Rooms \cup {None}, CacheSnac(room)
    PROVE  nextid' \in 1 .. MaxIds + 1 /\ snacs' \subseteq [id : Ids, room : Rooms \cup {None}]
  <1>1. nextid <= MaxIds /\ nextid \in 1 .. MaxIds + 1 /\ MaxIds \in Nat
    BY LoginAssumption DEF CacheSnac, TypeInv, TypeOK
  <1>2. nextid \in Ids /\ nextid + 1 \in 1 .. MaxIds + 1
    BY <1>1 DEF Ids
  <1> QED
    BY <1>2 DEF CacheSnac, TypeInv, TypeOK

\* The types of everything but the connections.
Scalars ==
    /\ flags \subseteq {"SNACLOGIN", "XORLOGIN"}
    /\ sn \in Accounts \cup {None} /\ account \in Accounts \cup {None}
    /\ tried \subseteq Accounts
    /\ nconns \in 0 .. MaxConns /\ nextid \in 1 .. MaxIds + 1
    /\ snacs \subseteq [id : Ids, room : Rooms \cup {None}]

LEMMA ScalarsStep ==
    ASSUME TypeInv, Next
    PROVE  Scalars' /\ nconns' >= nconns
  <1>0. Scalars /\ nconns \in Nat
    BY DEF TypeInv, TypeOK, Scalars
  <1>1. ASSUME NEW acct \in Accounts, login(acct)
        PROVE  Scalars' /\ nconns' >= nconns
    <2>1. flags' \subseteq {"SNACLOGIN", "XORLOGIN"}
      BY <1>0, <1>1 DEF login, RequestFlags, Scalars
    <2>2. nconns' \in 0 .. MaxConns /\ nconns' >= nconns
      BY <1>0, <1>1, LoginAssumption DEF login, Scalars
    <2>3. nextid' \in 1 .. MaxIds + 1
      BY <1>0, <1>1, LoginAssumption DEF login, Scalars
    <2>4. sn' \in Accounts \cup {None} /\ account' \in Accounts \cup {None} /\ tried' \subseteq Accounts
      BY <1>0, <1>1 DEF login, Scalars
    <2>5. snacs' \subseteq [id : Ids, room : Rooms \cup {None}]
      BY <1>0, <1>1 DEF login, Scalars
    <2> QED
      BY <2>1, <2>2, <2>3, <2>4, <2>5 DEF Scalars
  <1>2. CASE aim_logoff
    BY <1>0, <1>2 DEF aim_logoff, userVars, Scalars
  <1>a. CASE logout
    <2>1. /\ flags' = {"SNACLOGIN"} /\ sn' = None /\ account' = None /\ tried' = {}
          /\ snacs' = {} /\ nextid' = 1 /\ nconns' = nconns
      BY <1>a DEF logout
    <2> QED
      BY <1>0, <2>1, LoginAssumption DEF Scalars
  <1>3. ASSUME NEW forgotten \in 0 .. MaxIds, aim_send_im_ext(forgotten)
        PROVE  Scalars' /\ nconns' >= nconns
    <2>1. nextid <= MaxIds /\ nextid \in 1 .. MaxIds + 1 /\ MaxIds \in Nat /\ nextid' = nextid + 1
      BY <1>0, <1>3, LoginAssumption DEF aim_send_im_ext, Scalars
    <2>2. nextid \in Ids /\ nextid' \in 1 .. MaxIds + 1
      BY <2>1 DEF Ids
    <2>3. snacs' \subseteq [id : Ids, room : Rooms \cup {None}]
      BY <1>0, <1>3, <2>2 DEF aim_send_im_ext, Scalars
    <2> QED
      BY <1>0, <1>3, <2>2, <2>3 DEF aim_send_im_ext, userVars, Scalars
  <1>4. ASSUME NEW c \in DOMAIN conns, NEW s \in Services, aim_reqservice(c, s)
        PROVE  Scalars' /\ nconns' >= nconns
    BY <1>0, <1>4, CacheTyped DEF aim_reqservice, userVars, Scalars
  <1>5. ASSUME NEW c \in DOMAIN conns, NEW r \in Rooms, aim_chat_join(c, r)
        PROVE  Scalars' /\ nconns' >= nconns
    BY <1>0, <1>5, CacheTyped DEF aim_chat_join, userVars, Scalars
  <1>6. ASSUME NEW c \in DOMAIN conns, Handle(c)
        PROVE  Scalars' /\ nconns' >= nconns
    <2>1. CASE parse(c) \/ migrate(c)
      <3>1. nconns' \in 0 .. MaxConns /\ nconns' >= nconns
        BY <1>0, <2>1, OpensCounts DEF parse, migrate, Scalars
      <3> QED
        BY <1>0, <2>1, <3>1 DEF parse, migrate, userVars, Scalars
    <2>2. CASE redirect(c)
      <3>1. nconns' \in 0 .. MaxConns /\ nconns' >= nconns
        BY <1>0, <2>2, OpensCounts DEF redirect, Scalars
      <3>2. snacs' \subseteq snacs
        BY <2>2 DEF redirect
      <3> QED
        BY <1>0, <2>2, <3>1, <3>2 DEF redirect, userVars, Scalars
    <2>3. CASE keyparse(c) \/ hostonline(c) \/ hostversions(c) \/ rateresp(c) \/ bosrights(c)
               \/ serverpause(c)
      <3>1. UNCHANGED <<flags, sn, account, tried, nconns, snacs, nextid>>
        BY <2>3, Zenon DEF keyparse, hostonline, hostversions, rateresp, bosrights, serverpause, userVars
      <3> QED
        BY <1>0, <3>1 DEF Scalars
    <2>4. CASE negchan_middle(c)
      <3>1. sn' \in {sn, None} /\ UNCHANGED <<flags, account, tried, nconns, snacs, nextid>>
        BY <2>4 DEF negchan_middle, userVars
      <3> QED
        BY <1>0, <3>1 DEF Scalars
    <2> QED
      BY <1>6, <2>1, <2>2, <2>3, <2>4 DEF Handle
  <1>7. ASSUME NEW c \in DOMAIN conns, ServerReads(c) \/ ServerPauses(c) \/ ServerCloses(c) \/ ConnLost(c)
        PROVE  Scalars' /\ nconns' >= nconns
    <2>1. UNCHANGED <<flags, sn, account, tried, nconns, snacs, nextid>>
      BY <1>7, Zenon DEF ServerReads, ServerPauses, ServerCloses, ConnLost, userVars
    <2> QED
      BY <1>0, <2>1 DEF Scalars
  <1> QED
    BY <1>1, <1>2, <1>3, <1>4, <1>5, <1>6, <1>7, <1>a DEF Next

LEMMA TypeStep ==
    ASSUME TypeInv, [Next]_vars
    PROVE  TypeInv'
  <1>1. CASE UNCHANGED vars
    BY <1>1 DEF vars, userVars, TypeInv, TypeOK, IsAFun
  <1>2. CASE Next
    <2>1. Shape /\ Scalars' /\ nconns' >= nconns /\ nconns \in Nat /\ nconns' \in Nat
      BY <1>2, StepShape, ScalarsStep DEF TypeInv, TypeOK, Scalars
    <2>2. DOMAIN conns' \subseteq 1 .. nconns'
      BY <2>1 DEF Shape, TypeInv, TypeOK
    <2>3. \A d \in DOMAIN conns' : conns'[d] \in Connections /\ ArgsRight(conns'[d])
      BY <2>1, ConnsTyped
    <2>4. ASSUME NEW d \in DOMAIN conns'
          PROVE  /\ conns'[d].type \in ConnTypes
                 /\ conns'[d].name \in Rooms \cup {None}
                 /\ conns'[d].got \in 0 .. Len(conns'[d].sent)
      <3>1. conns'[d] \in Connections /\ ArgsRight(conns'[d])
        BY <2>3
      <3>2. conns'[d].got \in Nat /\ Len(conns'[d].sent) \in Nat
        BY <3>1, Elements
      <3>3. conns'[d].got <= Len(conns'[d].sent)
        BY <3>1 DEF ArgsRight
      <3> QED
        BY <3>1, <3>2, <3>3 DEF Connections
    <2>5. TypeOK'
      BY <2>1, <2>2, <2>4 DEF TypeOK, Scalars
    <2> QED
      BY <2>1, <2>3, <2>5 DEF TypeInv, Shape
  <1> QED
    BY <1>1, <1>2

LEMMA TypeInit == Init => TypeInv
  BY LoginAssumption DEF Init, TypeInv, TypeOK, IsAFun

\* Connections are of known types, ids of requests are real, and no more of what the
\* client sent has been read than there is.
THEOREM TypeCorrect == Spec => []TypeOK
  <1>1. TypeInv => TypeOK
    BY DEF TypeInv
  <1> QED
    BY <1>1, TypeInit, TypeStep, PTL DEF Spec

-----------------------------------------------------------------------------
(* The screen name *)

\* A migration begins with a pause on a BOS connection and ends on it.
BosOnly(x) ==
    x.type # "bos" => /\ \A i \in 1 .. Len(x.sent) : x.sent[i].k # "pauseack"
                      /\ \A p \in 1 .. Len(x.in) : x.in[p].k \notin {"pause", "migrate"}

NameInv ==
    /\ TypeInv
    /\ \A c \in DOMAIN conns : BosOnly(conns[c]) /\ conns[c].type \in HostTypes \cup {"auth"}
    /\ ScreenNameKept

LEMMA BosOnlyTakes ==
    ASSUME NEW x \in Connections, BosOnly(x), NEW y, NEW frames, Takes(x, y, frames),
           x.type # "bos" => \A i \in 1 .. Len(frames) : frames[i].k # "pauseack"
    PROVE  BosOnly(y)
  <1> SUFFICES ASSUME x.type # "bos", y.type # "bos"
               PROVE  /\ \A i \in 1 .. Len(y.sent) : y.sent[i].k # "pauseack"
                      /\ \A p \in 1 .. Len(y.in) : y.in[p].k \notin {"pause", "migrate"}
    BY DEF BosOnly, Takes, Same
  <1>1. ASSUME NEW i \in 1 .. Len(y.sent)
        PROVE  y.sent[i].k # "pauseack"
    <2>1. \/ y.sent[i] = x.sent[i] /\ i \in 1 .. Len(x.sent)
          \/ i - Len(x.sent) \in 1 .. Len(frames) /\ y.sent[i] = frames[i - Len(x.sent)]
      BY TakesElements
    <2> QED
      BY <2>1 DEF BosOnly
  <1>2. ASSUME NEW p \in 1 .. Len(y.in)
        PROVE  y.in[p].k \notin {"pause", "migrate"}
    <2>1. p + 1 \in 1 .. Len(x.in) /\ y.in[p] = x.in[p + 1]
      BY TakesElements
    <2> QED
      BY <2>1 DEF BosOnly
  <1> QED
    BY <1>1, <1>2

LEMMA BosOnlyReceives ==
    ASSUME NEW x \in Connections, BosOnly(x), NEW y, NEW msgs, Receives(x, y, msgs),
           x.type # "bos" => \A p \in 1 .. Len(msgs) : msgs[p].k \notin {"pause", "migrate"}
    PROVE  BosOnly(y)
  <1> SUFFICES ASSUME x.type # "bos", y.type # "bos"
               PROVE  /\ \A i \in 1 .. Len(y.sent) : y.sent[i].k # "pauseack"
                      /\ \A p \in 1 .. Len(y.in) : y.in[p].k \notin {"pause", "migrate"}
    BY DEF BosOnly, Receives, Same
  <1>1. ASSUME NEW p \in 1 .. Len(y.in)
        PROVE  y.in[p].k \notin {"pause", "migrate"}
    <2>1. \/ y.in[p] = x.in[p] /\ p \in 1 .. Len(x.in)
          \/ p - Len(x.in) \in 1 .. Len(msgs) /\ y.in[p] = msgs[p - Len(x.in)]
      BY ReceivesElements
    <2> QED
      BY <2>1 DEF BosOnly
  <1> QED
    BY <1>1, ReceivesElements DEF BosOnly

LEMMA MovesBosOnly ==
    ASSUME NEW x \in Connections, ArgsRight(x), BosOnly(x), NEW y, Moves(x, y)
    PROVE  BosOnly(y)
  <1>a. ASSUME NEW f \in Frames, f.k # "pauseack" \/ x.type = "bos", Takes(x, y, <<f>>)
        PROVE  BosOnly(y)
    <2>1. x.type # "bos" => \A i \in 1 .. Len(<<f>>) : <<f>>[i].k # "pauseack"
      BY <1>a, Singly
    <2> QED
      BY <1>a, <2>1, BosOnlyTakes
  <1>1. CASE Requests(x, y)
    <2>1. PICK f \in Frames : f.k # "pauseack" /\ Sends(x, y, f)
      BY <1>1, RequestEffect
    <2> QED
      BY <2>1, SendsElements DEF BosOnly, Sends, Same
  <1>2. CASE Handles(x, y)
    <2>0. x.in # <<>>
      BY <1>2 DEF Handles
    <2>1. CASE KeyStep(x, y)
      BY <2>0, <2>1, <1>a, KeyEffect
    <2>2. CASE QuietStep(x, y)
      <3>1. \A i \in 1 .. Len(<<>>) : <<>>[i].k # "pauseack"
        BY EmptySeq
      <3>2. Takes(x, y, <<>>)
        BY <2>0, <2>2, QuietEffect
      <3> QED
        BY <3>1, <3>2, BosOnlyTakes
    <2>3. CASE OnlineStep(x, y)
      BY <2>0, <2>3, <1>a, OnlineEffect
    <2>4. CASE VersionsStep(x, y)
      BY <2>0, <2>4, <1>a, VersionsEffect
    <2>5. CASE RatesStep(x, y)
      <3>1. PICK f \in Frames, g \in Frames :
              /\ f.k = "rateack" /\ g.k = (IF x.type = "bos" THEN "reqrights" ELSE "clientready")
              /\ Takes(x, y, <<f, g>>)
        BY <2>0, <2>5, RatesEffect
      <3>2. \A i \in 1 .. Len(<<f, g>>) : <<f, g>>[i].k # "pauseack"
        BY <3>1, Doubly
      <3> QED
        BY <3>1, <3>2, BosOnlyTakes
    <2>6. CASE RightsStep(x, y)
      BY <2>0, <2>6, <1>a, RightsEffect
    <2>7. CASE PauseStep(x, y)
      <3>1. x.in[1].k = "pause" /\ 1 \in 1 .. Len(x.in)
        BY <2>0, <2>7, HeadTyped, Elements DEF PauseStep
      <3>2. x.type = "bos"
        BY <3>1 DEF BosOnly
      <3> QED
        BY <2>0, <2>7, <3>2, <1>a, PauseEffect
    <2> QED
      BY <1>2, <2>1, <2>2, <2>3, <2>4, <2>5, <2>6, <2>7 DEF Handles
  <1>3. CASE Reads(x, y)
    <2>1. /\ x.got < Len(x.sent) /\ x.sent[x.got + 1] \in Frames
          /\ \/ Receives(x, y, <<>>)
             \/ \E m \in Answers(x.sent[x.got + 1]) : Receives(x, y, <<m>>)
      BY <1>3, ReadEffect
    <2>2. CASE Receives(x, y, <<>>)
      <3>1. \A p \in 1 .. Len(<<>>) : <<>>[p].k \notin {"pause", "migrate"}
        BY EmptySeq
      <3> QED
        BY <2>2, <3>1, BosOnlyReceives
    <2>3. ASSUME NEW m \in Answers(x.sent[x.got + 1]), Receives(x, y, <<m>>)
          PROVE  BosOnly(y)
      <3>1. x.got + 1 \in 1 .. Len(x.sent)
        BY <2>1, Elements
      <3>2. m \in Msgs /\ (x.type # "bos" => m.k \notin {"pause", "migrate"})
        BY <2>1, <3>1, AnswerKind DEF BosOnly
      <3>3. x.type # "bos" => \A p \in 1 .. Len(<<m>>) : <<m>>[p].k \notin {"pause", "migrate"}
        BY <3>2, Singly
      <3> QED
        BY <2>3, <3>3, BosOnlyReceives
    <2> QED
      BY <2>1, <2>2, <2>3
  <1>4. CASE Pauses(x, y) \/ Closes(x, y)
    <2>1. PICK m \in Msgs : /\ Receives(x, y, <<m>>)
                            /\ m.k = "close" \/ x.type = "bos"
                            /\ m.k \in {"pause", "close"}
      BY <1>4, NewsEffect
    <2>2. x.type # "bos" => \A p \in 1 .. Len(<<m>>) : <<m>>[p].k \notin {"pause", "migrate"}
      BY <2>1, Singly
    <2> QED
      BY <2>1, <2>2, BosOnlyReceives
  <1> QED
    BY <1>1, <1>2, <1>3, <1>4 DEF Moves

\* Only the handlers connect to hosts.
LEMMA NewByHandler ==
    ASSUME TypeInv, Next, ~(\E acct \in Accounts : login(acct)),
           NEW d \in DOMAIN conns', d \notin DOMAIN conns
    PROVE  \E c \in DOMAIN conns : parse(c) \/ migrate(c) \/ redirect(c)
  <1>2. CASE aim_logoff \/ logout
    BY <1>2 DEF aim_logoff, logout
  <1>3. CASE \E forgotten \in 0 .. MaxIds : aim_send_im_ext(forgotten)
    BY <1>3 DEF aim_send_im_ext, Asks
  <1>4. ASSUME NEW c \in DOMAIN conns, \/ \E s \in Services : aim_reqservice(c, s)
                                       \/ \E r \in Rooms : aim_chat_join(c, r)
        PROVE  FALSE
    BY <1>4 DEF aim_reqservice, aim_chat_join, Asks
  <1>5. ASSUME NEW c \in DOMAIN conns, ServerReads(c) \/ ServerPauses(c) \/ ServerCloses(c) \/ ConnLost(c)
        PROVE  FALSE
    <2>1. DOMAIN conns' \subseteq DOMAIN conns
      BY <1>5, KillIs DEF ServerReads, ServerPauses, ServerCloses, ConnLost
    <2> QED
      BY <2>1
  <1>7. ASSUME NEW c \in DOMAIN conns,
               \/ keyparse(c) \/ hostonline(c) \/ hostversions(c) \/ rateresp(c) \/ bosrights(c)
               \/ serverpause(c) \/ negchan_middle(c)
        PROVE  FALSE
    <2>2. \A frames : DOMAIN Respond(c, frames) = DOMAIN conns
      BY DEF Respond
    <2>3. DOMAIN conns' \subseteq DOMAIN conns
      BY <1>7, <2>2, KillIs DEF keyparse, hostonline, hostversions, rateresp, bosrights, serverpause,
                               negchan_middle
    <2> QED
      BY <2>3
  <1> QED
    BY <1>2, <1>3, <1>4, <1>5, <1>7 DEF Next, Handle

LEMMA NewToHost ==
    ASSUME TypeInv, NEW c \in DOMAIN conns, parse(c) \/ migrate(c) \/ redirect(c),
           NEW d \in DOMAIN conns', d \notin DOMAIN conns
    PROVE  ToHost(conns'[d])
  <1>1. CASE redirect(c)
    <2> DEFINE host == RedirectHost(Head(conns[c].in))
    <2>1. /\ Opened(Respond(c, <<>>), conns', host)
          /\ Turns(conns, Respond(c, <<>>), c, Handled(conns[c], <<>>))
          /\ ToHost(host)
      BY <1>1, RedirectIs
    <2> HIDE DEF host
    <2> QED
      BY <2>1 DEF Opened, Turns
  <1>2. CASE parse(c) \/ migrate(c)
    <2>1. Opens(Kill(c), Conn("bos", None)) \/ conns' = Kill(c)
      BY <1>2 DEF parse, migrate
    <2>2. Opened(Kill(c), conns', Host("bos", None, None))
      BY <2>1, KillIs, KillOpens
    <2>3. ToHost(Host("bos", None, None))
      BY DEF ToHost, HostTypes, Args
    <2> QED
      BY <2>2, <2>3, KillIs DEF Opened
  <1> QED
    BY <1>1, <1>2

\* A connection to a BOS comes from the authorizer or from another BOS.
LEMMA NewBos ==
    ASSUME TypeInv, Next, NEW d \in DOMAIN conns', d \notin DOMAIN conns, conns'[d].type = "bos"
    PROVE  \E c \in DOMAIN conns : parse(c) \/ migrate(c)
  <1>1. CASE \E acct \in Accounts : login(acct)
    BY <1>1, LoginShape, ToAuthTyped
  <1>2. ASSUME NEW c \in DOMAIN conns, redirect(c)
        PROVE  FALSE
    <2> DEFINE host == RedirectHost(Head(conns[c].in))
    <2>1. /\ Opened(Respond(c, <<>>), conns', host)
          /\ Turns(conns, Respond(c, <<>>), c, Handled(conns[c], <<>>))
          /\ Head(conns[c].in).arg \in Services \cup Rooms
      BY <1>2, RedirectIs
    <2>2. host.type # "bos"
      BY <2>1, LoginAssumption DEF RedirectHost, Host, Conn
    <2> HIDE DEF host
    <2> QED
      BY <2>1, <2>2 DEF Opened, Turns
  <1> QED
    BY <1>1, <1>2, NewByHandler

LEMMA NameStep ==
    ASSUME "admin" \notin Services, NameInv, [Next]_vars
    PROVE  NameInv'
  <1>1. CASE UNCHANGED vars
    <2>1. TypeInv'
      BY <1>1, TypeStep DEF NameInv
    <2> QED
      BY <1>1, <2>1 DEF vars, userVars, NameInv, ScreenNameKept, BosOnly
  <1>2. CASE Next
    <2>1. TypeInv /\ TypeInv' /\ Shape
      BY <1>2, TypeStep, StepShape DEF NameInv
    <2>2. ASSUME NEW d \in DOMAIN conns'
          PROVE  BosOnly(conns'[d]) /\ conns'[d].type \in HostTypes \cup {"auth"}
      <3>1. CASE d \in DOMAIN conns
        <4>1. conns[d] \in Connections /\ ArgsRight(conns[d]) /\ BosOnly(conns[d])
              /\ conns[d].type \in HostTypes \cup {"auth"}
          BY <3>1 DEF NameInv, TypeInv
        <4>2. CASE conns'[d] = conns[d]
          BY <4>1, <4>2
        <4>3. CASE Moves(conns[d], conns'[d])
          BY <4>1, <4>3, MovesBosOnly, MovesTyped DEF Same
        <4> QED
          BY <2>1, <3>1, <4>2, <4>3 DEF Shape
      <3>2. CASE d \notin DOMAIN conns /\ ToHost(conns'[d])
        <4>1. /\ conns'[d].in = <<>> /\ Len(conns'[d].sent) = 1 /\ conns'[d].sent[1].k = "cookie"
              /\ conns'[d].type \in HostTypes
          BY <3>2, ToHostTyped
        <4>2. Len(conns'[d].in) = 0
          BY <4>1, EmptySeq
        <4> QED
          BY <4>1, <4>2 DEF BosOnly
      <3>3. CASE d \notin DOMAIN conns /\ ToAuth(conns'[d])
        <4>1. /\ conns'[d].in = <<>> /\ conns'[d].type = "auth"
              /\ \A i \in 1 .. Len(conns'[d].sent) : conns'[d].sent[i].k # "pauseack"
          BY <3>3, ToAuthTyped
        <4>2. Len(conns'[d].in) = 0
          BY <4>1, EmptySeq
        <4> QED
          BY <4>1, <4>2 DEF BosOnly
      <3> QED
        BY <2>1, <3>1, <3>2, <3>3 DEF Shape
    <2>3. ScreenNameKept'
      <3>1. CASE \E acct \in Accounts : login(acct)
        <4>1. \A d \in DOMAIN conns' : conns'[d].type = "auth"
          BY <2>1, <3>1, LoginShape, ToAuthTyped
        <4> QED
          BY <4>1 DEF ScreenNameKept
      <3>2. CASE \E c \in DOMAIN conns : parse(c)
        <4>1. sn' = account'
          BY <3>2 DEF parse, userVars
        <4> QED
          BY <4>1 DEF ScreenNameKept
      <3>a. CASE logout
        <4>1. conns' = [c \in {} |-> None]
          BY <3>a DEF logout
        <4>2. DOMAIN conns' = {}
          BY <4>1
        <4> QED
          BY <4>2 DEF ScreenNameKept
      <3>3. CASE /\ ~(\E acct \in Accounts : login(acct)) /\ ~(\E c \in DOMAIN conns : parse(c))
                 /\ ~logout
        <4>1. account' = account
          BY <1>2, <3>3, Zenon DEF Next, Handle, aim_logoff, aim_send_im_ext, aim_reqservice, aim_chat_join,
            keyparse, negchan_middle, hostonline, hostversions, rateresp, bosrights, redirect,
            serverpause, migrate, ServerReads, ServerPauses, ServerCloses, ConnLost, userVars
        <4>2. ASSUME NEW c \in DOMAIN conns, negchan_middle(c)
              PROVE  sn' = sn
          <5>1. conns[c].type # "admin"
            BY DEF NameInv, HostTypes
          <5> QED
            BY <4>2, <5>1 DEF negchan_middle
        <4>3. sn' = sn
          BY <1>2, <3>3, <4>2, Zenon DEF Next, Handle, aim_logoff, aim_send_im_ext, aim_reqservice, aim_chat_join,
            keyparse, hostonline, hostversions, rateresp, bosrights, redirect,
            serverpause, migrate, ServerReads, ServerPauses, ServerCloses, ConnLost
        <4>4. ASSUME NEW d \in DOMAIN conns', conns'[d].type = "bos"
              PROVE  sn = account
          <5>1. CASE d \in DOMAIN conns
            <6>1. conns[d].type = "bos"
              BY <2>1, <4>4, <5>1, MovesTyped DEF Shape, TypeInv, Same
            <6> QED
              BY <5>1, <6>1 DEF NameInv, ScreenNameKept
          <5>2. CASE d \notin DOMAIN conns
            <6>1. PICK c \in DOMAIN conns : migrate(c)
              BY <1>2, <2>1, <3>3, <4>4, <5>2, NewBos
            <6>2. conns[c].in # <<>> /\ Head(conns[c].in).k = "migrate"
              BY <6>1 DEF migrate, Gets
            <6>3. conns[c].in[1].k = "migrate" /\ 1 \in 1 .. Len(conns[c].in)
              BY <2>1, <6>2, HeadTyped, Elements DEF TypeInv
            <6>4. conns[c].type = "bos"
              BY <6>3 DEF NameInv, BosOnly
            <6> QED
              BY <6>4 DEF NameInv, ScreenNameKept
          <5> QED
            BY <5>1, <5>2
        <4> QED
          BY <4>1, <4>3, <4>4 DEF ScreenNameKept
      <3> QED
        BY <3>1, <3>2, <3>3, <3>a
    <2> QED
      BY <2>1, <2>2, <2>3 DEF NameInv
  <1> QED
    BY <1>1, <1>2

\* As long as a BOS connection lasts, the session knows its screen name (auth.c:397),
\* unless the client also uses the account administration, whose connection is of the
\* authorizer's type: a closing frame there is parsed as a verdict without a name.
THEOREM NameKept == ASSUME "admin" \notin Services PROVE Spec => []ScreenNameKept
  <1>1. Init => NameInv
    BY TypeInit DEF Init, NameInv, ScreenNameKept
  <1>2. NameInv /\ [Next]_vars => NameInv'
    BY NameStep
  <1>3. NameInv => ScreenNameKept
    BY DEF NameInv
  <1> QED
    BY <1>1, <1>2, <1>3, PTL DEF Spec

-----------------------------------------------------------------------------
(* The way of logging in *)

FlagKind == IF "XORLOGIN" \in flags THEN "xorlogin" ELSE "snaclogin"

\* What was sent fits the flags, and these tell whether an ICQ number has been tried.
FitsFlags(x) == \A i \in 1 .. Len(x.sent) : x.sent[i].k \in {"xorlogin", "snaclogin"} =>
                                                x.sent[i].k = FlagKind

FlagsFit == "XORLOGIN" \in flags <=> "icq" \in tried

Fitted == \A c \in DOMAIN conns : FitsFlags(conns[c])

LoginInv ==
    /\ TypeInv
    /\ FlagsFit
    /\ Fitted

LEMMA FitsTakes ==
    ASSUME NEW x \in Connections, FitsFlags(x), NEW y, NEW frames, Takes(x, y, frames),
           \A i \in 1 .. Len(frames) : frames[i].k \in {"xorlogin", "snaclogin"} => frames[i].k = FlagKind
    PROVE  FitsFlags(y)
  <1>1. ASSUME NEW i \in 1 .. Len(y.sent), y.sent[i].k \in {"xorlogin", "snaclogin"}
        PROVE  y.sent[i].k = FlagKind
    <2>1. \/ y.sent[i] = x.sent[i] /\ i \in 1 .. Len(x.sent)
          \/ i - Len(x.sent) \in 1 .. Len(frames) /\ y.sent[i] = frames[i - Len(x.sent)]
      BY TakesElements
    <2> QED
      BY <1>1, <2>1 DEF FitsFlags
  <1> QED
    BY <1>1 DEF FitsFlags

LEMMA MovesFit ==
    ASSUME NEW x \in Connections, FitsFlags(x), NEW y, Moves(x, y)
    PROVE  FitsFlags(y)
  <1>a. ASSUME NEW f \in Frames, Takes(x, y, <<f>>),
               f.k \notin {"xorlogin", "snaclogin"} \/ f.k = FlagKind
        PROVE  FitsFlags(y)
    <2>1. \A i \in 1 .. Len(<<f>>) :
             <<f>>[i].k \in {"xorlogin", "snaclogin"} => <<f>>[i].k = FlagKind
      BY <1>a, Singly
    <2> QED
      BY <1>a, <2>1, FitsTakes
  <1>1. CASE Requests(x, y)
    <2>1. PICK f \in Frames : f.k \notin {"xorlogin", "snaclogin"} /\ Sends(x, y, f)
      BY <1>1, RequestEffect
    <2> QED
      BY <2>1, SendsElements DEF FitsFlags
  <1>2. CASE Handles(x, y)
    <2>0. x.in # <<>>
      BY <1>2 DEF Handles
    <2>1. CASE KeyStep(x, y)
      BY <2>0, <2>1, <1>a, KeyEffect DEF FlagKind
    <2>2. CASE QuietStep(x, y)
      <3>1. \A i \in 1 .. Len(<<>>) :
               <<>>[i].k \in {"xorlogin", "snaclogin"} => <<>>[i].k = FlagKind
        BY EmptySeq
      <3>2. Takes(x, y, <<>>)
        BY <2>0, <2>2, QuietEffect
      <3> QED
        BY <3>1, <3>2, FitsTakes
    <2>3. CASE OnlineStep(x, y)
      BY <2>0, <2>3, <1>a, OnlineEffect
    <2>4. CASE VersionsStep(x, y)
      BY <2>0, <2>4, <1>a, VersionsEffect
    <2>5. CASE RatesStep(x, y)
      <3>1. PICK f \in Frames, g \in Frames :
              /\ f.k = "rateack" /\ g.k = (IF x.type = "bos" THEN "reqrights" ELSE "clientready")
              /\ Takes(x, y, <<f, g>>)
        BY <2>0, <2>5, RatesEffect
      <3>2. \A i \in 1 .. Len(<<f, g>>) :
               <<f, g>>[i].k \in {"xorlogin", "snaclogin"} => <<f, g>>[i].k = FlagKind
        BY <3>1, Doubly
      <3> QED
        BY <3>1, <3>2, FitsTakes
    <2>6. CASE RightsStep(x, y)
      BY <2>0, <2>6, <1>a, RightsEffect
    <2>7. CASE PauseStep(x, y)
      BY <2>0, <2>7, <1>a, PauseEffect
    <2> QED
      BY <1>2, <2>1, <2>2, <2>3, <2>4, <2>5, <2>6, <2>7 DEF Handles
  <1>3. CASE Reads(x, y) \/ Pauses(x, y) \/ Closes(x, y)
    <2>1. y.sent = x.sent
      BY <1>3, ReadEffect, NewsEffect DEF Receives
    <2> QED
      BY <2>1 DEF FitsFlags
  <1> QED
    BY <1>1, <1>2, <1>3 DEF Moves

\* A login leaves the flags of the earlier ones standing; there is no other connection.
LEMMA FlagsOfLogin ==
    ASSUME FlagsFit, NEW acct \in Accounts, login(acct)
    PROVE  FlagsFit' /\ Fitted'
  <1>1. flags' = RequestFlags(flags, acct) /\ tried' = tried \cup {acct}
    BY DEF login
  <1>2. FlagsFit'
    BY <1>1 DEF FlagsFit, RequestFlags
  <1>3. acct = "icq" => "XORLOGIN" \in flags'
    BY <1>1 DEF RequestFlags
  <1>4. PICK frames : /\ frames = IF acct = "icq" THEN <<LoginFrame(flags')>>
                                  ELSE <<Frame("flapver"), Frame("name")>>
                      /\ conns' = Add(conns, [Conn("auth", None) EXCEPT !.sent = frames])
    BY Zenon DEF login
  <1> DEFINE z == [Conn("auth", None) EXCEPT !.sent = frames]
  <1>5. z.sent = frames
    BY DEF Conn
  <1>6. /\ "xorlogin" \in FrameKinds /\ "flapver" \in FrameKinds /\ "name" \in FrameKinds
    BY DEF FrameKinds
  <1>7. \A i \in 1 .. Len(frames) : frames[i].k \in {"xorlogin", "snaclogin"} => frames[i].k = FlagKind'
    <2>1. CASE acct = "icq"
      <3>1. frames = <<Frame("xorlogin")>>
        BY <1>3, <1>4, <2>1 DEF LoginFrame
      <3>2. Len(frames) = 1 /\ frames[1].k = "xorlogin"
        BY <1>6, <3>1, FrameKind, Singly
      <3>3. FlagKind' = "xorlogin"
        BY <1>3, <2>1 DEF FlagKind
      <3> QED
        BY <3>2, <3>3
    <2>2. CASE acct # "icq"
      <3>1. frames = <<Frame("flapver"), Frame("name")>>
        BY <1>4, <2>2
      <3>2. Len(frames) = 2 /\ frames[1].k = "flapver" /\ frames[2].k = "name"
        BY <1>6, <3>1, FrameKind, Doubly
      <3> QED
        BY <3>2
    <2> QED
      BY <2>1, <2>2
  <1>8. DOMAIN conns = {}
    BY DEF login
  <1> HIDE DEF z
  <1>9. \A d \in DOMAIN conns' : conns'[d] = z
    BY <1>4, <1>8 DEF Add, z
  <1> QED
    BY <1>2, <1>5, <1>7, <1>9 DEF Fitted, FitsFlags

LEMMA LoginStep ==
    ASSUME LoginInv, [Next]_vars
    PROVE  LoginInv'
  <1>1. CASE UNCHANGED vars
    <2>1. TypeInv'
      BY <1>1, TypeStep DEF LoginInv
    <2> QED
      BY <1>1, <2>1 DEF vars, userVars, LoginInv, FlagsFit, Fitted, FitsFlags, FlagKind
  <1>2. CASE \E acct \in Accounts : login(acct)
    <2>1. TypeInv'
      BY <1>2, TypeStep DEF LoginInv, Next
    <2> QED
      BY <1>2, <2>1, FlagsOfLogin DEF LoginInv
  <1>a. CASE logout
    <2>1. TypeInv'
      BY <1>a, TypeStep DEF LoginInv, Next
    <2> QED
      BY <1>a, <2>1 DEF logout, LoginInv, FlagsFit, Fitted
  <1>3. CASE Next /\ ~(\E acct \in Accounts : login(acct)) /\ ~logout
    <2>1. TypeInv /\ TypeInv' /\ Shape
      BY <1>3, TypeStep, StepShape DEF LoginInv
    <2>2. tried' = tried /\ flags' = flags
      BY <1>3, Zenon DEF Next, Handle, aim_logoff, aim_send_im_ext, aim_reqservice, aim_chat_join,
        keyparse, parse, negchan_middle, hostonline, hostversions, rateresp, bosrights, redirect,
        serverpause, migrate, ServerReads, ServerPauses, ServerCloses, ConnLost, userVars
    <2>3. FlagKind' = FlagKind /\ FlagsFit' = FlagsFit
      BY <2>2 DEF FlagKind, FlagsFit
    <2>5. ASSUME NEW d \in DOMAIN conns'
          PROVE  FitsFlags(conns'[d])
      <3>1. CASE d \in DOMAIN conns
        BY <2>1, <3>1, MovesFit DEF Shape, LoginInv, Fitted, TypeInv
      <3>2. CASE d \notin DOMAIN conns /\ ToHost(conns'[d])
        <4>1. Len(conns'[d].sent) = 1 /\ conns'[d].sent[1].k = "cookie"
          BY <3>2, ToHostTyped
        <4> QED
          BY <4>1 DEF FitsFlags
      <3>3. CASE d \notin DOMAIN conns /\ ~ToHost(conns'[d])
        <4>1. \E c \in DOMAIN conns : parse(c) \/ migrate(c) \/ redirect(c)
          BY <1>3, <2>1, <3>3, NewByHandler
        <4> QED
          BY <2>1, <3>3, <4>1, NewToHost
      <3> QED
        BY <3>1, <3>2, <3>3
    <2>6. Fitted'
      BY <2>3, <2>5 DEF Fitted, FitsFlags
    <2> QED
      BY <2>1, <2>3, <2>6 DEF LoginInv
  <1> QED
    BY <1>1, <1>2, <1>3, <1>a

LEMMA LoginInvKind == LoginInv => LoginKind
  <1> SUFFICES ASSUME LoginInv, NEW c \in DOMAIN conns, NEW i \in DOMAIN conns[c].sent
               PROVE  /\ conns[c].sent[i].k = "xorlogin" => "icq" \in tried
                      /\ conns[c].sent[i].k = "snaclogin" => "icq" \notin tried
    BY DEF LoginKind
  <1>1. conns[c] \in Connections
    BY DEF LoginInv, TypeInv
  <1>2. i \in 1 .. Len(conns[c].sent)
    BY <1>1, LenProperties DEF Connections
  <1>3. conns[c].sent[i].k \in {"xorlogin", "snaclogin"} => conns[c].sent[i].k = FlagKind
    BY <1>2 DEF LoginInv, Fitted, FitsFlags
  <1>4. FlagsFit
    BY DEF LoginInv
  <1> QED
    BY <1>3, <1>4 DEF FlagsFit, FlagKind

\* How a login goes is decided by the accounts tried since aim_session_init and by
\* nothing else that happened in the session: by XOR once an ICQ number was among them,
\* by SNACs before (auth.c:88-91, 130, 278).  aim_logoff, which keeps the session "in
\* case we want to connect again" (conn.c:1053), does not change that; a new session does.
THEOREM LoginDecided == Spec => []LoginKind
  <1>1. Init => LoginInv
    BY TypeInit DEF Init, LoginInv, Fitted, FlagsFit
  <1>2. LoginInv /\ [Next]_vars => LoginInv'
    BY LoginStep
  <1> QED
    BY <1>1, <1>2, LoginInvKind, PTL DEF Spec

-----------------------------------------------------------------------------
(* The set-up of a connection *)

Has(s, k) == \E i \in 1 .. Len(s) : s[i].k = k
Once(s, k) == \A i, j \in 1 .. Len(s) : s[i].k = k /\ s[j].k = k => i = j

\* The client sends q, which the server answers with m, which the client answers with
\* b: q is sent once, m is on its way only while b is still to come, and b follows q.
Exchange(x, q, m, b) ==
    /\ Once(x.sent, q)
    /\ \A p \in 1 .. Len(x.in) : x.in[p].k = m =>
          /\ \E j \in 1 .. x.got : x.sent[j].k = q
          /\ ~Has(x.sent, b)
          /\ \A r \in 1 .. Len(x.in) : x.in[r].k = m => r = p
    /\ \A i \in 1 .. Len(x.sent) : x.sent[i].k = b =>
          \E j \in 1 .. i - 1 : j <= x.got /\ x.sent[j].k = q

\* A frame names everything there is to name.
Named(f, type) ==
    /\ f.k \in {"versions", "pauseack"} => f.list = Reverse(HostGroups(type))
    /\ f.k = "rateack" => f.list = HostRates

AuthInv(x) ==
    /\ \A i \in 1 .. Len(x.sent) : x.sent[i].k \in {"xorlogin", "snaclogin", "flapver", "name"}
    /\ \A p \in 1 .. Len(x.in) : x.in[p].k \in {"key", "authresp"}
    /\ x.groups = <<>> /\ ~x.done

\* A BOS asks for its rights before it is ready, the others are ready at once.
ReadyInv(x) ==
    IF x.type = "bos" THEN Exchange(x, "reqrights", "bosrights", "clientready")
    ELSE /\ ~Has(x.sent, "reqrights")
         /\ \A p \in 1 .. Len(x.in) : x.in[p].k # "bosrights"

AckFirst(s) ==
    \A i \in 1 .. Len(s) : s[i].k \in {"reqrights", "clientready"} => \E j \in 1 .. i - 1 : s[j].k = "rateack"

OrderInv(x) ==
    /\ Len(x.sent) >= 1 /\ x.sent[1].k = "cookie"
    /\ Exchange(x, "cookie", "hostonline", "versions")
    /\ Exchange(x, "versions", "hostversions", "reqrates")
    /\ Exchange(x, "reqrates", "rateresp", "rateack")
    /\ ReadyInv(x)
    /\ Once(x.sent, "rateack") /\ Once(x.sent, "clientready")
    /\ AckFirst(x.sent)

ListsInv(x) ==
    /\ x.groups = IF Has(x.sent, "versions") THEN Reverse(HostGroups(x.type)) ELSE <<>>
    /\ Has(x.sent, "rateack") \/ x.rates = <<>>
    /\ x.done => Has(x.sent, "rateack")
    /\ \A p \in 1 .. Len(x.in) : x.in[p].k = "pause" => Has(x.sent, "versions")
    /\ \A i \in 1 .. Len(x.sent) : Named(x.sent[i], x.type)

SetUpInv(x) == IF x.type = "auth" THEN AuthInv(x) ELSE OrderInv(x) /\ ListsInv(x)

HandshakeInv ==
    /\ TypeInv
    /\ \A c \in DOMAIN conns : SetUpInv(conns[c])

LEMMA FrameOf ==
    ASSUME NEW x \in Connections, NEW y, NEW frames, Takes(x, y, frames), NEW i \in 1 .. Len(y.sent)
    PROVE  \/ i \in 1 .. Len(x.sent) /\ y.sent[i] = x.sent[i]
           \/ /\ i \notin 1 .. Len(x.sent) /\ i - Len(x.sent) \in 1 .. Len(frames)
              /\ y.sent[i] = frames[i - Len(x.sent)]
  BY TakesElements

LEMMA HasTakes ==
    ASSUME NEW x \in Connections, NEW y, NEW frames, Takes(x, y, frames), NEW k
    PROVE  Has(y.sent, k) <=> Has(x.sent, k) \/ Has(frames, k)
  <1>1. ASSUME NEW i \in 1 .. Len(y.sent), y.sent[i].k = k
        PROVE  Has(x.sent, k) \/ Has(frames, k)
    <2>1. \/ i \in 1 .. Len(x.sent) /\ y.sent[i] = x.sent[i]
          \/ i - Len(x.sent) \in 1 .. Len(frames) /\ y.sent[i] = frames[i - Len(x.sent)]
      BY FrameOf
    <2> QED
      BY <1>1, <2>1 DEF Has
  <1>2. ASSUME NEW i \in 1 .. Len(x.sent), x.sent[i].k = k
        PROVE  Has(y.sent, k)
    <2>1. i \in 1 .. Len(y.sent) /\ y.sent[i] = x.sent[i]
      BY TakesElements, Elements
    <2> QED
      BY <1>2, <2>1 DEF Has
  <1>3. ASSUME NEW i \in 1 .. Len(frames), frames[i].k = k
        PROVE  Has(y.sent, k)
    <2>1. Len(x.sent) + i \in 1 .. Len(y.sent) /\ y.sent[Len(x.sent) + i] = frames[i]
      BY TakesElements, Elements
    <2> QED
      BY <1>3, <2>1 DEF Has
  <1> QED
    BY <1>1, <1>2, <1>3 DEF Has

LEMMA OnceTakes ==
    ASSUME NEW x \in Connections, NEW y, NEW frames, Takes(x, y, frames), NEW k,
           Once(x.sent, k), Once(frames, k), ~Has(x.sent, k) \/ ~Has(frames, k)
    PROVE  Once(y.sent, k)
  <1> SUFFICES ASSUME NEW i \in 1 .. Len(y.sent), NEW j \in 1 .. Len(y.sent),
                      y.sent[i].k = k, y.sent[j].k = k
               PROVE  i = j
    BY DEF Once
  <1>a. \/ i \in 1 .. Len(x.sent) /\ y.sent[i] = x.sent[i]
        \/ i - Len(x.sent) \in 1 .. Len(frames) /\ y.sent[i] = frames[i - Len(x.sent)]
    BY FrameOf
  <1>b. \/ j \in 1 .. Len(x.sent) /\ y.sent[j] = x.sent[j]
        \/ j - Len(x.sent) \in 1 .. Len(frames) /\ y.sent[j] = frames[j - Len(x.sent)]
    BY FrameOf
  <1>2. CASE Has(x.sent, k)
    <2>1. i \in 1 .. Len(x.sent) /\ j \in 1 .. Len(x.sent) /\ x.sent[i].k = k /\ x.sent[j].k = k
      BY <1>a, <1>b, <1>2 DEF Has
    <2> QED
      BY <2>1 DEF Once
  <1>3. CASE ~Has(x.sent, k)
    <2>1. /\ i - Len(x.sent) \in 1 .. Len(frames) /\ frames[i - Len(x.sent)].k = k
          /\ j - Len(x.sent) \in 1 .. Len(frames) /\ frames[j - Len(x.sent)].k = k
      BY <1>a, <1>b, <1>3 DEF Has
    <2>2. i - Len(x.sent) = j - Len(x.sent)
      BY <2>1 DEF Once
    <2>3. Len(x.sent) \in Nat
      BY Elements
    <2> QED
      BY <2>2, <2>3
  <1> QED
    BY <1>2, <1>3

\* The exchange goes on: q is not sent again, and b, if at all, in answer to m.
LEMMA ExchangeTakes ==
    ASSUME NEW x \in Connections, NEW y, NEW frames, Takes(x, y, frames), NEW q, NEW m, NEW b,
           Exchange(x, q, m, b), ArgsRight(x), ~Has(frames, q), ~Has(frames, b) \/ x.in[1].k = m
    PROVE  Exchange(y, q, m, b)
  <1>0. /\ Len(x.sent) \in Nat /\ Len(x.in) \in Nat /\ x.got \in Nat /\ x.got <= Len(x.sent)
        /\ 1 \in 1 .. Len(x.in) /\ y.got = x.got
    BY Elements, TakesElements DEF ArgsRight, Takes
  <1>1. Once(y.sent, q)
    <2>1. Once(frames, q)
      BY DEF Has, Once
    <2> QED
      BY <2>1, OnceTakes DEF Exchange
  <1>2. ASSUME NEW p \in 1 .. Len(y.in), y.in[p].k = m
        PROVE  /\ \E j \in 1 .. y.got : y.sent[j].k = q
               /\ ~Has(y.sent, b)
               /\ \A r \in 1 .. Len(y.in) : y.in[r].k = m => r = p
    <2>1. p + 1 \in 1 .. Len(x.in) /\ x.in[p + 1].k = m
      BY <1>2, TakesElements
    <2>2. PICK j \in 1 .. x.got : x.sent[j].k = q
      BY <2>1 DEF Exchange
    <2>3. j \in 1 .. Len(x.sent) /\ y.sent[j] = x.sent[j]
      BY <1>0, TakesElements
    <2>4. x.in[1].k # m
      <3>1. x.in[1].k = m => 1 = p + 1
        BY <1>0, <2>1 DEF Exchange
      <3> QED
        BY <3>1
    <2>5. ~Has(y.sent, b)
      BY <2>1, <2>4, HasTakes DEF Exchange
    <2>6. ASSUME NEW r \in 1 .. Len(y.in), y.in[r].k = m
          PROVE  r = p
      <3>1. r + 1 \in 1 .. Len(x.in) /\ x.in[r + 1].k = m
        BY <2>6, TakesElements
      <3>2. r + 1 = p + 1
        BY <2>1, <3>1 DEF Exchange
      <3> QED
        BY <3>2
    <2> QED
      BY <1>0, <2>2, <2>3, <2>5, <2>6
  <1>3. ASSUME NEW i \in 1 .. Len(y.sent), y.sent[i].k = b
        PROVE  \E j \in 1 .. i - 1 : j <= y.got /\ y.sent[j].k = q
    <2>1. CASE i \in 1 .. Len(x.sent)
      <3>1. x.sent[i].k = b
        BY <1>3, <2>1, TakesElements
      <3>2. PICK j \in 1 .. i - 1 : j <= x.got /\ x.sent[j].k = q
        BY <2>1, <3>1 DEF Exchange
      <3>3. j \in 1 .. Len(x.sent) /\ y.sent[j] = x.sent[j]
        BY <1>0, <2>1, TakesElements
      <3> QED
        BY <1>0, <3>2, <3>3
    <2>2. CASE i \notin 1 .. Len(x.sent)
      <3>1. Has(frames, b)
        <4>1. i - Len(x.sent) \in 1 .. Len(frames) /\ y.sent[i] = frames[i - Len(x.sent)]
          BY <2>2, FrameOf
        <4> QED
          BY <1>3, <4>1 DEF Has
      <3>2. PICK j \in 1 .. x.got : x.sent[j].k = q
        BY <1>0, <3>1 DEF Exchange
      <3>3. j \in 1 .. Len(x.sent) /\ y.sent[j] = x.sent[j] /\ j <= i - 1
        BY <1>0, <2>2, TakesElements
      <3> QED
        BY <1>0, <3>2, <3>3
    <2> QED
      BY <2>1, <2>2
  <1> QED
    BY <1>1, <1>2, <1>3, Zenon DEF Exchange

\* The exchange begins: q is sent, which was not before.
LEMMA ExchangeBegins ==
    ASSUME NEW x \in Connections, NEW y, NEW frames, Takes(x, y, frames), NEW q, NEW m, NEW b,
           Exchange(x, q, m, b), ArgsRight(x), ~Has(x.sent, q), Once(frames, q), ~Has(frames, b)
    PROVE  Exchange(y, q, m, b)
  <1>0. /\ Len(x.sent) \in Nat /\ Len(x.in) \in Nat /\ x.got \in Nat /\ x.got <= Len(x.sent)
    BY Elements DEF ArgsRight
  <1>1. Once(y.sent, q)
    BY OnceTakes DEF Exchange
  <1>2. ASSUME NEW p \in 1 .. Len(y.in), y.in[p].k = m
        PROVE  FALSE
    <2>1. p + 1 \in 1 .. Len(x.in) /\ x.in[p + 1].k = m
      BY <1>2, TakesElements
    <2>2. PICK j \in 1 .. x.got : x.sent[j].k = q
      BY <2>1 DEF Exchange
    <2> QED
      BY <1>0, <2>2 DEF Has
  <1>3. ASSUME NEW i \in 1 .. Len(y.sent), y.sent[i].k = b
        PROVE  FALSE
    <2>1. Has(x.sent, b)
      <3>1. Has(y.sent, b)
        BY <1>3 DEF Has
      <3> QED
        BY <3>1, HasTakes
    <2>2. PICK h \in 1 .. Len(x.sent) : x.sent[h].k = b
      BY <2>1 DEF Has
    <2>3. PICK j \in 1 .. h - 1 : x.sent[j].k = q
      BY <2>2 DEF Exchange
    <2>4. j \in 1 .. Len(x.sent)
      BY <1>0
    <2> QED
      BY <2>3, <2>4 DEF Has
  <1> QED
    BY <1>1, <1>2, <1>3, Zenon DEF Exchange

\* Requests have no part in it.
LEMMA ExchangeSends ==
    ASSUME NEW x \in Connections, NEW y, NEW f, Sends(x, y, f), NEW q, NEW m, NEW b,
           Exchange(x, q, m, b), ArgsRight(x), f.k # q, f.k # b
    PROVE  Exchange(y, q, m, b)
  <1>0. /\ Len(x.sent) \in Nat /\ x.got \in Nat /\ x.got <= Len(x.sent)
        /\ y.got = x.got /\ y.in = x.in
    BY Elements DEF ArgsRight, Sends
  <1>1. ASSUME NEW i \in 1 .. Len(y.sent), y.sent[i].k \in {q, b}
        PROVE  i \in 1 .. Len(x.sent) /\ y.sent[i] = x.sent[i]
    BY <1>1, SendsElements
  <1>2. \A i \in 1 .. Len(x.sent) : i \in 1 .. Len(y.sent) /\ y.sent[i] = x.sent[i]
    BY <1>0, SendsElements
  <1>3. Once(y.sent, q)
    BY <1>1 DEF Once, Exchange
  <1>4. ~Has(x.sent, b) => ~Has(y.sent, b)
    BY <1>1 DEF Has
  <1>5. ASSUME NEW p \in 1 .. Len(y.in), y.in[p].k = m
        PROVE  /\ \E j \in 1 .. y.got : y.sent[j].k = q
               /\ ~Has(y.sent, b)
               /\ \A r \in 1 .. Len(y.in) : y.in[r].k = m => r = p
    <2>1. /\ \E j \in 1 .. x.got : x.sent[j].k = q
          /\ ~Has(x.sent, b)
          /\ \A r \in 1 .. Len(x.in) : x.in[r].k = m => r = p
      BY <1>0, <1>5 DEF Exchange
    <2>2. PICK j \in 1 .. x.got : x.sent[j].k = q
      BY <2>1
    <2>3. j \in 1 .. Len(x.sent)
      BY <1>0
    <2> QED
      BY <1>0, <1>2, <1>4, <2>1, <2>2, <2>3
  <1>6. ASSUME NEW i \in 1 .. Len(y.sent), y.sent[i].k = b
        PROVE  \E j \in 1 .. i - 1 : j <= y.got /\ y.sent[j].k = q
    <2>1. i \in 1 .. Len(x.sent) /\ x.sent[i].k = b
      BY <1>1, <1>6
    <2>2. PICK j \in 1 .. i - 1 : j <= x.got /\ x.sent[j].k = q
      BY <2>1 DEF Exchange
    <2>3. j \in 1 .. Len(x.sent)
      BY <1>0, <2>1
    <2> QED
      BY <1>0, <1>2, <2>2, <2>3
  <1> QED
    BY <1>3, <1>5, <1>6, Zenon DEF Exchange

LEMMA NewsOf ==
    ASSUME NEW x \in Connections, NEW y, NEW msgs, Receives(x, y, msgs), NEW p \in 1 .. Len(y.in)
    PROVE  \/ p \in 1 .. Len(x.in) /\ y.in[p] = x.in[p]
           \/ /\ p \notin 1 .. Len(x.in) /\ p - Len(x.in) \in 1 .. Len(msgs)
              /\ y.in[p] = msgs[p - Len(x.in)]
  BY ReceivesElements, SMTT(30)

\* Nothing arrives that belongs to it.
LEMMA ExchangeReceives ==
    ASSUME NEW x \in Connections, NEW y, NEW msgs, Receives(x, y, msgs), NEW q, NEW m, NEW b,
           Exchange(x, q, m, b), ArgsRight(x), y.got = x.got \/ y.got = x.got + 1,
           \A p \in 1 .. Len(msgs) : msgs[p].k # m
    PROVE  Exchange(y, q, m, b)
  <1>0. /\ Len(x.sent) \in Nat /\ Len(x.in) \in Nat /\ x.got \in Nat /\ x.got <= Len(x.sent)
        /\ y.sent = x.sent
    BY Elements DEF ArgsRight, Receives
  <1>1. ASSUME NEW p \in 1 .. Len(y.in), y.in[p].k = m
        PROVE  p \in 1 .. Len(x.in) /\ x.in[p].k = m
    BY <1>1, NewsOf
  <1>2. ASSUME NEW p \in 1 .. Len(y.in), y.in[p].k = m
        PROVE  /\ \E j \in 1 .. y.got : y.sent[j].k = q
               /\ ~Has(y.sent, b)
               /\ \A r \in 1 .. Len(y.in) : y.in[r].k = m => r = p
    <2>1. p \in 1 .. Len(x.in) /\ x.in[p].k = m
      BY <1>1, <1>2
    <2>2. /\ ~Has(x.sent, b)
          /\ \A r \in 1 .. Len(x.in) : x.in[r].k = m => r = p
      BY <2>1 DEF Exchange
    <2>3. PICK j \in 1 .. x.got : x.sent[j].k = q
      BY <2>1 DEF Exchange
    <2>4. j \in 1 .. y.got
      BY <1>0
    <2> QED
      BY <1>0, <1>1, <2>2, <2>3, <2>4
  <1>3. ASSUME NEW i \in 1 .. Len(y.sent), y.sent[i].k = b
        PROVE  \E j \in 1 .. i - 1 : j <= y.got /\ y.sent[j].k = q
    <2>1. PICK j \in 1 .. i - 1 : j <= x.got /\ x.sent[j].k = q
      BY <1>0, <1>3 DEF Exchange
    <2>2. j <= y.got
      BY <1>0, <2>1
    <2> QED
      BY <1>0, <2>1, <2>2
  <1>4. Once(y.sent, q)
    BY <1>0 DEF Exchange
  <1> QED
    BY <1>2, <1>3, <1>4, Zenon DEF Exchange

\* The server reads q and answers m.
LEMMA ExchangeAnswers ==
    ASSUME NEW x \in Connections, NEW y, NEW msg, Receives(x, y, <<msg>>), NEW q, NEW m, NEW b,
           Exchange(x, q, m, b), ArgsRight(x), x.got < Len(x.sent), y.got = x.got + 1,
           x.sent[x.got + 1].k = q
    PROVE  Exchange(y, q, m, b)
  <1>0. /\ Len(x.sent) \in Nat /\ Len(x.in) \in Nat /\ x.got \in Nat /\ x.got < Len(x.sent)
        /\ y.sent = x.sent /\ x.got + 1 \in 1 .. Len(x.sent)
    BY Elements DEF Receives
  <1>1. \A j \in 1 .. x.got : x.sent[j].k # q
    <2> SUFFICES ASSUME NEW j \in 1 .. x.got, x.sent[j].k = q
                 PROVE  FALSE
      OBVIOUS
    <2>1. j \in 1 .. Len(x.sent)
      BY <1>0
    <2>2. j = x.got + 1
      BY <1>0, <2>1 DEF Exchange, Once
    <2> QED
      BY <1>0, <2>2
  <1>2. \A p \in 1 .. Len(x.in) : x.in[p].k # m
    BY <1>1 DEF Exchange
  <1>3. ~Has(x.sent, b)
    <2> SUFFICES ASSUME NEW i \in 1 .. Len(x.sent), x.sent[i].k = b
                 PROVE  FALSE
      BY DEF Has
    <2>1. PICK j \in 1 .. i - 1 : j <= x.got /\ x.sent[j].k = q
      BY DEF Exchange
    <2> QED
      BY <1>0, <1>1, <2>1
  <1>4. ASSUME NEW p \in 1 .. Len(y.in), y.in[p].k = m
        PROVE  p = Len(x.in) + 1
    <2>1. Len(<<msg>>) = 1
      OBVIOUS
    <2>2. \/ p \in 1 .. Len(x.in) /\ y.in[p] = x.in[p]
          \/ p \notin 1 .. Len(x.in) /\ p - Len(x.in) \in 1 .. Len(<<msg>>)
      BY NewsOf
    <2> QED
      BY <1>0, <1>2, <1>4, <2>1, <2>2
  <1>5. ASSUME NEW p \in 1 .. Len(y.in), y.in[p].k = m
        PROVE  /\ \E j \in 1 .. y.got : y.sent[j].k = q
               /\ ~Has(y.sent, b)
               /\ \A r \in 1 .. Len(y.in) : y.in[r].k = m => r = p
    <2>1. x.got + 1 \in 1 .. y.got /\ y.sent[x.got + 1].k = q
      BY <1>0
    <2>2. \A r \in 1 .. Len(y.in) : y.in[r].k = m => r = p
      BY <1>4, <1>5
    <2> QED
      BY <1>0, <1>3, <2>1, <2>2
  <1>6. ASSUME NEW i \in 1 .. Len(y.sent), y.sent[i].k = b
        PROVE  FALSE
    BY <1>0, <1>3, <1>6 DEF Has
  <1>7. Once(y.sent, q)
    BY <1>0 DEF Exchange
  <1> QED
    BY <1>5, <1>6, <1>7, Zenon DEF Exchange

LEMMA HasNone == \A k : ~Has(<<>>, k) /\ Once(<<>>, k)
  BY EmptySeq DEF Has, Once

LEMMA HasOne ==
    ASSUME NEW f \in Frames
    PROVE  \A k : (Has(<<f>>, k) <=> f.k = k) /\ Once(<<f>>, k)
  BY Singly DEF Has, Once

LEMMA HasTwo ==
    ASSUME NEW f \in Frames, NEW g \in Frames, f.k # g.k
    PROVE  \A k : (Has(<<f, g>>, k) <=> f.k = k \/ g.k = k) /\ Once(<<f, g>>, k)
  BY Doubly DEF Has, Once

LEMMA FirstTakes ==
    ASSUME NEW x \in Connections, NEW y, NEW frames, Takes(x, y, frames), OrderInv(x)
    PROVE  Len(y.sent) >= 1 /\ y.sent[1].k = "cookie"
  <1>1. /\ Len(x.sent) >= 1 /\ Len(x.sent) \in Nat /\ x.sent[1].k = "cookie"
        /\ Len(y.sent) = Len(x.sent) + Len(frames) /\ Len(frames) \in Nat
    BY Elements, TakesElements DEF OrderInv
  <1>2. y.sent[1] = x.sent[1]
    BY <1>1, TakesElements
  <1> QED
    BY <1>1, <1>2

LEMMA AckFirstTakes ==
    ASSUME NEW x \in Connections, NEW y, NEW frames, Takes(x, y, frames), AckFirst(x.sent),
           Has(x.sent, "rateack") \/ AckFirst(frames)
    PROVE  AckFirst(y.sent)
  <1> SUFFICES ASSUME NEW i \in 1 .. Len(y.sent), y.sent[i].k \in {"reqrights", "clientready"}
               PROVE  \E j \in 1 .. i - 1 : y.sent[j].k = "rateack"
    BY DEF AckFirst
  <1>0. Len(x.sent) \in Nat /\ Len(frames) \in Nat /\ Len(y.sent) = Len(x.sent) + Len(frames)
    BY Elements, TakesElements
  <1>1. CASE i \in 1 .. Len(x.sent)
    <2>1. x.sent[i].k \in {"reqrights", "clientready"}
      BY <1>1, TakesElements
    <2>2. PICK j \in 1 .. i - 1 : x.sent[j].k = "rateack"
      BY <1>1, <2>1 DEF AckFirst
    <2>3. j \in 1 .. Len(x.sent)
      BY <1>0, <1>1
    <2>4. y.sent[j] = x.sent[j]
      BY <2>3, TakesElements
    <2> QED
      BY <2>2, <2>4
  <1>2. CASE i \notin 1 .. Len(x.sent)
    <2> DEFINE h == i - Len(x.sent)
    <2>1. h \in 1 .. Len(frames) /\ y.sent[i] = frames[h]
      BY <1>2, FrameOf
    <2>2. CASE Has(x.sent, "rateack")
      <3>1. PICK j \in 1 .. Len(x.sent) : x.sent[j].k = "rateack"
        BY <2>2 DEF Has
      <3>2. j \in 1 .. i - 1
        BY <1>0, <1>2
      <3>3. y.sent[j] = x.sent[j]
        BY TakesElements
      <3> QED
        BY <3>1, <3>2, <3>3
    <2>3. CASE AckFirst(frames)
      <3>1. PICK j \in 1 .. h - 1 : frames[j].k = "rateack"
        BY <2>1, <2>3 DEF AckFirst
      <3>2. j \in 1 .. Len(frames) /\ Len(x.sent) + j \in 1 .. i - 1
        BY <1>0, <2>1
      <3>3. y.sent[Len(x.sent) + j] = frames[j]
        BY <3>2, TakesElements
      <3> QED
        BY <3>1, <3>2, <3>3
    <2> QED
      BY <2>2, <2>3
  <1> QED
    BY <1>1, <1>2

LEMMA ReadyTakes ==
    ASSUME NEW x \in Connections, NEW y, NEW frames, Takes(x, y, frames), ReadyInv(x), ArgsRight(x),
           ~Has(frames, "reqrights"),
           ~Has(frames, "clientready") \/ x.type # "bos" \/ x.in[1].k = "bosrights"
    PROVE  ReadyInv(y)
  <1>1. y.type = x.type
    BY DEF Takes, Same
  <1>2. CASE x.type = "bos"
    BY <1>1, <1>2, ExchangeTakes DEF ReadyInv
  <1>3. CASE x.type # "bos"
    <2>1. ~Has(y.sent, "reqrights")
      BY <1>3, HasTakes DEF ReadyInv
    <2>2. \A p \in 1 .. Len(y.in) : y.in[p].k # "bosrights"
      BY <1>3, TakesElements DEF ReadyInv
    <2> QED
      BY <1>1, <1>3, <2>1, <2>2 DEF ReadyInv
  <1> QED
    BY <1>2, <1>3

\* What is not sent before its time.
LEMMA NotYet ==
    ASSUME NEW x \in Connections, OrderInv(x), ArgsRight(x), x.in # <<>>
    PROVE  /\ x.in[1].k = "hostonline" => ~Has(x.sent, "versions")
           /\ x.in[1].k = "hostversions" => ~Has(x.sent, "reqrates")
           /\ x.in[1].k = "rateresp" => /\ ~Has(x.sent, "rateack") /\ ~Has(x.sent, "reqrights")
                                        /\ ~Has(x.sent, "clientready")
           /\ x.in[1].k = "bosrights" => /\ x.type = "bos" /\ ~Has(x.sent, "clientready")
                                         /\ Has(x.sent, "rateack")
  <1>1. 1 \in 1 .. Len(x.in) /\ Len(x.sent) \in Nat /\ x.got \in Nat
    BY HeadTyped, Elements
  <1>2. ASSUME NEW k \in {"reqrights", "clientready"}, Has(x.sent, k)
        PROVE  Has(x.sent, "rateack")
    <2>1. PICK i \in 1 .. Len(x.sent) : x.sent[i].k = k
      BY <1>2 DEF Has
    <2>2. PICK j \in 1 .. i - 1 : x.sent[j].k = "rateack"
      BY <2>1 DEF OrderInv, AckFirst
    <2>3. j \in 1 .. Len(x.sent)
      BY <1>1
    <2> QED
      BY <2>2, <2>3 DEF Has
  <1>3. x.in[1].k = "hostonline" => ~Has(x.sent, "versions")
    BY <1>1 DEF OrderInv, Exchange
  <1>4. x.in[1].k = "hostversions" => ~Has(x.sent, "reqrates")
    BY <1>1 DEF OrderInv, Exchange
  <1>5. x.in[1].k = "rateresp" => ~Has(x.sent, "rateack")
    BY <1>1 DEF OrderInv, Exchange
  <1>6. ASSUME x.in[1].k = "bosrights"
        PROVE  x.type = "bos" /\ ~Has(x.sent, "clientready") /\ Has(x.sent, "reqrights")
    <2>1. x.type = "bos"
      BY <1>1, <1>6 DEF OrderInv, ReadyInv
    <2>2. Exchange(x, "reqrights", "bosrights", "clientready")
      BY <2>1 DEF OrderInv, ReadyInv
    <2>3. ~Has(x.sent, "clientready") /\ \E j \in 1 .. x.got : x.sent[j].k = "reqrights"
      BY <1>1, <1>6, <2>2 DEF Exchange
    <2>4. PICK j \in 1 .. x.got : x.sent[j].k = "reqrights"
      BY <2>3
    <2> QED
      <3>1. j \in 1 .. Len(x.sent)
        BY <1>1 DEF ArgsRight
      <3> QED
        BY <2>1, <2>3, <2>4, <3>1 DEF Has
  <1> QED
    BY <1>2, <1>3, <1>4, <1>5, <1>6

SetUpKinds == {"cookie", "versions", "reqrates", "rateack", "reqrights", "clientready"}

LEMMA OrderIdle ==
    ASSUME NEW x \in Connections, ArgsRight(x), OrderInv(x), NEW y, NEW frames, Takes(x, y, frames),
           \A k \in SetUpKinds : ~Has(frames, k)
    PROVE  OrderInv(y)
  <1>1. /\ ~Has(frames, "cookie") /\ ~Has(frames, "versions") /\ ~Has(frames, "reqrates")
        /\ ~Has(frames, "rateack") /\ ~Has(frames, "reqrights") /\ ~Has(frames, "clientready")
    BY DEF SetUpKinds
  <1>2. /\ Exchange(y, "cookie", "hostonline", "versions")
        /\ Exchange(y, "versions", "hostversions", "reqrates")
        /\ Exchange(y, "reqrates", "rateresp", "rateack")
    BY <1>1, ExchangeTakes DEF OrderInv
  <1>3. ReadyInv(y)
    BY <1>1, ReadyTakes DEF OrderInv
  <1>4. Once(y.sent, "rateack") /\ Once(y.sent, "clientready")
    <2>1. Once(frames, "rateack") /\ Once(frames, "clientready")
      BY <1>1 DEF Once, Has
    <2> QED
      BY <1>1, <2>1, OnceTakes DEF OrderInv
  <1>5. AckFirst(y.sent)
    BY <1>1, AckFirstTakes DEF OrderInv, AckFirst, Has
  <1> QED
    BY <1>2, <1>3, <1>4, <1>5, FirstTakes DEF OrderInv

LEMMA OrderOnline ==
    ASSUME NEW x \in Connections, ArgsRight(x), OrderInv(x), NEW y, NEW f \in Frames, f.k = "versions",
           Takes(x, y, <<f>>), x.in[1].k = "hostonline"
    PROVE  OrderInv(y)
  <1>1. /\ \A k : k # "versions" => ~Has(<<f>>, k)
        /\ \A k : Once(<<f>>, k)
    BY HasOne
  <1>2. ~Has(x.sent, "versions")
    BY NotYet DEF Takes
  <1>3. Exchange(y, "cookie", "hostonline", "versions")
    BY <1>1, ExchangeTakes DEF OrderInv
  <1>4. Exchange(y, "versions", "hostversions", "reqrates")
    BY <1>1, <1>2, ExchangeBegins DEF OrderInv
  <1>5. Exchange(y, "reqrates", "rateresp", "rateack")
    BY <1>1, ExchangeTakes DEF OrderInv
  <1>6. ReadyInv(y)
    BY <1>1, ReadyTakes DEF OrderInv
  <1>7. Once(y.sent, "rateack") /\ Once(y.sent, "clientready")
    BY <1>1, OnceTakes DEF OrderInv
  <1>8. AckFirst(y.sent)
    <2>1. AckFirst(<<f>>)
      BY Singly DEF AckFirst
    <2> QED
      BY <2>1, AckFirstTakes DEF OrderInv
  <1> QED
    BY <1>3, <1>4, <1>5, <1>6, <1>7, <1>8, FirstTakes DEF OrderInv

LEMMA OrderVersions ==
    ASSUME NEW x \in Connections, ArgsRight(x), OrderInv(x), NEW y, NEW f \in Frames, f.k = "reqrates",
           Takes(x, y, <<f>>), x.in[1].k = "hostversions"
    PROVE  OrderInv(y)
  <1>1. /\ \A k : k # "reqrates" => ~Has(<<f>>, k)
        /\ \A k : Once(<<f>>, k)
    BY HasOne
  <1>2. ~Has(x.sent, "reqrates")
    BY NotYet DEF Takes
  <1>3. Exchange(y, "cookie", "hostonline", "versions")
    BY <1>1, ExchangeTakes DEF OrderInv
  <1>4. Exchange(y, "versions", "hostversions", "reqrates")
    BY <1>1, ExchangeTakes DEF OrderInv
  <1>5. Exchange(y, "reqrates", "rateresp", "rateack")
    BY <1>1, <1>2, ExchangeBegins DEF OrderInv
  <1>6. ReadyInv(y)
    BY <1>1, ReadyTakes DEF OrderInv
  <1>7. Once(y.sent, "rateack") /\ Once(y.sent, "clientready")
    BY <1>1, OnceTakes DEF OrderInv
  <1>8. AckFirst(y.sent)
    <2>1. AckFirst(<<f>>)
      BY Singly DEF AckFirst
    <2> QED
      BY <2>1, AckFirstTakes DEF OrderInv
  <1> QED
    BY <1>3, <1>4, <1>5, <1>6, <1>7, <1>8, FirstTakes DEF OrderInv

LEMMA OrderRates ==
    ASSUME NEW x \in Connections, ArgsRight(x), OrderInv(x), NEW y, NEW f \in Frames, NEW g \in Frames,
           f.k = "rateack", g.k = (IF x.type = "bos" THEN "reqrights" ELSE "clientready"),
           Takes(x, y, <<f, g>>), x.in[1].k = "rateresp"
    PROVE  OrderInv(y)
  <1>1. /\ \A k : k \notin {"rateack", "reqrights", "clientready"} => ~Has(<<f, g>>, k)
        /\ \A k : Once(<<f, g>>, k)
        /\ x.type = "bos" => ~Has(<<f, g>>, "clientready")
        /\ x.type # "bos" => ~Has(<<f, g>>, "reqrights")
    <2>1. f.k # g.k
      OBVIOUS
    <2> QED
      BY <2>1, HasTwo
  <1>2. ~Has(x.sent, "rateack") /\ ~Has(x.sent, "reqrights") /\ ~Has(x.sent, "clientready")
    BY NotYet DEF Takes
  <1>3. Exchange(y, "cookie", "hostonline", "versions")
    BY <1>1, ExchangeTakes DEF OrderInv
  <1>4. Exchange(y, "versions", "hostversions", "reqrates")
    BY <1>1, ExchangeTakes DEF OrderInv
  <1>5. Exchange(y, "reqrates", "rateresp", "rateack")
    BY <1>1, ExchangeTakes DEF OrderInv
  <1>6. ReadyInv(y)
    <2>1. CASE x.type = "bos"
      <3>1. Exchange(y, "reqrights", "bosrights", "clientready")
        BY <1>1, <1>2, <2>1, ExchangeBegins DEF OrderInv, ReadyInv
      <3>2. y.type = "bos"
        BY <2>1 DEF Takes, Same
      <3> QED
        BY <3>1, <3>2 DEF ReadyInv
    <2>2. CASE x.type # "bos"
      BY <1>1, <2>2, ReadyTakes DEF OrderInv
    <2> QED
      BY <2>1, <2>2
  <1>7. Once(y.sent, "rateack") /\ Once(y.sent, "clientready")
    BY <1>1, <1>2, OnceTakes DEF OrderInv
  <1>8. AckFirst(y.sent)
    <2>1. AckFirst(<<f, g>>)
      <3>1. Len(<<f, g>>) = 2 /\ <<f, g>>[1] = f
        OBVIOUS
      <3>2. f.k \notin {"reqrights", "clientready"}
        OBVIOUS
      <3>3. \A i \in 1 .. 2 : i = 1 \/ 1 \in 1 .. i - 1
        OBVIOUS
      <3> QED
        BY <3>1, <3>2, <3>3 DEF AckFirst
    <2> QED
      BY <2>1, AckFirstTakes DEF OrderInv
  <1> QED
    BY <1>3, <1>4, <1>5, <1>6, <1>7, <1>8, FirstTakes DEF OrderInv

LEMMA OrderRights ==
    ASSUME NEW x \in Connections, ArgsRight(x), OrderInv(x), NEW y, NEW f \in Frames, f.k = "clientready",
           Takes(x, y, <<f>>), x.in[1].k = "bosrights"
    PROVE  OrderInv(y)
  <1>1. /\ \A k : k # "clientready" => ~Has(<<f>>, k)
        /\ \A k : Once(<<f>>, k)
    BY HasOne
  <1>2. ~Has(x.sent, "clientready") /\ Has(x.sent, "rateack") /\ x.type = "bos"
    BY NotYet DEF Takes
  <1>3. Exchange(y, "cookie", "hostonline", "versions")
    BY <1>1, ExchangeTakes DEF OrderInv
  <1>4. Exchange(y, "versions", "hostversions", "reqrates")
    BY <1>1, ExchangeTakes DEF OrderInv
  <1>5. Exchange(y, "reqrates", "rateresp", "rateack")
    BY <1>1, ExchangeTakes DEF OrderInv
  <1>6. ReadyInv(y)
    BY <1>1, ReadyTakes DEF OrderInv
  <1>7. Once(y.sent, "rateack") /\ Once(y.sent, "clientready")
    BY <1>1, <1>2, OnceTakes DEF OrderInv
  <1>8. AckFirst(y.sent)
    BY <1>2, AckFirstTakes DEF OrderInv
  <1> QED
    BY <1>3, <1>4, <1>5, <1>6, <1>7, <1>8, FirstTakes DEF OrderInv

LEMMA OrderReceives ==
    ASSUME NEW x \in Connections, ArgsRight(x), OrderInv(x), NEW y, NEW msgs, Receives(x, y, msgs),
           Exchange(y, "cookie", "hostonline", "versions"),
           Exchange(y, "versions", "hostversions", "reqrates"),
           Exchange(y, "reqrates", "rateresp", "rateack"),
           ReadyInv(y)
    PROVE  OrderInv(y)
  <1>1. y.sent = x.sent
    BY DEF Receives
  <1> QED
    BY <1>1 DEF OrderInv

\* A message that answers no step of the set-up.
LEMMA OrderNews ==
    ASSUME NEW x \in Connections, ArgsRight(x), OrderInv(x), NEW y, NEW msgs, Receives(x, y, msgs),
           y.got = x.got \/ y.got = x.got + 1,
           \A p \in 1 .. Len(msgs) :
              msgs[p].k \notin {"hostonline", "hostversions", "rateresp", "bosrights"}
    PROVE  OrderInv(y)
  <1>1. /\ Exchange(y, "cookie", "hostonline", "versions")
        /\ Exchange(y, "versions", "hostversions", "reqrates")
        /\ Exchange(y, "reqrates", "rateresp", "rateack")
    BY ExchangeReceives DEF OrderInv
  <1>2. ReadyInv(y)
    <2>1. y.type = x.type /\ y.sent = x.sent
      BY DEF Receives, Same
    <2>2. CASE x.type = "bos"
      BY <2>1, <2>2, ExchangeReceives DEF OrderInv, ReadyInv
    <2>3. CASE x.type # "bos"
      <3>1. ASSUME NEW p \in 1 .. Len(y.in)
            PROVE  y.in[p].k # "bosrights"
        <4>1. \/ p \in 1 .. Len(x.in) /\ y.in[p] = x.in[p]
              \/ p - Len(x.in) \in 1 .. Len(msgs) /\ y.in[p] = msgs[p - Len(x.in)]
          BY NewsOf
        <4> QED
          BY <2>3, <4>1 DEF OrderInv, ReadyInv
      <3> QED
        BY <2>1, <2>3, <3>1 DEF OrderInv, ReadyInv
    <2> QED
      BY <2>2, <2>3
  <1> QED
    BY <1>1, <1>2, OrderReceives

LEMMA OrderReads ==
    ASSUME NEW x \in Connections, ArgsRight(x), OrderInv(x), NEW y, Reads(x, y)
    PROVE  OrderInv(y)
  <1>1. /\ x.got < Len(x.sent) /\ y.got = x.got + 1 /\ x.sent[x.got + 1] \in Frames
        /\ \/ Receives(x, y, <<>>)
           \/ \E m \in Answers(x.sent[x.got + 1]) : Receives(x, y, <<m>>)
    BY ReadEffect
  <1>2. CASE Receives(x, y, <<>>)
    <2>1. \A p \in 1 .. Len(<<>>) :
             <<>>[p].k \notin {"hostonline", "hostversions", "rateresp", "bosrights"}
      BY EmptySeq
    <2> QED
      BY <1>1, <1>2, <2>1, OrderNews
  <1>3. ASSUME NEW m \in Answers(x.sent[x.got + 1]), Receives(x, y, <<m>>)
        PROVE  OrderInv(y)
    <2> DEFINE f == x.sent[x.got + 1]
    <2>1. /\ m \in Msgs
          /\ m.k = "hostonline" => f.k = "cookie"
          /\ m.k = "hostversions" => f.k = "versions"
          /\ m.k = "rateresp" => f.k = "reqrates"
          /\ m.k = "bosrights" => f.k = "reqrights"
      BY <1>1, AnswerKind
    <2>2. \A k : m.k # k => \A p \in 1 .. Len(<<m>>) : <<m>>[p].k # k
      BY <2>1, Singly
    <2>3. Exchange(y, "cookie", "hostonline", "versions")
      <3>1. CASE m.k = "hostonline"
        BY <1>1, <1>3, <2>1, <3>1, ExchangeAnswers DEF OrderInv
      <3>2. CASE m.k # "hostonline"
        BY <1>1, <1>3, <2>2, <3>2, ExchangeReceives DEF OrderInv
      <3> QED
        BY <3>1, <3>2
    <2>4. Exchange(y, "versions", "hostversions", "reqrates")
      <3>1. CASE m.k = "hostversions"
        BY <1>1, <1>3, <2>1, <3>1, ExchangeAnswers DEF OrderInv
      <3>2. CASE m.k # "hostversions"
        BY <1>1, <1>3, <2>2, <3>2, ExchangeReceives DEF OrderInv
      <3> QED
        BY <3>1, <3>2
    <2>5. Exchange(y, "reqrates", "rateresp", "rateack")
      <3>1. CASE m.k = "rateresp"
        BY <1>1, <1>3, <2>1, <3>1, ExchangeAnswers DEF OrderInv
      <3>2. CASE m.k # "rateresp"
        BY <1>1, <1>3, <2>2, <3>2, ExchangeReceives DEF OrderInv
      <3> QED
        BY <3>1, <3>2
    <2>6. ReadyInv(y)
      <3>1. y.type = x.type /\ y.sent = x.sent
        BY <1>3 DEF Receives, Same
      <3>2. CASE x.type = "bos"
        <4>1. CASE m.k = "bosrights"
          BY <1>1, <1>3, <2>1, <3>1, <3>2, <4>1, ExchangeAnswers DEF OrderInv, ReadyInv
        <4>2. CASE m.k # "bosrights"
          BY <1>1, <1>3, <2>2, <3>1, <3>2, <4>2, ExchangeReceives DEF OrderInv, ReadyInv
        <4> QED
          BY <4>1, <4>2
      <3>3. CASE x.type # "bos"
        <4>1. x.got + 1 \in 1 .. Len(x.sent)
          BY <1>1, Elements
        <4>2. m.k # "bosrights"
          BY <2>1, <3>3, <4>1 DEF OrderInv, ReadyInv, Has
        <4>3. ASSUME NEW p \in 1 .. Len(y.in)
              PROVE  y.in[p].k # "bosrights"
          <5>1. \A q \in 1 .. Len(<<m>>) : <<m>>[q].k # "bosrights"
            BY <2>2, <4>2
          <5>2. \A q \in 1 .. Len(x.in) : x.in[q].k # "bosrights"
            BY <3>3 DEF OrderInv, ReadyInv
          <5> DEFINE msgs == <<m>>
          <5>3. Receives(x, y, msgs) /\ \A q \in 1 .. Len(msgs) : msgs[q].k # "bosrights"
            BY <1>3, <5>1
          <5> HIDE DEF msgs
          <5>4. \/ p \in 1 .. Len(x.in) /\ y.in[p] = x.in[p]
                \/ p - Len(x.in) \in 1 .. Len(msgs) /\ y.in[p] = msgs[p - Len(x.in)]
            BY <5>3, NewsOf
          <5> QED
            BY <5>2, <5>3, <5>4
        <4> QED
          BY <3>1, <3>3, <4>3 DEF OrderInv, ReadyInv
      <3> QED
        BY <3>2, <3>3
    <2> QED
      BY <1>3, <2>3, <2>4, <2>5, <2>6, OrderReceives
  <1> QED
    BY <1>1, <1>2, <1>3

LEMMA OrderSends ==
    ASSUME NEW x \in Connections, ArgsRight(x), OrderInv(x), NEW y, NEW f, Sends(x, y, f),
           f.k \notin SetUpKinds
    PROVE  OrderInv(y)
  <1>0. /\ f.k \notin {"cookie", "versions", "reqrates", "rateack", "reqrights", "clientready"}
        /\ Len(x.sent) \in Nat /\ Len(x.sent) >= 1 /\ y.in = x.in /\ y.type = x.type
    BY Elements DEF SetUpKinds, OrderInv, Sends, Same
  <1>1. /\ Exchange(y, "cookie", "hostonline", "versions")
        /\ Exchange(y, "versions", "hostversions", "reqrates")
        /\ Exchange(y, "reqrates", "rateresp", "rateack")
    BY <1>0, ExchangeSends DEF OrderInv
  <1>2. ASSUME NEW i \in 1 .. Len(y.sent), y.sent[i].k \in SetUpKinds
        PROVE  i \in 1 .. Len(x.sent) /\ y.sent[i] = x.sent[i]
    BY <1>2, SendsElements
  <1>3. \A i \in 1 .. Len(x.sent) : i \in 1 .. Len(y.sent) /\ y.sent[i] = x.sent[i]
    BY <1>0, SendsElements
  <1>4. ReadyInv(y)
    <2>1. CASE x.type = "bos"
      BY <1>0, <2>1, ExchangeSends DEF OrderInv, ReadyInv
    <2>2. CASE x.type # "bos"
      <3>1. ~Has(y.sent, "reqrights")
        BY <1>2, <2>2 DEF OrderInv, ReadyInv, Has, SetUpKinds
      <3> QED
        BY <1>0, <2>2, <3>1 DEF OrderInv, ReadyInv
    <2> QED
      BY <2>1, <2>2
  <1>5. Once(y.sent, "rateack") /\ Once(y.sent, "clientready")
    BY <1>2 DEF OrderInv, Once, SetUpKinds
  <1>6. ASSUME NEW i \in 1 .. Len(y.sent), y.sent[i].k \in {"reqrights", "clientready"}
        PROVE  \E j \in 1 .. i - 1 : y.sent[j].k = "rateack"
    <2>1. i \in 1 .. Len(x.sent) /\ x.sent[i].k \in {"reqrights", "clientready"}
      BY <1>2, <1>6 DEF SetUpKinds
    <2>2. PICK j \in 1 .. i - 1 : x.sent[j].k = "rateack"
      BY <2>1 DEF OrderInv, AckFirst
    <2>3. j \in 1 .. Len(x.sent)
      BY <1>0, <2>1
    <2> QED
      BY <1>3, <2>2, <2>3
  <1>7. Len(y.sent) >= 1 /\ y.sent[1].k = "cookie"
    <2>1. 1 \in 1 .. Len(x.sent) /\ Len(y.sent) = Len(x.sent) + 1
      BY <1>0, SendsElements
    <2> QED
      BY <1>0, <1>3, <2>1 DEF OrderInv
  <1> QED
    BY <1>1, <1>4, <1>5, <1>6, <1>7 DEF OrderInv, AckFirst

\* A frame that completes the lists goes out with the frames that the step sends.
LEMMA NamedTakes ==
    ASSUME NEW x \in Connections, NEW y, NEW frames, Takes(x, y, frames),
           \A i \in 1 .. Len(x.sent) : Named(x.sent[i], x.type),
           \A i \in 1 .. Len(frames) : Named(frames[i], x.type)
    PROVE  \A i \in 1 .. Len(y.sent) : Named(y.sent[i], y.type)
  <1>1. y.type = x.type
    BY DEF Takes, Same
  <1>2. ASSUME NEW i \in 1 .. Len(y.sent)
        PROVE  Named(y.sent[i], x.type)
    <2>1. \/ i \in 1 .. Len(x.sent) /\ y.sent[i] = x.sent[i]
          \/ i - Len(x.sent) \in 1 .. Len(frames) /\ y.sent[i] = frames[i - Len(x.sent)]
      BY FrameOf
    <2> QED
      BY <2>1
  <1> QED
    BY <1>1, <1>2

\* The client waits for a pause from the time it knows the groups.
LEMMA PauseTakes ==
    ASSUME NEW x \in Connections, NEW y, NEW frames, Takes(x, y, frames), ListsInv(x),
           NEW p \in 1 .. Len(y.in), y.in[p].k = "pause"
    PROVE  Has(y.sent, "versions")
  <1>1. p + 1 \in 1 .. Len(x.in) /\ x.in[p + 1].k = "pause"
    BY TakesElements
  <1>2. Has(x.sent, "versions")
    BY <1>1 DEF ListsInv
  <1> QED
    BY <1>2, HasTakes

\* A response without versions and rateack leaves the lists alone.
LEMMA ListsIdle ==
    ASSUME NEW x \in Connections, ListsInv(x), NEW y, NEW frames, Takes(x, y, frames), Kept(x, y),
           ~Has(frames, "versions"), ~Has(frames, "rateack"),
           \A i \in 1 .. Len(frames) : Named(frames[i], x.type)
    PROVE  ListsInv(y)
  <1>1. /\ Has(y.sent, "versions") <=> Has(x.sent, "versions")
        /\ Has(y.sent, "rateack") <=> Has(x.sent, "rateack")
    BY HasTakes
  <1>2. y.groups = x.groups /\ y.rates = x.rates /\ y.done = x.done /\ y.type = x.type
    BY DEF Kept, Takes, Same
  <1>3. \A i \in 1 .. Len(y.sent) : Named(y.sent[i], y.type)
    BY NamedTakes DEF ListsInv
  <1>4. \A p \in 1 .. Len(y.in) : y.in[p].k = "pause" => Has(y.sent, "versions")
    BY PauseTakes
  <1> QED
    BY <1>1, <1>2, <1>3, <1>4 DEF ListsInv

LEMMA ListsOnline ==
    ASSUME NEW x \in Connections, ListsInv(x), ~Has(x.sent, "versions"), NEW y, NEW f \in Frames,
           f.k = "versions", f.list = Reverse(HostGroups(x.type)) \o x.groups,
           Takes(x, y, <<f>>), y.groups = f.list, y.rates = x.rates, y.done = x.done
    PROVE  ListsInv(y)
  <1> DEFINE l == Reverse(HostGroups(x.type))
  <1>1. l \in Seq(Items)
    BY HostGroupsAre DEF Connections
  <1>2. f.list = l
    <2>1. x.groups = <<>>
      BY DEF ListsInv
    <2> HIDE DEF l
    <2>2. l \o <<>> = l
      BY <1>1, ConcatEmptySeq
    <2> QED
      BY <2>1, <2>2 DEF l
  <1>3. y.type = x.type
    BY DEF Takes, Same
  <1>4. Named(f, x.type) /\ \A i \in 1 .. Len(<<f>>) : <<f>>[i] = f
    BY <1>2, Singly DEF Named
  <1>5. \A i \in 1 .. Len(y.sent) : Named(y.sent[i], y.type)
    BY <1>4, NamedTakes DEF ListsInv
  <1>6. /\ Has(y.sent, "versions")
        /\ Has(y.sent, "rateack") <=> Has(x.sent, "rateack")
    BY HasOne, HasTakes
  <1> QED
    BY <1>2, <1>3, <1>5, <1>6 DEF ListsInv

LEMMA ListsRates ==
    ASSUME NEW x \in Connections, ListsInv(x), ~Has(x.sent, "rateack"), NEW y, NEW f \in Frames, NEW g \in Frames,
           f.k = "rateack", f.list = x.rates \o HostRates, g.k \in {"reqrights", "clientready"},
           Takes(x, y, <<f, g>>), y.groups = x.groups, y.rates = f.list, y.done = TRUE
    PROVE  ListsInv(y)
  <1>1. f.list = HostRates
    <2>1. x.rates = <<>> /\ HostRates \in Seq(Items)
      BY HostRatesAre DEF ListsInv
    <2> QED
      BY <2>1, ConcatEmptySeq
  <1>2. y.type = x.type
    BY DEF Takes, Same
  <1>3. Named(f, x.type) /\ Named(g, x.type)
    BY <1>1 DEF Named
  <1>4. \A i \in 1 .. Len(<<f, g>>) : Named(<<f, g>>[i], x.type)
    BY <1>3, Doubly
  <1>5. \A i \in 1 .. Len(y.sent) : Named(y.sent[i], y.type)
    BY <1>4, NamedTakes DEF ListsInv
  <1>6. \A k : Has(<<f, g>>, k) <=> f.k = k \/ g.k = k
    BY HasTwo
  <1>7. /\ Has(y.sent, "rateack")
        /\ Has(y.sent, "versions") <=> Has(x.sent, "versions")
    BY <1>6, HasTakes
  <1>8. \A p \in 1 .. Len(y.in) : y.in[p].k = "pause" => Has(y.sent, "versions")
    BY PauseTakes
  <1> QED
    BY <1>2, <1>5, <1>7, <1>8 DEF ListsInv

\* What arrives, unless it is a pause, leaves the lists alone, and so do requests.
LEMMA ListsReceives ==
    ASSUME NEW x \in Connections, ListsInv(x), NEW y, NEW msgs, Receives(x, y, msgs), Kept(x, y),
           \A p \in 1 .. Len(msgs) : msgs[p].k = "pause" => Has(x.sent, "versions")
    PROVE  ListsInv(y)
  <1>1. y.groups = x.groups /\ y.rates = x.rates /\ y.done = x.done /\ y.type = x.type /\ y.sent = x.sent
    BY DEF Kept, Receives, Same
  <1>2. ASSUME NEW p \in 1 .. Len(y.in), y.in[p].k = "pause"
        PROVE  Has(x.sent, "versions")
    <2>1. \/ p \in 1 .. Len(x.in) /\ y.in[p] = x.in[p]
          \/ p - Len(x.in) \in 1 .. Len(msgs) /\ y.in[p] = msgs[p - Len(x.in)]
      BY NewsOf, SMTT(30)
    <2> QED
      BY <1>2, <2>1 DEF ListsInv
  <1> QED
    BY <1>1, <1>2 DEF ListsInv

LEMMA ListsSends ==
    ASSUME NEW x \in Connections, ListsInv(x), NEW y, NEW f, Sends(x, y, f), Kept(x, y),
           f.k \notin {"versions", "rateack", "pauseack"}
    PROVE  ListsInv(y)
  <1>0. y.groups = x.groups /\ y.rates = x.rates /\ y.done = x.done /\ y.type = x.type /\ y.in = x.in
    BY DEF Kept, Sends, Same
  <1>1. ASSUME NEW i \in 1 .. Len(y.sent)
        PROVE  (i \in 1 .. Len(x.sent) /\ y.sent[i] = x.sent[i]) \/ y.sent[i] = f
    BY SendsElements
  <1>2. \A i \in 1 .. Len(x.sent) : i \in 1 .. Len(y.sent) /\ y.sent[i] = x.sent[i]
    BY SendsElements, Elements
  <1>3. \A k \in {"versions", "rateack"} : Has(y.sent, k) <=> Has(x.sent, k)
    BY <1>1, <1>2 DEF Has
  <1>4. ASSUME NEW i \in 1 .. Len(y.sent)
        PROVE  Named(y.sent[i], x.type)
    <2>1. Named(f, x.type)
      BY DEF Named
    <2> QED
      BY <1>1, <2>1 DEF ListsInv
  <1> QED
    BY <1>0, <1>3, <1>4 DEF ListsInv

\* The handlers keep the set-up in order.
LEMMA HandlesSetUp ==
    ASSUME NEW x \in Connections, ArgsRight(x), OrderInv(x), ListsInv(x), NEW y, Handles(x, y)
    PROVE  OrderInv(y) /\ ListsInv(y)
  <1>0. x.in # <<>> /\ Head(x.in) = x.in[1] /\ 1 \in 1 .. Len(x.in)
    BY HeadTyped, Elements DEF Handles
  <1>a. ASSUME NEW f \in Frames, f.k \notin SetUpKinds, Named(f, x.type), Takes(x, y, <<f>>), Kept(x, y)
        PROVE  OrderInv(y) /\ ListsInv(y)
    <2>1. \A k : Has(<<f>>, k) <=> f.k = k
      BY HasOne
    <2>2. \A k \in SetUpKinds : ~Has(<<f>>, k)
      BY <1>a, <2>1
    <2>3. "versions" \in SetUpKinds /\ "rateack" \in SetUpKinds
      BY DEF SetUpKinds
    <2>4. \A i \in 1 .. Len(<<f>>) : Named(<<f>>[i], x.type)
      BY <1>a, Singly
    <2>5. OrderInv(y)
      BY <1>a, <2>2, OrderIdle
    <2>6. ListsInv(y)
      BY <1>a, <2>2, <2>3, <2>4, ListsIdle
    <2> QED
      BY <2>5, <2>6
  <1>b. ASSUME NEW f \in Frames, f.k \notin {"versions", "rateack", "pauseack"}, Takes(x, y, <<f>>), Kept(x, y)
        PROVE  ListsInv(y)
    <2>1. ~Has(<<f>>, "versions") /\ ~Has(<<f>>, "rateack")
      BY <1>b, HasOne
    <2>2. Named(f, x.type)
      BY <1>b DEF Named
    <2>3. \A i \in 1 .. Len(<<f>>) : Named(<<f>>[i], x.type)
      BY <2>2, Singly
    <2> QED
      BY <1>b, <2>1, <2>3, ListsIdle
  <1>1. CASE KeyStep(x, y)
    <2>1. PICK f \in Frames : f.k \in {"xorlogin", "snaclogin"} /\ Takes(x, y, <<f>>) /\ Kept(x, y)
      BY <1>0, <1>1, KeyEffect
    <2>2. f.k \notin SetUpKinds /\ Named(f, x.type)
      BY <2>1 DEF SetUpKinds, Named
    <2> QED
      BY <1>a, <2>1, <2>2
  <1>2. CASE QuietStep(x, y)
    <2>1. Takes(x, y, <<>>) /\ Kept(x, y)
      BY <1>0, <1>2, QuietEffect
    <2>2. \A k : ~Has(<<>>, k)
      BY HasNone
    <2>3. \A i \in 1 .. Len(<<>>) : Named(<<>>[i], x.type)
      BY EmptySeq
    <2>4. OrderInv(y)
      BY <2>1, <2>2, OrderIdle
    <2>5. ListsInv(y)
      BY <2>1, <2>2, <2>3, ListsIdle
    <2> QED
      BY <2>4, <2>5
  <1>3. CASE OnlineStep(x, y)
    <2>1. PICK f \in Frames :
              /\ f.k = "versions" /\ f.list = Reverse(HostGroups(x.type)) \o x.groups
              /\ Takes(x, y, <<f>>)
              /\ y.groups = f.list /\ y.rates = x.rates /\ y.done = x.done
      BY <1>0, <1>3, OnlineEffect
    <2>2. x.in[1].k = "hostonline" /\ ~Has(x.sent, "versions")
      BY <1>0, <1>3, NotYet DEF OnlineStep
    <2> QED
      BY <2>1, <2>2, OrderOnline, ListsOnline
  <1>4. CASE VersionsStep(x, y)
    <2>1. PICK f \in Frames : f.k = "reqrates" /\ Takes(x, y, <<f>>) /\ Kept(x, y)
      BY <1>0, <1>4, VersionsEffect
    <2>2. x.in[1].k = "hostversions"
      BY <1>0, <1>4 DEF VersionsStep
    <2> QED
      BY <1>b, <2>1, <2>2, OrderVersions
  <1>5. CASE RatesStep(x, y)
    <2>1. PICK f \in Frames, g \in Frames :
              /\ f.k = "rateack" /\ f.list = x.rates \o HostRates
              /\ g.k = (IF x.type = "bos" THEN "reqrights" ELSE "clientready")
              /\ Takes(x, y, <<f, g>>)
              /\ y.groups = x.groups /\ y.rates = f.list /\ y.done = TRUE
      BY <1>0, <1>5, RatesEffect
    <2>2. x.in[1].k = "rateresp" /\ ~Has(x.sent, "rateack")
      BY <1>0, <1>5, NotYet DEF RatesStep
    <2> QED
      BY <2>1, <2>2, OrderRates, ListsRates
  <1>6. CASE RightsStep(x, y)
    <2>1. PICK f \in Frames : f.k = "clientready" /\ Takes(x, y, <<f>>) /\ Kept(x, y)
      BY <1>0, <1>6, RightsEffect
    <2>2. x.in[1].k = "bosrights"
      BY <1>0, <1>6 DEF RightsStep
    <2> QED
      BY <1>b, <2>1, <2>2, OrderRights
  <1>7. CASE PauseStep(x, y)
    <2>1. PICK f \in Frames : f.k = "pauseack" /\ f.list = x.groups /\ Takes(x, y, <<f>>) /\ Kept(x, y)
      BY <1>0, <1>7, PauseEffect
    <2>2. x.in[1].k = "pause"
      BY <1>0, <1>7 DEF PauseStep
    <2>3. x.groups = Reverse(HostGroups(x.type))
      BY <1>0, <2>2 DEF ListsInv
    <2>4. f.k \notin SetUpKinds /\ Named(f, x.type)
      BY <2>1, <2>3 DEF SetUpKinds, Named
    <2> QED
      BY <1>a, <2>1, <2>4
  <1> QED
    BY <1>1, <1>2, <1>3, <1>4, <1>5, <1>6, <1>7 DEF Handles

\* By the time it is initialised a connection has answered for its groups.
LEMMA DoneKnows ==
    ASSUME NEW x \in Connections, OrderInv(x), ListsInv(x), x.done
    PROVE  Has(x.sent, "versions")
  <1>1. PICK i \in 1 .. Len(x.sent) : x.sent[i].k = "rateack"
    BY DEF ListsInv, Has
  <1>2. PICK j \in 1 .. i - 1 : x.sent[j].k = "reqrates"
    BY <1>1 DEF OrderInv, Exchange
  <1>3. j \in 1 .. Len(x.sent)
    BY Elements
  <1>4. PICK h \in 1 .. j - 1 : x.sent[h].k = "versions"
    BY <1>2, <1>3 DEF OrderInv, Exchange
  <1>5. h \in 1 .. Len(x.sent)
    BY <1>3, Elements
  <1> QED
    BY <1>4, <1>5 DEF Has

LEMMA MovesInOrder ==
    ASSUME NEW x \in Connections, ArgsRight(x), OrderInv(x), ListsInv(x), x.type # "auth",
           NEW y, Moves(x, y)
    PROVE  OrderInv(y) /\ ListsInv(y)
  <1>1. CASE Requests(x, y)
    <2>1. PICK f \in Frames : f.k \in {"service", "join", "im"} /\ Sends(x, y, f) /\ Kept(x, y)
      BY <1>1, RequestEffect
    <2>2. f.k \notin SetUpKinds /\ f.k \notin {"versions", "rateack", "pauseack"}
      BY <2>1 DEF SetUpKinds
    <2> QED
      BY <2>1, <2>2, OrderSends, ListsSends
  <1>2. CASE Handles(x, y)
    BY <1>2, HandlesSetUp
  <1>3. CASE Reads(x, y)
    <2>1. /\ Kept(x, y) /\ x.sent[x.got + 1] \in Frames
          /\ \/ Receives(x, y, <<>>)
             \/ \E m \in Answers(x.sent[x.got + 1]) : Receives(x, y, <<m>>)
      BY <1>3, ReadEffect
    <2>2. CASE Receives(x, y, <<>>)
      <3>1. \A p \in 1 .. Len(<<>>) : <<>>[p].k = "pause" => Has(x.sent, "versions")
        BY EmptySeq
      <3> QED
        BY <1>3, <2>1, <2>2, <3>1, OrderReads, ListsReceives
    <2>3. ASSUME NEW m \in Answers(x.sent[x.got + 1]), Receives(x, y, <<m>>)
          PROVE  OrderInv(y) /\ ListsInv(y)
      <3>1. m \in Msgs /\ m.k # "pause"
        BY <2>1, AnswerKind
      <3>2. \A p \in 1 .. Len(<<m>>) : <<m>>[p].k = "pause" => Has(x.sent, "versions")
        BY <3>1, Singly
      <3> QED
        BY <1>3, <2>1, <2>3, <3>2, OrderReads, ListsReceives
    <2> QED
      BY <2>1, <2>2, <2>3
  <1>4. CASE Pauses(x, y) \/ Closes(x, y)
    <2>1. PICK m \in Msgs : /\ Receives(x, y, <<m>>)
                            /\ m.k \in {"pause", "close"} /\ (m.k = "pause" => x.done)
      BY <1>4, NewsEffect
    <2>2. Kept(x, y) /\ y.got = x.got
      BY <1>4, NewsEffect
    <2>3. m.k = "pause" => Has(x.sent, "versions")
      BY <2>1, DoneKnows
    <2>4. \A p \in 1 .. Len(<<m>>) : <<m>>[p].k = "pause" => Has(x.sent, "versions")
      BY <2>3, Singly
    <2>5. \A p \in 1 .. Len(<<m>>) :
             <<m>>[p].k \notin {"hostonline", "hostversions", "rateresp", "bosrights"}
      BY <2>1, Singly
    <2> QED
      BY <2>1, <2>2, <2>4, <2>5, OrderNews, ListsReceives
  <1> QED
    BY <1>1, <1>2, <1>3, <1>4 DEF Moves

\* The authorizer gets a name and a password, and gives a key and a verdict.
LEMMA MovesAuth ==
    ASSUME NEW x \in Connections, AuthInv(x), x.type = "auth", NEW y, Moves(x, y)
    PROVE  AuthInv(y)
  <1>1. CASE Requests(x, y)
    <2>1. Contains(x.groups, "msg")
      BY <1>1 DEF Requests
    <2>2. x.groups = <<>> /\ Len(x.groups) = 0
      BY EmptySeq DEF AuthInv
    <2> QED
      BY <2>1, <2>2 DEF Contains
  <1>2. CASE Handles(x, y)
    <2>1. x.in # <<>> /\ Head(x.in) = x.in[1] /\ 1 \in 1 .. Len(x.in)
      BY <1>2, HeadTyped, Elements DEF Handles
    <2>2. Head(x.in).k \in {"key", "authresp"}
      BY <2>1 DEF AuthInv
    <2>3. KeyStep(x, y)
      BY <1>2, <2>2 DEF Handles, KeyStep, QuietStep, OnlineStep, VersionsStep, RatesStep, RightsStep, PauseStep
    <2>4. PICK f \in Frames : f.k \in {"xorlogin", "snaclogin"} /\ Takes(x, y, <<f>>) /\ Kept(x, y)
      BY <2>1, <2>3, KeyEffect
    <2>5. ASSUME NEW i \in 1 .. Len(y.sent)
          PROVE  y.sent[i].k \in {"xorlogin", "snaclogin", "flapver", "name"}
      <3> DEFINE frames == <<f>>
      <3>1. Takes(x, y, frames) /\ \A h \in 1 .. Len(frames) : frames[h] = f
        BY <2>4, Singly
      <3> HIDE DEF frames
      <3>2. \/ i \in 1 .. Len(x.sent) /\ y.sent[i] = x.sent[i]
            \/ y.sent[i] = f
        BY <3>1, FrameOf, SMTT(30)
      <3> QED
        BY <2>4, <3>2 DEF AuthInv
    <2>6. ASSUME NEW p \in 1 .. Len(y.in)
          PROVE  y.in[p].k \in {"key", "authresp"}
      <3>1. p + 1 \in 1 .. Len(x.in) /\ y.in[p] = x.in[p + 1]
        BY <2>4, TakesElements
      <3> QED
        BY <3>1 DEF AuthInv
    <2> QED
      BY <2>4, <2>5, <2>6 DEF AuthInv, Kept
  <1>3. CASE Reads(x, y)
    <2>1. /\ Kept(x, y) /\ x.got < Len(x.sent) /\ x.sent[x.got + 1] \in Frames
          /\ \/ Receives(x, y, <<>>)
             \/ \E m \in Answers(x.sent[x.got + 1]) : Receives(x, y, <<m>>)
      BY <1>3, ReadEffect
    <2>2. x.got + 1 \in 1 .. Len(x.sent)
      BY <2>1, Elements
    <2>3. x.sent[x.got + 1].k \in {"xorlogin", "snaclogin", "flapver", "name"}
      BY <2>2 DEF AuthInv
    <2>4. ASSUME NEW msgs, Receives(x, y, msgs), \A p \in 1 .. Len(msgs) : msgs[p].k \in {"key", "authresp"}
          PROVE  AuthInv(y)
      <3>1. ASSUME NEW p \in 1 .. Len(y.in)
            PROVE  y.in[p].k \in {"key", "authresp"}
        <4>1. \/ p \in 1 .. Len(x.in) /\ y.in[p] = x.in[p]
              \/ p - Len(x.in) \in 1 .. Len(msgs) /\ y.in[p] = msgs[p - Len(x.in)]
          BY <2>4, NewsOf
        <4> QED
          BY <2>4, <4>1 DEF AuthInv
      <3> QED
        BY <2>1, <2>4, <3>1 DEF AuthInv, Kept, Receives
    <2>5. CASE Receives(x, y, <<>>)
      <3>1. \A p \in 1 .. Len(<<>>) : <<>>[p].k \in {"key", "authresp"}
        BY EmptySeq
      <3> QED
        BY <2>4, <2>5, <3>1
    <2>6. ASSUME NEW m \in Answers(x.sent[x.got + 1]), Receives(x, y, <<m>>)
          PROVE  AuthInv(y)
      <3>1. m \in Msgs /\ m.k \in {"key", "authresp"}
        <4>1. m \in Msgs /\ m.k \in MsgKinds
          BY <2>1, AnswerKind DEF Msgs
        <4> QED
          BY <2>1, <2>3, <4>1, AnswerKind DEF MsgKinds
      <3>2. \A p \in 1 .. Len(<<m>>) : <<m>>[p].k \in {"key", "authresp"}
        BY <3>1, Singly
      <3> QED
        BY <2>4, <2>6, <3>2
    <2> QED
      BY <2>1, <2>5, <2>6
  <1>4. CASE Pauses(x, y) \/ Closes(x, y)
    BY <1>4 DEF Pauses, Closes
  <1> QED
    BY <1>1, <1>2, <1>3, <1>4 DEF Moves

LEMMA NewSetUp ==
    ASSUME NEW z, ToHost(z) \/ ToAuth(z)
    PROVE  SetUpInv(z)
  <1>1. CASE ToHost(z)
    <2>1. /\ z \in Connections /\ z.type # "auth"
          /\ Len(z.in) = 0 /\ z.got = 0 /\ z.groups = <<>> /\ z.rates = <<>> /\ ~z.done
          /\ Len(z.sent) = 1 /\ z.sent[1].k = "cookie"
      BY <1>1, ToHostTyped, EmptySeq
    <2>2. \A i \in 1 .. Len(z.sent) : i = 1 /\ z.sent[i].k = "cookie"
      BY <2>1
    <2>3. \A k : Once(z.sent, k) /\ (k # "cookie" => ~Has(z.sent, k))
      BY <2>2 DEF Once, Has
    <2>4. ASSUME NEW q, NEW m, NEW b, b # "cookie"
          PROVE  Exchange(z, q, m, b)
      BY <2>1, <2>2, <2>3, <2>4 DEF Exchange
    <2>5. ReadyInv(z)
      BY <2>1, <2>3, <2>4 DEF ReadyInv
    <2>6. AckFirst(z.sent)
      BY <2>2 DEF AckFirst
    <2>7. OrderInv(z)
      BY <2>1, <2>3, <2>4, <2>5, <2>6 DEF OrderInv
    <2>8. ListsInv(z)
      BY <2>1, <2>2, <2>3 DEF ListsInv, Named
    <2> QED
      BY <2>1, <2>7, <2>8 DEF SetUpInv
  <1>2. CASE ToAuth(z)
    BY <1>2, ToAuthTyped, EmptySeq DEF SetUpInv, AuthInv
  <1> QED
    BY <1>1, <1>2

LEMMA HandshakeStep ==
    ASSUME HandshakeInv, [Next]_vars
    PROVE  HandshakeInv'
  <1>1. CASE UNCHANGED vars
    <2>1. TypeInv'
      BY <1>1, TypeStep DEF HandshakeInv
    <2> QED
      BY <1>1, <2>1 DEF vars, userVars, HandshakeInv
  <1>2. CASE Next
    <2>1. TypeInv /\ TypeInv' /\ Shape
      BY <1>2, TypeStep, StepShape DEF HandshakeInv
    <2>2. ASSUME NEW d \in DOMAIN conns'
          PROVE  SetUpInv(conns'[d])
      <3>1. CASE d \in DOMAIN conns
        <4>1. conns[d] \in Connections /\ ArgsRight(conns[d]) /\ SetUpInv(conns[d])
          BY <3>1 DEF HandshakeInv, TypeInv
        <4>2. CASE conns'[d] = conns[d]
          BY <4>1, <4>2
        <4>3. CASE Moves(conns[d], conns'[d])
          <5>1. conns'[d].type = conns[d].type
            BY <4>1, <4>3, MovesTyped DEF Same
          <5>2. CASE conns[d].type = "auth"
            <6>1. AuthInv(conns'[d])
              BY <4>1, <4>3, <5>2, MovesAuth DEF SetUpInv
            <6> QED
              BY <5>1, <5>2, <6>1 DEF SetUpInv
          <5>3. CASE conns[d].type # "auth"
            <6>1. OrderInv(conns'[d]) /\ ListsInv(conns'[d])
              BY <4>1, <4>3, <5>3, MovesInOrder DEF SetUpInv
            <6> QED
              BY <5>1, <5>3, <6>1 DEF SetUpInv
          <5> QED
            BY <5>2, <5>3
        <4> QED
          BY <2>1, <3>1, <4>2, <4>3 DEF Shape
      <3>2. CASE d \notin DOMAIN conns
        BY <2>1, <3>2, NewSetUp DEF Shape
      <3> QED
        BY <3>1, <3>2
    <2> QED
      BY <2>1, <2>2 DEF HandshakeInv
  <1> QED
    BY <1>1, <1>2

LEMMA InitHandshake == Init => HandshakeInv
  BY TypeInit DEF Init, HandshakeInv

LEMMA StepsAre ==
    /\ DOMAIN Steps = 1 .. 5
    /\ Steps[1] = "cookie" /\ Steps[2] = "versions" /\ Steps[3] = "reqrates"
    /\ Steps[4] = "rateack" /\ Steps[5] = "clientready"
  BY DEF Steps

LEMMA OrderInOrder ==
    ASSUME NEW x \in Connections, OrderInv(x)
    PROVE  InOrder(x.sent)
  <1>1. DOMAIN x.sent = 1 .. Len(x.sent)
    BY Elements, LenProperties
  <1>2. /\ Once(x.sent, "cookie") /\ Once(x.sent, "versions") /\ Once(x.sent, "reqrates")
        /\ Once(x.sent, "rateack") /\ Once(x.sent, "clientready")
    BY DEF OrderInv, Exchange
  <1>3. ASSUME NEW i \in 1 .. Len(x.sent)
        PROVE  /\ x.sent[i].k = "versions" => \E j \in 1 .. i - 1 : x.sent[j].k = "cookie"
               /\ x.sent[i].k = "reqrates" => \E j \in 1 .. i - 1 : x.sent[j].k = "versions"
               /\ x.sent[i].k = "rateack" => \E j \in 1 .. i - 1 : x.sent[j].k = "reqrates"
               /\ x.sent[i].k = "clientready" => \E j \in 1 .. i - 1 : x.sent[j].k = "rateack"
    BY DEF OrderInv, Exchange, AckFirst
  <1>4. ASSUME NEW i \in 1 .. Len(x.sent), NEW n \in 1 .. 5, x.sent[i].k = Steps[n]
        PROVE  /\ \A j \in 1 .. Len(x.sent) : x.sent[j].k = Steps[n] => i = j
               /\ n > 1 => \E j \in 1 .. i - 1 : x.sent[j].k = Steps[n - 1]
    <2>1. \A j \in 1 .. Len(x.sent) : x.sent[j].k = Steps[n] => i = j
      <3>1. Once(x.sent, Steps[n])
        BY <1>2, StepsAre
      <3> QED
        BY <1>4, <3>1 DEF Once
    <2>2. CASE n = 1
      BY <2>1, <2>2
    <2>3. CASE n = 2
      <3>1. Steps[n] = "versions" /\ n - 1 = 1 /\ Steps[1] = "cookie"
        BY <2>3, StepsAre
      <3>2. \E j \in 1 .. i - 1 : x.sent[j].k = "cookie"
        BY <1>3, <1>4, <3>1, Zenon
      <3> QED
        BY <2>1, <3>1, <3>2
    <2>4. CASE n = 3
      <3>1. Steps[n] = "reqrates" /\ n - 1 = 2 /\ Steps[2] = "versions"
        BY <2>4, StepsAre
      <3>2. \E j \in 1 .. i - 1 : x.sent[j].k = "versions"
        BY <1>3, <1>4, <3>1, Zenon
      <3> QED
        BY <2>1, <3>1, <3>2
    <2>5. CASE n = 4
      <3>1. Steps[n] = "rateack" /\ n - 1 = 3 /\ Steps[3] = "reqrates"
        BY <2>5, StepsAre
      <3>2. \E j \in 1 .. i - 1 : x.sent[j].k = "reqrates"
        BY <1>3, <1>4, <3>1, Zenon
      <3> QED
        BY <2>1, <3>1, <3>2
    <2>6. CASE n = 5
      <3>1. Steps[n] = "clientready" /\ n - 1 = 4 /\ Steps[4] = "rateack"
        BY <2>6, StepsAre
      <3>2. \E j \in 1 .. i - 1 : x.sent[j].k = "rateack"
        BY <1>3, <1>4, <3>1, Zenon
      <3> QED
        BY <2>1, <3>1, <3>2
    <2> QED
      BY <2>2, <2>3, <2>4, <2>5, <2>6
  <1>5. x.sent # <<>> => x.sent[1].k = "cookie"
    BY DEF OrderInv
  <1>6. \A i \in DOMAIN x.sent : \A n \in DOMAIN Steps : x.sent[i].k = Steps[n] =>
           /\ \A j \in DOMAIN x.sent : x.sent[j].k = Steps[n] => i = j
           /\ n > 1 => \E j \in 1 .. i - 1 : x.sent[j].k = Steps[n - 1]
    <2>1. DOMAIN Steps = 1 .. 5
      BY StepsAre
    <2> QED
      BY <1>1, <1>4, <2>1
  <1> QED
    BY <1>5, <1>6, Zenon DEF InOrder

LEMMA NamedComplete ==
    ASSUME NEW type \in ConnTypes, NEW f, Named(f, type), f.k \in {"versions", "rateack", "pauseack"}
    PROVE  /\ Range(f.list) = Range(IF f.k = "rateack" THEN HostRates ELSE HostGroups(type))
           /\ IsInjective(f.list)
  <1>1. CASE f.k = "rateack"
    <2>1. f.list = HostRates /\ DOMAIN HostRates = 1 .. 2
      BY <1>1, HostRatesAre, LenProperties DEF Named
    <2>2. IsInjective(HostRates)
      BY <2>1, HostRatesAre DEF IsInjective
    <2> QED
      BY <1>1, <2>1, <2>2
  <1>2. CASE f.k # "rateack"
    <2> DEFINE g == HostGroups(type)
               r == Reverse(g)
    <2>1. /\ f.list = r /\ g[1] # g[2] /\ r[1] = g[2] /\ r[2] = g[1]
          /\ DOMAIN g = 1 .. 2 /\ DOMAIN r = 1 .. 2
      <3>1. f.list = r
        BY <1>2 DEF Named
      <3>2. /\ g \in Seq(Items) /\ Len(g) = 2 /\ r \in Seq(Items) /\ Len(r) = 2
            /\ g[1] = "gen" /\ g[2] = (IF type = "bos" THEN "msg" ELSE type)
            /\ r[1] = g[2] /\ r[2] = g[1]
        BY HostGroupsAre
      <3>3. type # "gen"
        BY DEF ConnTypes
      <3> HIDE DEF g, r
      <3> QED
        BY <3>1, <3>2, <3>3, LenProperties
    <2> HIDE DEF g, r
    <2>2. Range(r) = Range(g)
      BY <2>1 DEF Range
    <2>3. IsInjective(r)
      BY <2>1 DEF IsInjective
    <2> QED
      BY <1>2, <2>1, <2>2, <2>3 DEF g
  <1> QED
    BY <1>1, <1>2

\* Every connection but the authorizer's begins with its cookie and is set up in order
\* (auth.c:17-19, service.c:82-87, 463-467): the exchanges overlap with requests, pauses
\* and the rights of a BOS, and the order is that of the client's frames among all these.
THEOREM SetUpInOrder == Spec => []HandshakeInOrder
  <1>1. HandshakeInv /\ [Next]_vars => HandshakeInv'
    BY HandshakeStep
  <1>2. HandshakeInv => HandshakeInOrder
    BY OrderInOrder DEF HandshakeInv, TypeInv, SetUpInv, HandshakeInOrder
  <1> QED
    BY <1>1, <1>2, InitHandshake, PTL DEF Spec

\* Versions, a rate acknowledgement and a pause acknowledgement name each group and each
\* class that the host named, once (service.c:463-467, 690-693), because the host names
\* them once on a connection and a pause comes after that.
THEOREM EverythingNamed == Spec => []ListsComplete
  <1>1. HandshakeInv /\ [Next]_vars => HandshakeInv'
    BY HandshakeStep
  <1>2. ASSUME HandshakeInv, NEW c \in DOMAIN conns, NEW i \in DOMAIN conns[c].sent,
               conns[c].sent[i].k \in {"versions", "rateack", "pauseack"}
        PROVE  Named(conns[c].sent[i], conns[c].type) /\ conns[c].type \in ConnTypes
    <2>1. conns[c] \in Connections /\ SetUpInv(conns[c])
      BY <1>2 DEF HandshakeInv, TypeInv
    <2>2. i \in 1 .. Len(conns[c].sent)
      BY <2>1, Elements, LenProperties
    <2> QED
      BY <1>2, <2>1, <2>2 DEF SetUpInv, AuthInv, ListsInv, Connections
  <1>3. HandshakeInv => ListsComplete
    BY <1>2, NamedComplete DEF ListsComplete
  <1> QED
    BY <1>1, <1>3, InitHandshake, PTL DEF Spec

-----------------------------------------------------------------------------
(* The rooms of chats *)

Asked(f) == f.k \in {"service", "join"}
NoneAsked(frames) == \A i \in 1 .. Len(frames) : ~Asked(frames[i])

\* The ids below n tell what was asked for on a connection apart, and each redirect on
\* its way, of which no two have the same id, answers what the server has read.
ReqInv(x, n) ==
    /\ \A i \in 1 .. Len(x.sent) : Asked(x.sent[i]) => x.sent[i].id < n
    /\ \A i, j \in 1 .. Len(x.sent) :
          Asked(x.sent[i]) /\ Asked(x.sent[j]) /\ x.sent[i].id = x.sent[j].id => i = j
    /\ \A p \in 1 .. Len(x.in) : x.in[p].k = "redirect" =>
          \E i \in 1 .. x.got : Asked(x.sent[i]) /\ x.sent[i].id = x.in[p].id
    /\ \A p, r \in 1 .. Len(x.in) :
          x.in[p].k = "redirect" /\ x.in[r].k = "redirect" /\ x.in[p].id = x.in[r].id => p = r

\* As long as a room is waited for, the cache remembers it under the id of the request.
Waits(x, cache) ==
    /\ \A i \in 1 .. Len(x.sent) : i > x.got /\ Asked(x.sent[i]) /\ x.sent[i].arg \in Rooms =>
          [id |-> x.sent[i].id, room |-> x.sent[i].arg] \in cache
    /\ \A p \in 1 .. Len(x.in) : x.in[p].k = "redirect" /\ x.in[p].arg \in Rooms =>
          [id |-> x.in[p].id, room |-> x.in[p].arg] \in cache

Apart(x, y) ==
    \A i \in 1 .. Len(x.sent), j \in 1 .. Len(y.sent) :
        Asked(x.sent[i]) /\ Asked(y.sent[j]) => x.sent[i].id # y.sent[j].id

CacheOnce == \A s, t \in snacs : s.id = t.id => s = t

RoomInv ==
    /\ TypeInv
    /\ CacheOnce
    /\ \A s \in snacs : s.id < nextid
    /\ \A c \in DOMAIN conns : ReqInv(conns[c], nextid) /\ Waits(conns[c], snacs)
    /\ \A c, d \in DOMAIN conns : c # d => Apart(conns[c], conns[d])
    /\ RoomNamed

LEMMA NoneAskedIs ==
    /\ NoneAsked(<<>>)
    /\ \A f \in Frames : ~Asked(f) => NoneAsked(<<f>>)
    /\ \A f, g \in Frames : ~Asked(f) /\ ~Asked(g) => NoneAsked(<<f, g>>)
  <1>1. NoneAsked(<<>>)
    BY EmptySeq DEF NoneAsked
  <1>2. \A f \in Frames : ~Asked(f) => NoneAsked(<<f>>)
    BY Singly DEF NoneAsked
  <1>3. \A f, g \in Frames : ~Asked(f) /\ ~Asked(g) => NoneAsked(<<f, g>>)
    BY Doubly DEF NoneAsked
  <1> QED
    BY <1>1, <1>2, <1>3

\* A handler asks for nothing.
LEMMA HandlesAsked ==
    ASSUME NEW x \in Connections, NEW y, Handles(x, y)
    PROVE  \E frames : Takes(x, y, frames) /\ NoneAsked(frames)
  <1>0. x.in # <<>>
    BY DEF Handles
  <1>1. CASE KeyStep(x, y)
    <2>1. PICK f \in Frames : f.k \in {"xorlogin", "snaclogin"} /\ Takes(x, y, <<f>>)
      BY <1>0, <1>1, KeyEffect
    <2> QED
      BY <2>1, NoneAskedIs DEF Asked
  <1>2. CASE QuietStep(x, y)
    BY <1>0, <1>2, QuietEffect, NoneAskedIs
  <1>3. CASE OnlineStep(x, y)
    BY <1>0, <1>3, OnlineEffect, NoneAskedIs DEF Asked
  <1>4. CASE VersionsStep(x, y)
    BY <1>0, <1>4, VersionsEffect, NoneAskedIs DEF Asked
  <1>5. CASE RatesStep(x, y)
    <2>1. PICK f \in Frames, g \in Frames :
              /\ f.k = "rateack" /\ g.k \in {"reqrights", "clientready"} /\ Takes(x, y, <<f, g>>)
      BY <1>0, <1>5, RatesEffect
    <2> QED
      BY <2>1, NoneAskedIs DEF Asked
  <1>6. CASE RightsStep(x, y)
    BY <1>0, <1>6, RightsEffect, NoneAskedIs DEF Asked
  <1>7. CASE PauseStep(x, y)
    BY <1>0, <1>7, PauseEffect, NoneAskedIs DEF Asked
  <1> QED
    BY <1>1, <1>2, <1>3, <1>4, <1>5, <1>6, <1>7 DEF Handles

LEMMA RoomTakes ==
    ASSUME NEW x \in Connections, NEW y, NEW frames, Takes(x, y, frames), NoneAsked(frames),
           x.got <= Len(x.sent), NEW n \in Nat, NEW m \in Nat, n <= m, ReqInv(x, n),
           NEW cache, NEW left, Waits(x, cache),
           \A s \in cache : s \in left \/ (x.in[1].k = "redirect" /\ s.id = x.in[1].id)
    PROVE  ReqInv(y, m) /\ Waits(y, left)
  <1>0. /\ Len(x.sent) \in Nat /\ x.got \in Nat /\ y.got = x.got /\ 1 \in 1 .. Len(x.in)
        /\ \A i \in 1 .. Len(x.sent) : i \in 1 .. Len(y.sent) /\ y.sent[i] = x.sent[i] /\ x.sent[i].id \in Int
    <2>1. /\ Len(x.sent) \in Nat /\ x.got \in Nat /\ Len(x.in) \in Nat
          /\ \A i \in 1 .. Len(x.sent) : x.sent[i] \in Frames
      BY Elements
    <2>2. y.got = x.got
      BY DEF Takes
    <2>3. /\ Len(y.sent) = Len(x.sent) + Len(frames) /\ Len(frames) \in Nat
          /\ \A i \in 1 .. Len(x.sent) : y.sent[i] = x.sent[i]
          /\ Len(x.in) >= 1
      BY TakesElements
    <2>4. \A f \in Frames : f.id \in Int
      BY DEF Frames
    <2>5. \A i \in 1 .. Len(x.sent) : i \in 1 .. Len(y.sent)
      BY <2>1, <2>3
    <2>6. 1 \in 1 .. Len(x.in)
      BY <2>1, <2>3
    <2> QED
      BY <2>1, <2>2, <2>3, <2>4, <2>5, <2>6
  <1>1. ASSUME NEW i \in 1 .. Len(y.sent), Asked(y.sent[i])
        PROVE  i \in 1 .. Len(x.sent) /\ y.sent[i] = x.sent[i]
    <2>1. \/ i \in 1 .. Len(x.sent) /\ y.sent[i] = x.sent[i]
          \/ \E j \in 1 .. Len(frames) : y.sent[i] = frames[j]
      BY FrameOf, SMTT(30)
    <2>2. \A j \in 1 .. Len(frames) : ~Asked(frames[j])
      BY DEF NoneAsked
    <2> QED
      BY <1>1, <2>1, <2>2, Zenon
  <1>2. \A p \in 1 .. Len(y.in) : p + 1 \in 1 .. Len(x.in) /\ y.in[p] = x.in[p + 1]
    BY TakesElements
  <1>3. ReqInv(y, m)
    <2>1. ASSUME NEW i \in 1 .. Len(y.sent), Asked(y.sent[i])
          PROVE  y.sent[i].id < m
      <3>1. i \in 1 .. Len(x.sent) /\ y.sent[i] = x.sent[i]
        BY <1>1, <2>1, Zenon
      <3>2. x.sent[i].id < n
        BY <2>1, <3>1, Zenon DEF ReqInv
      <3>3. x.sent[i].id \in Int
        BY <1>0, <3>1, Zenon
      <3> QED
        BY <3>1, <3>2, <3>3
    <2>2. \A i, j \in 1 .. Len(y.sent) :
             Asked(y.sent[i]) /\ Asked(y.sent[j]) /\ y.sent[i].id = y.sent[j].id => i = j
      BY <1>1 DEF ReqInv
    <2>3. ASSUME NEW p \in 1 .. Len(y.in), y.in[p].k = "redirect"
          PROVE  \E i \in 1 .. y.got : Asked(y.sent[i]) /\ y.sent[i].id = y.in[p].id
      <3>1. PICK i \in 1 .. x.got : Asked(x.sent[i]) /\ x.sent[i].id = x.in[p + 1].id
        BY <1>2, <2>3 DEF ReqInv
      <3>2. i \in 1 .. Len(x.sent)
        BY <1>0
      <3> QED
        BY <1>0, <1>2, <3>1, <3>2
    <2>4. ASSUME NEW p \in 1 .. Len(y.in), NEW r \in 1 .. Len(y.in),
                 y.in[p].k = "redirect", y.in[r].k = "redirect", y.in[p].id = y.in[r].id
          PROVE  p = r
      <3> DEFINE q == p + 1
                 t == r + 1
      <3>1. q \in 1 .. Len(x.in) /\ t \in 1 .. Len(x.in) /\ y.in[p] = x.in[q] /\ y.in[r] = x.in[t]
        BY <1>2
      <3> HIDE DEF q, t
      <3>2. q = t
        BY <2>4, <3>1 DEF ReqInv
      <3> QED
        BY <3>2 DEF q, t
    <2> QED
      BY <2>1, <2>2, <2>3, <2>4 DEF ReqInv
  <1>4. ASSUME NEW i \in 1 .. Len(y.sent), i > y.got, Asked(y.sent[i]), y.sent[i].arg \in Rooms
        PROVE  [id |-> y.sent[i].id, room |-> y.sent[i].arg] \in left
    <2>1. i \in 1 .. Len(x.sent) /\ y.sent[i] = x.sent[i] /\ i > x.got
      BY <1>0, <1>1, <1>4
    <2>2. [id |-> x.sent[i].id, room |-> x.sent[i].arg] \in cache
      BY <1>4, <2>1 DEF Waits
    <2>3. ~(x.in[1].k = "redirect" /\ x.sent[i].id = x.in[1].id)
      <3> SUFFICES ASSUME x.in[1].k = "redirect", x.sent[i].id = x.in[1].id
                   PROVE  FALSE
        OBVIOUS
      <3>1. PICK j \in 1 .. x.got : Asked(x.sent[j]) /\ x.sent[j].id = x.in[1].id
        BY <1>0 DEF ReqInv
      <3>2. j \in 1 .. Len(x.sent) /\ j # i
        BY <1>0, <2>1
      <3> QED
        BY <1>4, <2>1, <3>1, <3>2 DEF ReqInv
    <2> QED
      BY <2>1, <2>2, <2>3
  <1>5. ASSUME NEW p \in 1 .. Len(y.in), y.in[p].k = "redirect", y.in[p].arg \in Rooms
        PROVE  [id |-> y.in[p].id, room |-> y.in[p].arg] \in left
    <2>1. p + 1 \in 1 .. Len(x.in) /\ y.in[p] = x.in[p + 1] /\ p + 1 # 1
      BY <1>2
    <2>2. [id |-> x.in[p + 1].id, room |-> x.in[p + 1].arg] \in cache
      BY <1>5, <2>1 DEF Waits
    <2>3. ~(x.in[1].k = "redirect" /\ x.in[p + 1].id = x.in[1].id)
      BY <1>0, <1>5, <2>1 DEF ReqInv
    <2> QED
      BY <2>1, <2>2, <2>3
  <1> QED
    BY <1>3, <1>4, <1>5 DEF Waits

\* A redirect that arrives answers a frame that is read as it is sent.
FromRead(x, y, msgs) ==
    /\ y.got \in Nat /\ y.got >= x.got /\ y.got <= Len(x.sent) /\ Len(msgs) \in {0, 1}
    /\ \A p \in 1 .. Len(msgs) : msgs[p].k = "redirect" =>
          \E i \in 1 .. y.got : /\ i > x.got /\ Asked(x.sent[i])
                                /\ x.sent[i].id = msgs[p].id /\ x.sent[i].arg = msgs[p].arg

\* The server reads a frame and perhaps answers it.
LEMMA RoomReceives ==
    ASSUME NEW x \in Connections, NEW y, NEW msgs, Receives(x, y, msgs), FromRead(x, y, msgs),
           NEW n \in Nat, NEW m \in Nat, n <= m, ReqInv(x, n),
           NEW cache, NEW left, Waits(x, cache), cache \subseteq left
    PROVE  ReqInv(y, m) /\ Waits(y, left)
  <1>a. /\ y.got \in Nat /\ y.got >= x.got /\ y.got <= Len(x.sent) /\ Len(msgs) \in {0, 1}
        /\ \A p \in 1 .. Len(msgs) : msgs[p].k = "redirect" =>
              \E i \in 1 .. y.got : /\ i > x.got /\ Asked(x.sent[i])
                                    /\ x.sent[i].id = msgs[p].id /\ x.sent[i].arg = msgs[p].arg
    BY DEF FromRead
  <1>0. /\ Len(x.sent) \in Nat /\ x.got \in Nat /\ y.sent = x.sent
        /\ \A i \in 1 .. Len(x.sent) : x.sent[i].id \in Int
    BY Elements, ReceivesElements DEF Frames
  <1>1. ASSUME NEW p \in 1 .. Len(y.in), p \notin 1 .. Len(x.in)
        PROVE  /\ p = Len(x.in) + 1
               /\ y.in[p].k = "redirect" =>
                     \E i \in 1 .. y.got : /\ i > x.got /\ Asked(x.sent[i])
                                           /\ x.sent[i].id = y.in[p].id /\ x.sent[i].arg = y.in[p].arg
    <2>1. p - Len(x.in) \in 1 .. Len(msgs) /\ y.in[p] = msgs[p - Len(x.in)]
      BY <1>1, NewsOf, SMTT(30)
    <2>2. Len(x.in) \in Nat
      BY Elements
    <2>3. p = Len(x.in) + 1
      <3> DEFINE n1 == Len(x.in)
                 n2 == Len(msgs)
      <3>1. p - n1 \in 1 .. n2
        BY <2>1, Zenon
      <3>2. n2 = 0 \/ n2 = 1
        BY <1>a
      <3>3. p \in Int /\ n1 \in Nat
        BY <2>2
      <3> HIDE DEF n1, n2
      <3>4. p = n1 + 1
        BY <3>1, <3>2, <3>3
      <3> QED
        BY <3>4 DEF n1
    <2> QED
      BY <1>a, <2>1, <2>3
  <1>2. \A p \in 1 .. Len(x.in) : p \in 1 .. Len(y.in) => y.in[p] = x.in[p]
    BY ReceivesElements
  \* An answer has another id than those before it.
  <1>3. ASSUME NEW p \in 1 .. Len(y.in), NEW r \in 1 .. Len(y.in), p \in 1 .. Len(x.in), r \notin 1 .. Len(x.in),
               y.in[p].k = "redirect", y.in[r].k = "redirect"
        PROVE  y.in[p].id # y.in[r].id
    <2>1. PICK i \in 1 .. x.got : Asked(x.sent[i]) /\ x.sent[i].id = y.in[p].id
      BY <1>2, <1>3 DEF ReqInv
    <2>2. PICK j \in 1 .. y.got : j > x.got /\ Asked(x.sent[j]) /\ x.sent[j].id = y.in[r].id
      BY <1>1, <1>3
    <2>3. i \in 1 .. Len(x.sent) /\ j \in 1 .. Len(x.sent) /\ i # j
      BY <1>0, <1>a, <2>2
    <2> QED
      BY <2>1, <2>2, <2>3 DEF ReqInv
  <1>4. ReqInv(y, m)
    <2>1. \A i \in 1 .. Len(y.sent) : Asked(y.sent[i]) => y.sent[i].id < m
      BY <1>0 DEF ReqInv
    <2>2. \A i, j \in 1 .. Len(y.sent) :
             Asked(y.sent[i]) /\ Asked(y.sent[j]) /\ y.sent[i].id = y.sent[j].id => i = j
      BY <1>0 DEF ReqInv
    <2>3. ASSUME NEW p \in 1 .. Len(y.in), y.in[p].k = "redirect"
          PROVE  \E i \in 1 .. y.got : Asked(y.sent[i]) /\ y.sent[i].id = y.in[p].id
      <3>1. CASE p \in 1 .. Len(x.in)
        <4>0. y.in[p] = x.in[p]
          BY <1>2, <3>1
        <4>1. PICK i \in 1 .. x.got : Asked(x.sent[i]) /\ x.sent[i].id = x.in[p].id
          BY <2>3, <3>1, <4>0 DEF ReqInv
        <4> QED
          BY <1>0, <1>a, <4>0, <4>1
      <3>2. CASE p \notin 1 .. Len(x.in)
        BY <1>0, <1>1, <2>3, <3>2
      <3> QED
        BY <3>1, <3>2
    <2>4. ASSUME NEW p \in 1 .. Len(y.in), NEW r \in 1 .. Len(y.in),
                 y.in[p].k = "redirect", y.in[r].k = "redirect", y.in[p].id = y.in[r].id
          PROVE  p = r
      <3>1. CASE p \in 1 .. Len(x.in) /\ r \in 1 .. Len(x.in)
        BY <1>2, <2>4, <3>1 DEF ReqInv
      <3>2. CASE p \notin 1 .. Len(x.in) /\ r \notin 1 .. Len(x.in)
        BY <1>1, <3>2
      <3> QED
        BY <1>3, <2>4, <3>1, <3>2
    <2> QED
      BY <2>1, <2>2, <2>3, <2>4 DEF ReqInv
  <1>5. ASSUME NEW i \in 1 .. Len(y.sent), i > y.got, Asked(y.sent[i]), y.sent[i].arg \in Rooms
        PROVE  [id |-> y.sent[i].id, room |-> y.sent[i].arg] \in left
    BY <1>0, <1>a, <1>5 DEF Waits
  <1>6. ASSUME NEW p \in 1 .. Len(y.in), y.in[p].k = "redirect", y.in[p].arg \in Rooms
        PROVE  [id |-> y.in[p].id, room |-> y.in[p].arg] \in left
    <2>1. CASE p \in 1 .. Len(x.in)
      BY <1>2, <1>6, <2>1 DEF Waits
    <2>2. CASE p \notin 1 .. Len(x.in)
      <3>1. PICK i \in 1 .. y.got : /\ i > x.got /\ Asked(x.sent[i])
                                    /\ x.sent[i].id = y.in[p].id /\ x.sent[i].arg = y.in[p].arg
        BY <1>1, <1>6, <2>2
      <3>2. i \in 1 .. Len(x.sent)
        BY <1>0, <1>a
      <3>3. [id |-> x.sent[i].id, room |-> x.sent[i].arg] \in cache
        BY <1>6, <3>1, <3>2 DEF Waits
      <3> QED
        BY <3>1, <3>3
    <2> QED
      BY <2>1, <2>2
  <1> QED
    BY <1>4, <1>5, <1>6 DEF Waits

\* The client asks under the next id.
LEMMA RoomSends ==
    ASSUME NEW x \in Connections, NEW y, NEW f, Sends(x, y, f), x.got <= Len(x.sent),
           NEW n \in Nat, f.id = n, ReqInv(x, n), NEW cache, NEW left, Waits(x, cache), cache \subseteq left,
           Asked(f) /\ f.arg \in Rooms => [id |-> f.id, room |-> f.arg] \in left
    PROVE  ReqInv(y, n + 1) /\ Waits(y, left)
  <1>0. /\ Len(x.sent) \in Nat /\ x.got \in Nat /\ y.got = x.got /\ y.in = x.in
        /\ \A i \in 1 .. Len(x.sent) : /\ i \in 1 .. Len(y.sent) /\ y.sent[i] = x.sent[i]
                                       /\ x.sent[i].id \in Int
    <2>1. Len(x.sent) \in Nat /\ x.got \in Nat /\ y.got = x.got /\ y.in = x.in
      BY Elements DEF Sends
    <2>2. \A i \in 1 .. Len(x.sent) : i \in 1 .. Len(y.sent) /\ y.sent[i] = x.sent[i]
      BY <2>1, SendsElements
    <2>3. \A i \in 1 .. Len(x.sent) : x.sent[i].id \in Int
      BY Elements DEF Frames
    <2> QED
      BY <2>1, <2>2, <2>3
  <1>1. ASSUME NEW i \in 1 .. Len(y.sent)
        PROVE  \/ i \in 1 .. Len(x.sent) /\ y.sent[i] = x.sent[i]
               \/ i = Len(x.sent) + 1 /\ y.sent[i] = f
    BY SendsElements
  <1>2. ASSUME NEW i \in 1 .. Len(y.sent), Asked(y.sent[i])
        PROVE  y.sent[i].id < n + 1 /\ (y.sent[i].id = n => i = Len(x.sent) + 1)
    <2>1. CASE i \in 1 .. Len(x.sent) /\ y.sent[i] = x.sent[i]
      <3>1. x.sent[i].id < n /\ x.sent[i].id \in Int
        BY <1>0, <1>2, <2>1 DEF ReqInv
      <3> QED
        BY <2>1, <3>1
    <2>2. CASE i = Len(x.sent) + 1 /\ y.sent[i] = f
      BY <2>2
    <2> QED
      BY <1>1, <2>1, <2>2
  <1>3. ReqInv(y, n + 1)
    <2>2. ASSUME NEW i \in 1 .. Len(y.sent), NEW j \in 1 .. Len(y.sent),
                 Asked(y.sent[i]), Asked(y.sent[j]), y.sent[i].id = y.sent[j].id
          PROVE  i = j
      <3>1. CASE y.sent[i].id = n
        BY <1>2, <2>2, <3>1
      <3>2. CASE y.sent[i].id # n
        <4>1. /\ i \in 1 .. Len(x.sent) /\ y.sent[i] = x.sent[i]
              /\ j \in 1 .. Len(x.sent) /\ y.sent[j] = x.sent[j]
          BY <1>1, <2>2, <3>2
        <4> QED
          BY <2>2, <4>1 DEF ReqInv
      <3> QED
        BY <3>1, <3>2
    <2>3. ASSUME NEW p \in 1 .. Len(y.in), y.in[p].k = "redirect"
          PROVE  \E i \in 1 .. y.got : Asked(y.sent[i]) /\ y.sent[i].id = y.in[p].id
      <3>1. PICK i \in 1 .. x.got : Asked(x.sent[i]) /\ x.sent[i].id = x.in[p].id
        BY <1>0, <2>3 DEF ReqInv
      <3>2. i \in 1 .. Len(x.sent)
        BY <1>0
      <3> QED
        BY <1>0, <3>1, <3>2
    <2>4. \A p, r \in 1 .. Len(y.in) :
             y.in[p].k = "redirect" /\ y.in[r].k = "redirect" /\ y.in[p].id = y.in[r].id => p = r
      BY <1>0 DEF ReqInv
    <2> QED
      BY <1>2, <2>2, <2>3, <2>4 DEF ReqInv
  <1>4. ASSUME NEW i \in 1 .. Len(y.sent), i > y.got, Asked(y.sent[i]), y.sent[i].arg \in Rooms
        PROVE  [id |-> y.sent[i].id, room |-> y.sent[i].arg] \in left
    BY <1>0, <1>1, <1>4 DEF Waits
  <1>5. ASSUME NEW p \in 1 .. Len(y.in), y.in[p].k = "redirect", y.in[p].arg \in Rooms
        PROVE  [id |-> y.in[p].id, room |-> y.in[p].arg] \in left
    BY <1>0, <1>5 DEF Waits
  <1> QED
    BY <1>3, <1>4, <1>5 DEF Waits

LEMMA MovesRoom ==
    ASSUME NEW x \in Connections, ArgsRight(x), NEW y, Moves(x, y), nextid \in Nat, nextid' \in Nat,
           nextid <= nextid', snacs \subseteq snacs', ReqInv(x, nextid), Waits(x, snacs)
    PROVE  ReqInv(y, nextid') /\ Waits(y, snacs')
  <1>0. x.got <= Len(x.sent) /\ x.got \in Nat /\ Len(x.sent) \in Nat
    BY Elements DEF ArgsRight
  <1>1. CASE Requests(x, y)
    <2>1. PICK f \in Frames :
            /\ \/ f.k = "service" /\ f.arg \in Services
               \/ f.k = "join" /\ f.arg \in Rooms /\ [id |-> f.id, room |-> f.arg] \in snacs'
               \/ f.k = "im"
            /\ f.id = nextid /\ nextid' = nextid + 1
            /\ Sends(x, y, f)
      BY <1>1, RequestEffect
    <2>2. Asked(f) /\ f.arg \in Rooms => [id |-> f.id, room |-> f.arg] \in snacs'
      BY <2>1, RoomsAssumption DEF Asked
    <2> QED
      BY <1>0, <2>1, <2>2, RoomSends
  <1>2. CASE Handles(x, y)
    <2>1. PICK frames : Takes(x, y, frames) /\ NoneAsked(frames)
      BY <1>2, HandlesAsked
    <2>2. \A s \in snacs : s \in snacs'
      OBVIOUS
    <2> QED
      BY <1>0, <2>1, <2>2, RoomTakes
  <1>3. CASE Reads(x, y)
    <2>1. /\ x.got < Len(x.sent) /\ y.got = x.got + 1 /\ x.sent[x.got + 1] \in Frames
          /\ \/ Receives(x, y, <<>>)
             \/ \E m \in Answers(x.sent[x.got + 1]) : Receives(x, y, <<m>>)
      BY <1>3, ReadEffect
    <2>2. y.got \in Nat /\ y.got >= x.got /\ y.got <= Len(x.sent)
      BY <1>0, <2>1
    <2>3. CASE Receives(x, y, <<>>)
      <3> DEFINE msgs == <<>>
      <3>1. Receives(x, y, msgs) /\ Len(msgs) = 0
        BY <2>3, EmptySeq
      <3> HIDE DEF msgs
      <3>2. FromRead(x, y, msgs)
        BY <2>2, <3>1 DEF FromRead
      <3> QED
        BY <3>1, <3>2, RoomReceives
    <2>4. ASSUME NEW m \in Answers(x.sent[x.got + 1]), Receives(x, y, <<m>>)
          PROVE  ReqInv(y, nextid') /\ Waits(y, snacs')
      <3> DEFINE msgs == <<m>>
                 f == x.sent[x.got + 1]
      <3>1. m \in Msgs /\ (m.k = "redirect" => f.k \in {"service", "join"} /\ m.id = f.id /\ m.arg = f.arg)
        BY <2>1, AnswerKind
      <3>2. Receives(x, y, msgs) /\ Len(msgs) = 1 /\ msgs[1] = m
        BY <2>4, <3>1, Singly
      <3> HIDE DEF msgs
      <3>3. x.got + 1 \in 1 .. y.got /\ x.got + 1 > x.got
        BY <1>0, <2>1
      <3>4. \A p \in 1 .. Len(msgs) : msgs[p].k = "redirect" =>
              \E i \in 1 .. y.got : /\ i > x.got /\ Asked(x.sent[i])
                                    /\ x.sent[i].id = msgs[p].id /\ x.sent[i].arg = msgs[p].arg
        BY <3>1, <3>2, <3>3 DEF Asked
      <3>5. FromRead(x, y, msgs)
        BY <2>2, <3>2, <3>4 DEF FromRead
      <3> QED
        BY <3>2, <3>5, RoomReceives
    <2> QED
      BY <2>1, <2>3, <2>4
  <1>4. CASE Pauses(x, y) \/ Closes(x, y)
    <2>1. PICK m \in Msgs : Receives(x, y, <<m>>) /\ m.k \in {"pause", "close"}
      BY <1>4, NewsEffect
    <2>2. y.got = x.got
      BY <1>4, NewsEffect
    <2> DEFINE msgs == <<m>>
    <2>3. Receives(x, y, msgs) /\ Len(msgs) = 1 /\ msgs[1] = m
      BY <2>1, Singly
    <2> HIDE DEF msgs
    <2>4. FromRead(x, y, msgs)
      BY <1>0, <2>1, <2>2, <2>3 DEF FromRead
    <2> QED
      BY <2>3, <2>4, RoomReceives
  <1> QED
    BY <1>1, <1>2, <1>3, <1>4 DEF Moves

\* What is asked for anew has the next id.
LEMMA AskedIs ==
    ASSUME NEW x \in Connections, NEW y, Moves(x, y), NEW i \in 1 .. Len(y.sent), Asked(y.sent[i])
    PROVE  \/ i \in 1 .. Len(x.sent) /\ y.sent[i] = x.sent[i]
           \/ y.sent[i].id = nextid
  <1>1. CASE Requests(x, y)
    <2>1. PICK f \in Frames : f.id = nextid /\ Sends(x, y, f)
      BY <1>1, RequestEffect
    <2> QED
      BY <2>1, SendsElements
  <1>2. CASE Handles(x, y)
    <2>1. PICK frames : Takes(x, y, frames) /\ NoneAsked(frames)
      BY <1>2, HandlesAsked
    <2>2. \/ i \in 1 .. Len(x.sent) /\ y.sent[i] = x.sent[i]
          \/ i - Len(x.sent) \in 1 .. Len(frames) /\ y.sent[i] = frames[i - Len(x.sent)]
      BY <2>1, FrameOf
    <2> QED
      BY <2>1, <2>2 DEF NoneAsked
  <1>3. CASE Reads(x, y) \/ Pauses(x, y) \/ Closes(x, y)
    <2>1. y.sent = x.sent
      BY <1>3, ReadEffect, NewsEffect DEF Receives
    <2> QED
      BY <2>1
  <1> QED
    BY <1>1, <1>2, <1>3 DEF Moves

LEMMA ApartMoves ==
    ASSUME NEW x \in Connections, NEW z \in Connections, NEW y, Moves(x, y), nextid \in Nat,
           Apart(x, z), ReqInv(z, nextid)
    PROVE  Apart(y, z) /\ Apart(z, y)
  <1>1. ASSUME NEW i \in 1 .. Len(y.sent), NEW j \in 1 .. Len(z.sent), Asked(y.sent[i]), Asked(z.sent[j])
        PROVE  y.sent[i].id # z.sent[j].id
    <2>1. CASE i \in 1 .. Len(x.sent) /\ y.sent[i] = x.sent[i]
      BY <1>1, <2>1 DEF Apart
    <2>2. CASE y.sent[i].id = nextid
      <3>1. z.sent[j].id < nextid /\ z.sent[j].id \in Int
        BY <1>1, Elements DEF ReqInv, Frames
      <3> QED
        BY <2>2, <3>1
    <2> QED
      BY <1>1, <2>1, <2>2, AskedIs
  <1> QED
    BY <1>1 DEF Apart

\* A new connection has asked for nothing.
LEMMA NewRoom ==
    ASSUME NEW z, ToHost(z) \/ ToAuth(z)
    PROVE  /\ z \in Connections /\ \A i \in 1 .. Len(z.sent) : ~Asked(z.sent[i])
           /\ \A n, cache : ReqInv(z, n) /\ Waits(z, cache)
           /\ \A w : Apart(z, w) /\ Apart(w, z)
  <1>1. z \in Connections /\ Len(z.in) = 0
    BY ToHostTyped, ToAuthTyped, EmptySeq
  <1>2. \A i \in 1 .. Len(z.sent) : ~Asked(z.sent[i])
    <2>1. CASE ToHost(z)
      <3>1. Len(z.sent) = 1 /\ z.sent[1].k = "cookie"
        BY <2>1, ToHostTyped
      <3> QED
        BY <3>1 DEF Asked
    <2>2. CASE ToAuth(z)
      BY <2>2, ToAuthTyped DEF Asked
    <2> QED
      BY <2>1, <2>2
  <1> QED
    BY <1>1, <1>2 DEF ReqInv, Waits, Apart

\* What one connection waits for is not answered on another.
LEMMA WaitsApart ==
    ASSUME NEW x \in Connections, NEW z \in Connections, ArgsRight(x), ArgsRight(z), Apart(x, z),
           NEW n, ReqInv(x, n), ReqInv(z, n), x.in # <<>>, x.in[1].k = "redirect",
           NEW cache, NEW left, Waits(z, cache),
           \A s \in cache : s \in left \/ s.id = x.in[1].id
    PROVE  Waits(z, left)
  <1>0. /\ x.got <= Len(x.sent) /\ z.got <= Len(z.sent) /\ x.got \in Nat /\ z.got \in Nat
        /\ Len(x.sent) \in Nat /\ Len(z.sent) \in Nat /\ 1 \in 1 .. Len(x.in)
    BY Elements, HeadTyped DEF ArgsRight
  <1>1. PICK j \in 1 .. x.got : Asked(x.sent[j]) /\ x.sent[j].id = x.in[1].id
    BY <1>0 DEF ReqInv
  <1>2. j \in 1 .. Len(x.sent)
    BY <1>0
  <1>3. \A i \in 1 .. Len(z.sent) : Asked(z.sent[i]) => z.sent[i].id # x.in[1].id
    BY <1>1, <1>2 DEF Apart
  <1>4. ASSUME NEW p \in 1 .. Len(z.in), z.in[p].k = "redirect"
        PROVE  z.in[p].id # x.in[1].id
    <2>1. PICK i \in 1 .. z.got : Asked(z.sent[i]) /\ z.sent[i].id = z.in[p].id
      BY <1>4 DEF ReqInv
    <2>2. i \in 1 .. Len(z.sent)
      BY <1>0
    <2> QED
      BY <1>3, <2>1, <2>2
  <1>5. ASSUME NEW i \in 1 .. Len(z.sent), i > z.got, Asked(z.sent[i]), z.sent[i].arg \in Rooms
        PROVE  [id |-> z.sent[i].id, room |-> z.sent[i].arg] \in left
    <2>1. [id |-> z.sent[i].id, room |-> z.sent[i].arg] \in cache
      BY <1>5 DEF Waits
    <2> QED
      BY <1>3, <1>5, <2>1
  <1>6. ASSUME NEW p \in 1 .. Len(z.in), z.in[p].k = "redirect", z.in[p].arg \in Rooms
        PROVE  [id |-> z.in[p].id, room |-> z.in[p].arg] \in left
    <2>1. [id |-> z.in[p].id, room |-> z.in[p].arg] \in cache
      BY <1>6 DEF Waits
    <2> QED
      BY <1>4, <1>6, <2>1
  <1> QED
    BY <1>5, <1>6 DEF Waits

\* Between redirects the cache of a session only grows, by requests under the next id.
LEMMA SnacsStep ==
    ASSUME TypeInv, ~Slow, Next, ~logout, ~(\E c \in DOMAIN conns : redirect(c))
    PROVE  /\ nextid <= nextid'
           /\ \/ snacs' = snacs
              \/ /\ nextid' = nextid + 1
                 /\ \E room : snacs' = snacs \cup {[id |-> nextid, room |-> room]}
  <1>0. nextid \in Nat /\ snacs \subseteq [id : Ids, room : Rooms \cup {None}]
    BY LoginAssumption DEF TypeInv, TypeOK
  <1>1. ASSUME NEW forgotten \in 0 .. MaxIds, aim_send_im_ext(forgotten)
        PROVE  nextid' = nextid + 1 /\ snacs' = snacs \cup {[id |-> nextid, room |-> None]}
    <2>1. forgotten = 0
      BY <1>1 DEF aim_send_im_ext
    <2>2. {s \in snacs : s.id > 0} = snacs
      BY <1>0 DEF Ids
    <2> QED
      BY <1>1, <2>1, <2>2 DEF aim_send_im_ext
  <1>2. ASSUME NEW c \in DOMAIN conns, \/ \E s \in Services : aim_reqservice(c, s)
                                       \/ \E r \in Rooms : aim_chat_join(c, r)
        PROVE  nextid' = nextid + 1 /\ \E room : snacs' = snacs \cup {[id |-> nextid, room |-> room]}
    BY <1>2 DEF aim_reqservice, aim_chat_join, CacheSnac
  <1>3. aim_logoff \/ (\E acct \in Accounts : login(acct)) => snacs' = snacs /\ nextid' = nextid
    BY DEF aim_logoff, login
  <1>4. ASSUME NEW c \in DOMAIN conns,
               \/ Handle(c) /\ ~redirect(c)
               \/ ServerReads(c) \/ ServerPauses(c) \/ ServerCloses(c) \/ ConnLost(c)
        PROVE  snacs' = snacs /\ nextid' = nextid
    BY <1>4, Zenon DEF Handle, keyparse, parse, negchan_middle, hostonline, hostversions, rateresp, bosrights,
                       serverpause, migrate, ServerReads, ServerPauses, ServerCloses, ConnLost
  <1>5. \/ snacs' = snacs /\ nextid' = nextid
        \/ nextid' = nextid + 1 /\ \E room : snacs' = snacs \cup {[id |-> nextid, room |-> room]}
    <2>1. CASE \E forgotten \in 0 .. MaxIds : aim_send_im_ext(forgotten)
      BY <1>1, <2>1
    <2>2. CASE aim_logoff \/ \E acct \in Accounts : login(acct)
      BY <1>3, <2>2
    <2>3. CASE \E c \in DOMAIN conns : \/ \E s \in Services : aim_reqservice(c, s)
                                       \/ \E r \in Rooms : aim_chat_join(c, r)
      BY <1>2, <2>3, Zenon
    <2>4. CASE \E c \in DOMAIN conns : \/ Handle(c) /\ ~redirect(c)
                                       \/ ServerReads(c) \/ ServerPauses(c)
                                       \/ ServerCloses(c) \/ ConnLost(c)
      BY <1>4, <2>4, Zenon
    <2> QED
      BY <2>1, <2>2, <2>3, <2>4, Zenon DEF Next
  <1>6. nextid' = nextid \/ nextid' = nextid + 1
    BY <1>5, Zenon
  <1>7. nextid <= nextid'
    BY <1>0, <1>6
  <1> QED
    BY <1>5, <1>7, Zenon

LEMMA CacheStep ==
    ASSUME RoomInv, ~Slow, Next
    PROVE  CacheOnce' /\ \A s \in snacs' : s.id < nextid'
  <1>0. /\ CacheOnce /\ \A s \in snacs : s.id < nextid
        /\ nextid \in Nat /\ \A s \in snacs : s.id \in Nat
    <2>1. TypeOK /\ CacheOnce /\ \A s \in snacs : s.id < nextid
      BY DEF RoomInv, TypeInv
    <2>2. nextid \in Nat
      BY <2>1, LoginAssumption DEF TypeOK
    <2>3. \A s \in snacs : s.id \in Nat
      BY <2>1, LoginAssumption DEF TypeOK, Ids
    <2> QED
      BY <2>1, <2>2, <2>3
  <1>1. CASE logout
    BY <1>1 DEF logout, CacheOnce
  <1>2. CASE \E c \in DOMAIN conns : redirect(c)
    <2>1. snacs' \subseteq snacs /\ nextid' = nextid
      BY <1>2 DEF redirect
    <2> QED
      BY <1>0, <2>1 DEF CacheOnce
  <1>3. CASE ~logout /\ ~(\E c \in DOMAIN conns : redirect(c))
    <2>1. /\ nextid <= nextid'
          /\ \/ snacs' = snacs
             \/ /\ nextid' = nextid + 1
                /\ \E room : snacs' = snacs \cup {[id |-> nextid, room |-> room]}
      BY <1>3, SnacsStep DEF RoomInv
    <2>2. nextid' \in Nat
      BY ScalarsStep, LoginAssumption DEF RoomInv, Scalars
    <2>3. CASE snacs' = snacs
      BY <1>0, <2>1, <2>2, <2>3 DEF CacheOnce
    <2>4. ASSUME NEW room, snacs' = snacs \cup {[id |-> nextid, room |-> room]}, nextid' = nextid + 1
          PROVE  CacheOnce' /\ \A s \in snacs' : s.id < nextid'
      <3> DEFINE new == [id |-> nextid, room |-> room]
      <3>1. snacs' = snacs \cup {new} /\ new.id = nextid
        BY <2>4
      <3> HIDE DEF new
      <3>2. \A s \in snacs : s.id # new.id
        BY <1>0, <3>1
      <3>3. CacheOnce'
        BY <1>0, <3>1, <3>2 DEF CacheOnce
      <3> QED
        BY <1>0, <2>4, <3>1, <3>3
    <2> QED
      BY <2>1, <2>3, <2>4
  <1> QED
    BY <1>1, <1>2, <1>3

\* Connections through a redirect: the one it came on takes it, the cache forgets it.
LEMMA RedirectRoom ==
    ASSUME RoomInv, NEW c \in DOMAIN conns, redirect(c), NEW d \in DOMAIN conns
    PROVE  d \in DOMAIN conns' => ReqInv(conns'[d], nextid') /\ Waits(conns'[d], snacs')
  <1> DEFINE x == conns[c]
             m == Head(x.in)
  <1>0. /\ x \in Connections /\ ArgsRight(x) /\ conns[d] \in Connections /\ ArgsRight(conns[d])
        /\ nextid \in Nat /\ nextid' = nextid
        /\ ReqInv(x, nextid) /\ Waits(x, snacs) /\ ReqInv(conns[d], nextid) /\ Waits(conns[d], snacs)
        /\ x.got <= Len(x.sent)
    BY LoginAssumption DEF RoomInv, TypeInv, TypeOK, redirect, ArgsRight
  <1>1. /\ x.in # <<>> /\ m.k = "redirect"
        /\ Turns(conns, Respond(c, <<>>), c, Handled(x, <<>>))
        /\ Opened(Respond(c, <<>>), conns', RedirectHost(m))
    BY RedirectIs DEF RoomInv
  <1>2. m = x.in[1]
    BY <1>0, <1>1, HeadTyped
  <1>3. \A s \in snacs : s \in snacs' \/ s.id = x.in[1].id
    <2>1. snacs' = snacs \ Remembered(m.id)
      BY Zenon DEF redirect
    <2> QED
      BY <1>2, <2>1 DEF Remembered
  <1>4. \A e \in DOMAIN conns : conns'[e] = Respond(c, <<>>)[e]
    BY <1>1, Zenon DEF Opened, Turns
  <1>5. CASE d = c
    <2>1. conns'[c] = Handled(x, <<>>)
      BY <1>1, <1>4 DEF Turns
    <2>2. QuietStep(x, conns'[c])
      BY <1>1, <2>1 DEF QuietStep
    <2> DEFINE frames == <<>>
    <2>3. Takes(x, conns'[c], frames) /\ NoneAsked(frames)
      BY <1>0, <1>1, <2>2, QuietEffect, NoneAskedIs
    <2> HIDE DEF frames
    <2>4. \A s \in snacs : s \in snacs' \/ (x.in[1].k = "redirect" /\ s.id = x.in[1].id)
      BY <1>1, <1>2, <1>3
    <2> QED
      BY <1>0, <1>5, <2>3, <2>4, RoomTakes
  <1>6. CASE d # c
    <2>1. conns'[d] = conns[d]
      BY <1>1, <1>4, <1>6 DEF Turns
    <2>2. Apart(x, conns[d])
      BY <1>6 DEF RoomInv
    <2>3. x.in[1].k = "redirect"
      BY <1>1, <1>2
    <2>4. Waits(conns[d], snacs')
      BY <1>0, <1>1, <1>3, <2>2, <2>3, WaitsApart
    <2> QED
      BY <1>0, <2>1, <2>4
  <1> QED
    BY <1>5, <1>6

\* The chat a redirect opens has the room's name.
LEMMA NewChat ==
    ASSUME RoomInv, Next, NEW d \in DOMAIN conns', d \notin DOMAIN conns, conns'[d].type = "chat"
    PROVE  conns'[d].name = conns'[d].asked
  <1>0. TypeInv
    BY DEF RoomInv
  <1>1. CASE \E acct \in Accounts : login(acct)
    BY <1>0, <1>1, LoginShape, ToAuthTyped
  <1>2. ASSUME NEW c \in DOMAIN conns, redirect(c)
        PROVE  conns'[d].name = conns'[d].asked
    <2> DEFINE m    == Head(conns[c].in)
               orig == Remembered(m.id)
               room == (CHOOSE s \in orig : TRUE).room
               host == RedirectHost(m)
    <2>1. /\ conns[c].in # <<>> /\ m.k = "redirect" /\ m.arg \in Services \cup Rooms
          /\ Turns(conns, Respond(c, <<>>), c, Handled(conns[c], <<>>))
          /\ Opened(Respond(c, <<>>), conns', host)
      BY <1>0, <1>2, RedirectIs
    <2>2. conns'[d] = host
      <3> HIDE DEF host
      <3> QED
        BY <2>1 DEF Opened, Turns
    <2>3. m.arg \in Rooms
      <3>1. m.arg \notin Rooms => host.type = m.arg
        BY DEF RedirectHost, Host, Conn
      <3>2. host.type = "chat"
        BY <2>2
      <3> HIDE DEF host, m
      <3> QED
        BY <2>1, <3>1, <3>2, LoginAssumption
    <2>4. [id |-> m.id, room |-> m.arg] \in snacs
      <3>1. m = conns[c].in[1] /\ 1 \in 1 .. Len(conns[c].in)
        BY <1>0, <2>1, HeadTyped, Elements DEF TypeInv
      <3>2. Waits(conns[c], snacs)
        BY DEF RoomInv
      <3> HIDE DEF m
      <3> QED
        BY <2>1, <2>3, <3>1, <3>2 DEF Waits
    <2>5. orig # {} /\ \A s \in orig : s.room = m.arg
      <3> HIDE DEF m
      <3>1. [id |-> m.id, room |-> m.arg] \in orig
        BY <2>4 DEF Remembered
      <3>2. \A s \in orig : s \in snacs /\ s.id = m.id
        BY DEF Remembered
      <3>3. CacheOnce
        BY DEF RoomInv
      <3>4. \A s \in orig : s = [id |-> m.id, room |-> m.arg]
        BY <2>4, <3>2, <3>3 DEF CacheOnce
      <3> QED
        BY <3>1, <3>4
    <2>6. room = m.arg
      <3> HIDE DEF orig
      <3> QED
        BY <2>5
    <2>7. host = Host("chat", room, m.arg)
      BY <2>3, <2>5, Zenon DEF RedirectHost
    <2>8. Host("chat", room, m.arg).name = room /\ Host("chat", room, m.arg).asked = m.arg
      <3> HIDE DEF room, m
      <3> QED
        BY DEF Host, Conn
    <2> QED
      BY <2>2, <2>6, <2>7, <2>8
  <1>3. ASSUME NEW c \in DOMAIN conns, parse(c) \/ migrate(c)
        PROVE  FALSE
    <2>1. Opens(Kill(c), Conn("bos", None)) \/ conns' = Kill(c)
      BY <1>3 DEF parse, migrate
    <2>2. Opened(Kill(c), conns', Host("bos", None, None))
      BY <1>0, <2>1, KillIs, KillOpens
    <2>3. conns'[d] = Host("bos", None, None)
      BY <2>2, KillIs DEF Opened
    <2> QED
      BY <2>3 DEF Host, Conn
  <1> QED
    BY <1>0, <1>1, <1>2, <1>3, NewByHandler

LEMMA RoomStep ==
    ASSUME ~Slow, RoomInv, [Next]_vars
    PROVE  RoomInv'
  <1>1. CASE UNCHANGED vars
    <2>1. TypeInv'
      BY <1>1, TypeStep DEF RoomInv
    <2> QED
      BY <1>1, <2>1 DEF vars, userVars, RoomInv, CacheOnce, RoomNamed
  <1>2. CASE Next
    <2>1. TypeInv /\ TypeInv' /\ Shape
      BY <1>2, TypeStep, StepShape DEF RoomInv
    <2>2. CacheOnce' /\ \A s \in snacs' : s.id < nextid'
      BY <1>2, CacheStep
    <2>3. nextid \in Nat /\ nextid' \in Nat
      BY <1>2, ScalarsStep, LoginAssumption DEF RoomInv, TypeInv, TypeOK, Scalars
    <2>4. ASSUME NEW d \in DOMAIN conns'
          PROVE  ReqInv(conns'[d], nextid') /\ Waits(conns'[d], snacs')
      <3>1. CASE d \notin DOMAIN conns
        BY <2>1, <3>1, NewRoom DEF Shape
      <3>2. CASE d \in DOMAIN conns /\ \E c \in DOMAIN conns : redirect(c)
        BY <2>4, <3>2, RedirectRoom
      <3>3. CASE d \in DOMAIN conns /\ \A c \in DOMAIN conns : ~redirect(c)
        <4>1. nextid <= nextid' /\ snacs \subseteq snacs'
          <5>1. ~logout
            BY <2>4 DEF logout
          <5> QED
            BY <1>2, <2>1, <3>3, <5>1, SnacsStep
        <4>2. /\ conns[d] \in Connections /\ ArgsRight(conns[d])
              /\ ReqInv(conns[d], nextid) /\ Waits(conns[d], snacs)
          BY <3>3 DEF RoomInv, TypeInv
        <4>3. CASE Moves(conns[d], conns'[d])
          BY <2>3, <4>1, <4>2, <4>3, MovesRoom
        <4>4. CASE conns'[d] = conns[d]
          <5>1. \A i \in 1 .. Len(conns[d].sent) : conns[d].sent[i].id \in Int
            BY <4>2, Elements DEF Frames
          <5> QED
            BY <2>3, <4>1, <4>2, <4>4, <5>1 DEF ReqInv, Waits
        <4> QED
          BY <2>1, <3>3, <4>3, <4>4 DEF Shape
      <3> QED
        BY <3>1, <3>2, <3>3
    <2>5. ASSUME NEW c \in DOMAIN conns', NEW d \in DOMAIN conns', c # d
          PROVE  Apart(conns'[c], conns'[d])
      <3>1. CASE c \notin DOMAIN conns \/ d \notin DOMAIN conns
        BY <2>1, <3>1, NewRoom DEF Shape
      <3>2. CASE c \in DOMAIN conns /\ d \in DOMAIN conns
        <4>1. /\ conns[c] \in Connections /\ conns[d] \in Connections
              /\ ReqInv(conns[c], nextid) /\ ReqInv(conns[d], nextid)
              /\ Apart(conns[c], conns[d]) /\ Apart(conns[d], conns[c])
          BY <2>5, <3>2 DEF RoomInv, TypeInv
        <4>2. \/ conns'[c] = conns[c] /\ conns'[d] = conns[d]
              \/ conns'[c] = conns[c] /\ Moves(conns[d], conns'[d])
              \/ Moves(conns[c], conns'[c]) /\ conns'[d] = conns[d]
          BY <2>1, <2>5, <3>2, Zenon DEF Shape
        <4> QED
          BY <2>3, <4>1, <4>2, ApartMoves
      <3> QED
        BY <3>1, <3>2
    <2>6. RoomNamed'
      <3>1. ASSUME NEW d \in DOMAIN conns', conns'[d].type = "chat"
            PROVE  conns'[d].name = conns'[d].asked
        <4>1. CASE d \notin DOMAIN conns
          BY <1>2, <3>1, <4>1, NewChat
        <4>2. CASE d \in DOMAIN conns
          <5>1. Same(conns[d], conns'[d])
            BY <2>1, <4>2, MovesTyped DEF Shape, TypeInv, Same
          <5> QED
            BY <3>1, <4>2, <5>1 DEF RoomInv, RoomNamed, Same
        <4> QED
          BY <4>1, <4>2
      <3> QED
        BY <3>1 DEF RoomNamed
    <2> QED
      BY <2>1, <2>2, <2>4, <2>5, <2>6 DEF RoomInv
  <1> QED
    BY <1>1, <1>2

LEMMA InitRoom == Init => RoomInv
  BY TypeInit DEF Init, RoomInv, CacheOnce, RoomNamed

\* A chat connection bears the name of the room that was asked for (service.c:124,
\* utils/faimtest/chat.c:247-250), as long as the server answers before the request is
\* forgotten: whatever is asked for, answered and forgotten in between.
THEOREM ChatIsTheRoomAsked == ASSUME ~Slow PROVE Spec => []RoomNamed
  <1>1. RoomInv /\ [Next]_vars => RoomInv'
    BY RoomStep
  <1>2. RoomInv => RoomNamed
    BY DEF RoomInv
  <1> QED
    BY <1>1, <1>2, InitRoom, PTL DEF Spec
=============================================================================
