-------------------------------- MODULE Login --------------------------------
(***************************************************************************)
(* Logging in and setting up connections (auth.c, service.c, and the       *)
(* client's part of it in utils/faimtest): the authorizer, the assigned    *)
(* BOS, services reached by redirects, and migration to another BOS.       *)
(*                                                                         *)
(* What a connection carries is in order and is not lost before the        *)
(* connection is (TxQueue); here a frame the client sends is at the server *)
(* at once, and waits there to be answered.                                *)
(***************************************************************************)
EXTENDS Integers, Sequences, SequencesExt

CONSTANTS
    Accounts,  \* the accounts the user logs in to: "aim", "icq"
    Services,  \* what the client requests from BOS: "chatnav", "admin"
    Rooms,     \* chat rooms the client joins
    Slow,      \* whether the server may take longer than a minute to answer
    MaxConns,  \* bound on the number of connections
    MaxIds     \* bound on the number of SNAC ids

ASSUME LoginAssumption ==
    /\ Accounts \subseteq {"aim", "icq"}
    /\ Services \subseteq {"chatnav", "admin"}
    /\ Slow \in BOOLEAN
    /\ MaxConns \in Nat /\ MaxIds \in Nat

\* A redirect tells a chat room, which it describes, from a service, a group's number.
ASSUME RoomsAssumption == Rooms \cap (Services \cup {"none"}) = {}

VARIABLES
    flags,    \* sess->flags: SNACLOGIN, XORLOGIN
    sn,       \* sess->sn
    account,  \* the account the user is logging in to (history)
    tried,    \* the accounts logged in to since aim_session_init (history)
    conns,    \* sess->connlist, by number of creation
    nconns,   \* number of connections made
    snacs,    \* the SNAC cache, as far as requests and redirects need it
    nextid    \* sess->snacid_next

userVars == <<account, tried>>
vars == <<flags, sn, userVars, conns, nconns, snacs, nextid>>

None == "none"

\* AIM_CONN_TYPE_AUTH is both "auth", the authorizer during login, and "admin", the
\* account administration after it; they differ in the handlers the client adds.
ConnTypes == {"auth", "admin", "bos", "chatnav", "chat"}

\* A frame the client sends, and a message of the server.
Frame(k) == [k |-> k, id |-> 0, list |-> <<>>, arg |-> None]
Msg(k) == [k |-> k, id |-> 0, arg |-> None, ok |-> TRUE]

\* groups and rates are the lists of aim_conn_inside_t, name the one in ->priv,
\* done that CONNINITDONE was called.  in holds what the server sent, sent what the
\* client did, of which the server has read got; asked is the room a redirect was for.
Conn(type, asked) ==
    [type |-> type, groups |-> <<>>, rates |-> <<>>, name |-> None, done |-> FALSE,
     in |-> <<>>, sent |-> <<>>, got |-> 0, paused |-> FALSE, closed |-> FALSE, asked |-> asked]

HostGroups(type) == IF type = "bos" THEN <<"gen", "msg">> ELSE <<"gen", type>>
HostRates == <<1, 2>>

Ids == 1 .. MaxIds

\* Connections are of known types, ids of requests are real, the flags exist.
TypeOK ==
    /\ flags \subseteq {"SNACLOGIN", "XORLOGIN"}
    /\ sn \in Accounts \cup {None} /\ account \in Accounts \cup {None}
    /\ tried \subseteq Accounts
    /\ nconns \in 0 .. MaxConns /\ nextid \in 1 .. MaxIds + 1
    /\ DOMAIN conns \subseteq 1 .. nconns
    /\ \A c \in DOMAIN conns : /\ conns[c].type \in ConnTypes
                               /\ conns[c].name \in Rooms \cup {None}
                               /\ conns[c].got \in 0 .. Len(conns[c].sent)
    /\ snacs \subseteq [id : Ids, room : Rooms \cup {None}]

\* aim_session_init with no flags
Init ==
    /\ flags = {"SNACLOGIN"}
    /\ sn = None /\ account = None /\ tried = {}
    /\ conns = [c \in {} |-> None]
    /\ nconns = 0
    /\ snacs = {} /\ nextid = 1

-----------------------------------------------------------------------------
(* Helpers *)

Kill(c) == [d \in DOMAIN conns \ {c} |-> conns[d]]
Add(cs, conn) == [d \in DOMAIN cs \cup {nconns + 1} |-> IF d = nconns + 1 THEN conn ELSE cs[d]]

\* The first frame of c's input is handled, with these frames as the response.
Respond(c, frames) == [conns EXCEPT ![c].in = Tail(@), ![c].sent = @ \o frames]

CacheSnac_Late(room) ==
    /\ nextid <= MaxIds
    /\ nextid' = nextid + 1
    /\ snacs' = snacs \cup {[id |-> nextid - 1, room |-> room]}

\* aim_cachesnac: the request is remembered under the next id.
CacheSnac(room) ==
    /\ nextid <= MaxIds
    /\ nextid' = nextid + 1
    /\ snacs' = snacs \cup {[id |-> nextid, room |-> room]}

\* A connection that must introduce itself with a cookie; aim_newconn may fail.
Opens(cs, conn) ==
    \/ /\ nconns < MaxConns
       /\ nconns' = nconns + 1
       /\ conns' = Add(cs, [conn EXCEPT !.sent = <<Frame("cookie")>>])
    \/ /\ conns' = cs
       /\ UNCHANGED nconns

-----------------------------------------------------------------------------
(* The user: utils/faimtest *)

\* aim_send_login answers the key, be it the server's or the one goddamnicq made up.
LoginFrame(fl) == IF "XORLOGIN" \in fl THEN Frame("xorlogin") ELSE Frame("snaclogin")

\* The flags after aim_request_login: goddamnicq or the SNAC login.
RequestFlags(fl, acct) == IF acct = "icq" THEN (fl \ {"SNACLOGIN"}) \cup {"XORLOGIN"}
                          ELSE fl \cup {"SNACLOGIN"}

\* login() of utils/faimtest/login.c, with aim_request_login.
login(acct) ==
    /\ DOMAIN conns = {} /\ nconns < MaxConns
    /\ account' = acct /\ tried' = tried \cup {acct}
    /\ flags' = RequestFlags(flags, acct)
    /\ LET frames == IF acct = "icq" THEN <<LoginFrame(flags')>>
                     ELSE <<Frame("flapver"), Frame("name")>>
       IN  conns' = Add(conns, [Conn("auth", None) EXCEPT !.sent = frames])
    /\ nconns' = nconns + 1
    /\ UNCHANGED <<sn, snacs, nextid>>

\* The session stays as it is, "in case we want to connect again" (conn.c:1053).
aim_logoff ==
    /\ DOMAIN conns # {}
    /\ conns' = [c \in {} |-> None]
    /\ UNCHANGED <<flags, sn, userVars, nconns, snacs, nextid>>

\* Mutant: the new session takes its flags from the old one.
logout_KeepsFlags ==
    /\ conns' = [c \in {} |-> None]
    /\ sn' = None /\ account' = None /\ tried' = {}
    /\ snacs' = {} /\ nextid' = 1
    /\ UNCHANGED <<flags, nconns>>

\* logout() of utils/faimtest/login.c: aim_session_kill, then aim_session_init.
logout ==
    /\ conns' = [c \in {} |-> None]
    /\ flags' = {"SNACLOGIN"}
    /\ sn' = None /\ account' = None /\ tried' = {}
    /\ snacs' = {} /\ nextid' = 1
    /\ UNCHANGED nconns

\* The client asks its BOS for services once that is set up.
Asks(c, frame) == conns' = [conns EXCEPT ![c].sent = Append(@, frame)]

aim_reqservice(c, s) ==
    /\ conns[c].type = "bos" /\ conns[c].done
    /\ CacheSnac(None)
    /\ Asks(c, [Frame("service") EXCEPT !.id = nextid, !.arg = s])
    /\ UNCHANGED <<flags, sn, userVars, nconns>>

aim_chat_join(c, r) ==
    /\ conns[c].type = "bos" /\ conns[c].done
    /\ CacheSnac(r)
    /\ Asks(c, [Frame("join") EXCEPT !.id = nextid, !.arg = r])
    /\ UNCHANGED <<flags, sn, userVars, nconns>>

\* The newest connection that has the group.
aim_conn_findbygroup(g) ==
    {c \in DOMAIN conns : /\ Contains(conns[c].groups, g)
                          /\ \A d \in DOMAIN conns : Contains(conns[d].groups, g) => d <= c}

\* An IM goes out as soon as a connection has the group, and makes the library
\* forget what has waited for a minute.
aim_send_im_ext(forgotten) ==
    /\ nextid <= MaxIds
    /\ Slow \/ forgotten = 0
    /\ \E c \in aim_conn_findbygroup("msg") : Asks(c, [Frame("im") EXCEPT !.id = nextid])
    /\ nextid' = nextid + 1
    /\ snacs' = {s \in snacs : s.id > forgotten} \cup {[id |-> nextid, room |-> None]}
    /\ UNCHANGED <<flags, sn, userVars, nconns>>

-----------------------------------------------------------------------------
(* The handlers: what the server's messages make the client do *)

Gets(c, k) == conns[c].in # <<>> /\ Head(conns[c].in).k = k

keyparse(c) ==
    /\ Gets(c, "key")
    /\ conns' = Respond(c, <<LoginFrame(flags)>>)
    /\ UNCHANGED <<flags, sn, userVars, nconns, snacs, nextid>>

parse_Cleared(c) ==
    /\ Gets(c, "authresp")
    /\ sn' = None
    /\ IF Head(conns[c].in).ok
       THEN Opens(Kill(c), Conn("bos", None))
       ELSE conns' = Kill(c) /\ UNCHANGED nconns
    /\ UNCHANGED <<flags, userVars, snacs, nextid>>

\* The authorizer's verdict, by SNAC or in a frame that closes the connection; the
\* client kills this connection and, if it is let in, opens one to its BOS.
parse(c) ==
    /\ Gets(c, "authresp")
    /\ sn' = account
    /\ IF Head(conns[c].in).ok
       THEN Opens(Kill(c), Conn("bos", None))
       ELSE conns' = Kill(c) /\ UNCHANGED nconns
    /\ UNCHANGED <<flags, userVars, snacs, nextid>>

\* A closing frame on another connection.  For type AUTH it is taken for an
\* authorizer's verdict, which sets the screen name from a TLV that it lacks.  Only
\* BOS connections have a callback for it (faimtest_parse_connerr), which kills.
negchan_middle(c) ==
    /\ Gets(c, "close")
    /\ sn' = IF conns[c].type = "admin" THEN None ELSE sn
    /\ conns' = IF conns[c].type = "bos" THEN Kill(c) ELSE Respond(c, <<>>)
    /\ UNCHANGED <<flags, userVars, nconns, snacs, nextid>>

hostonline_KeepsLast(c) ==
    /\ Gets(c, "hostonline")
    /\ LET groups == <<Last(HostGroups(conns[c].type))>>
       IN  conns' = [Respond(c, <<[Frame("versions") EXCEPT !.list = groups]>>)
                        EXCEPT ![c].groups = groups]
    /\ UNCHANGED <<flags, sn, userVars, nconns, snacs, nextid>>

hostonline_RatesFirst(c) ==
    /\ Gets(c, "hostonline")
    /\ LET groups == Reverse(HostGroups(conns[c].type)) \o conns[c].groups
       IN  conns' = [Respond(c, <<Frame("reqrates"), [Frame("versions") EXCEPT !.list = groups]>>)
                        EXCEPT ![c].groups = groups]
    /\ UNCHANGED <<flags, sn, userVars, nconns, snacs, nextid>>

\* Every group is put at the head of the list.
hostonline(c) ==
    /\ Gets(c, "hostonline")
    /\ LET groups == Reverse(HostGroups(conns[c].type)) \o conns[c].groups
       IN  conns' = [Respond(c, <<[Frame("versions") EXCEPT !.list = groups]>>)
                        EXCEPT ![c].groups = groups]
    /\ UNCHANGED <<flags, sn, userVars, nconns, snacs, nextid>>

hostversions_Silent(c) ==
    /\ Gets(c, "hostversions")
    /\ conns' = Respond(c, <<>>)
    /\ UNCHANGED <<flags, sn, userVars, nconns, snacs, nextid>>

hostversions(c) ==
    /\ Gets(c, "hostversions")
    /\ conns' = Respond(c, <<Frame("reqrates")>>)
    /\ UNCHANGED <<flags, sn, userVars, nconns, snacs, nextid>>

\* The classes are added to the list and acknowledged, then CONNINITDONE is called:
\* BOS goes on with its requests, the others are ready.
rateresp(c) ==
    /\ Gets(c, "rateresp")
    /\ LET rates == conns[c].rates \o HostRates
           then  == IF conns[c].type = "bos" THEN Frame("reqrights") ELSE Frame("clientready")
       IN  conns' = [Respond(c, <<[Frame("rateack") EXCEPT !.list = rates], then>>)
                        EXCEPT ![c].rates = rates, ![c].done = TRUE]
    /\ UNCHANGED <<flags, sn, userVars, nconns, snacs, nextid>>

\* faimtest_bosrights
bosrights(c) ==
    /\ Gets(c, "bosrights")
    /\ conns' = Respond(c, <<Frame("clientready")>>)
    /\ UNCHANGED <<flags, sn, userVars, nconns, snacs, nextid>>

Remembered_Last(id) == {s \in snacs : \A t \in snacs : t.id <= s.id}

\* aim_remsnac
Remembered(id) == {s \in snacs : s.id = id}

\* The room of a chat is the one of the request, if that is still remembered.
redirect(c) ==
    /\ Gets(c, "redirect")
    /\ LET m    == Head(conns[c].in)
           orig == Remembered(m.id)
           type == IF m.arg \in Rooms THEN "chat" ELSE m.arg
           room == IF type = "chat" /\ orig # {} THEN (CHOOSE s \in orig : TRUE).room ELSE None
       IN  /\ snacs' = snacs \ orig
           /\ Opens(Respond(c, <<>>), [Conn(type, m.arg) EXCEPT !.name = room])
    /\ UNCHANGED <<flags, sn, userVars, nextid>>

serverpause(c) ==
    /\ Gets(c, "pause")
    /\ conns' = Respond(c, <<[Frame("pauseack") EXCEPT !.list = conns[c].groups]>>)
    /\ UNCHANGED <<flags, sn, userVars, nconns, snacs, nextid>>

\* The old connection is killed before the new one is made.
migrate(c) ==
    /\ Gets(c, "migrate")
    /\ Opens(Kill(c), Conn("bos", None))
    /\ UNCHANGED <<flags, sn, userVars, snacs, nextid>>

Handle(c) ==
    \/ keyparse(c) \/ parse(c) \/ negchan_middle(c)
    \/ hostonline(c) \/ hostversions(c) \/ rateresp(c) \/ bosrights(c)
    \/ redirect(c) \/ serverpause(c) \/ migrate(c)

-----------------------------------------------------------------------------
(* The servers and the network *)

\* What a server may answer to a frame.
Answers(f) ==
    CASE f.k = "name"      -> {Msg("key"), [Msg("authresp") EXCEPT !.ok = FALSE]}
      [] f.k \in {"snaclogin", "xorlogin"} -> {Msg("authresp"), [Msg("authresp") EXCEPT !.ok = FALSE]}
      [] f.k = "cookie"    -> {Msg("hostonline")}
      [] f.k = "versions"  -> {Msg("hostversions")}
      [] f.k = "reqrates"  -> {Msg("rateresp")}
      [] f.k = "reqrights" -> {Msg("bosrights")}
      [] f.k \in {"service", "join"} -> {[Msg("redirect") EXCEPT !.id = f.id, !.arg = f.arg]}
      [] f.k = "pauseack"  -> {Msg("migrate")}
      [] OTHER             -> {}

ServerReads(c) ==
    /\ conns[c].got < Len(conns[c].sent) /\ ~conns[c].closed
    /\ LET answers == Answers(conns[c].sent[conns[c].got + 1])
       IN  \E in \in IF answers = {} THEN {<<>>} ELSE {<<m>> : m \in answers} :
              conns' = [conns EXCEPT ![c].got = @ + 1, ![c].in = @ \o in]
    /\ UNCHANGED <<flags, sn, userVars, nconns, snacs, nextid>>

ServerPauses(c) ==
    /\ conns[c].type = "bos" /\ conns[c].done /\ ~conns[c].paused /\ ~conns[c].closed
    /\ conns' = [conns EXCEPT ![c].paused = TRUE, ![c].in = Append(@, Msg("pause"))]
    /\ UNCHANGED <<flags, sn, userVars, nconns, snacs, nextid>>

\* A closing frame that says why; the server reads and sends no more.
ServerCloses(c) ==
    /\ conns[c].type # "auth" /\ conns[c].done /\ ~conns[c].closed
    /\ conns' = [conns EXCEPT ![c].closed = TRUE, ![c].in = Append(@, Msg("close"))]
    /\ UNCHANGED <<flags, sn, userVars, nconns, snacs, nextid>>

\* The connection breaks; the client's loop kills it.
ConnLost(c) ==
    /\ conns' = Kill(c)
    /\ UNCHANGED <<flags, sn, userVars, nconns, snacs, nextid>>

Next ==
    \/ \E acct \in Accounts : login(acct)
    \/ aim_logoff \/ logout
    \/ \E forgotten \in 0 .. MaxIds : aim_send_im_ext(forgotten)
    \/ \E c \in DOMAIN conns :
          \/ \E s \in Services : aim_reqservice(c, s)
          \/ \E r \in Rooms : aim_chat_join(c, r)
          \/ Handle(c)
          \/ ServerReads(c) \/ ServerPauses(c) \/ ServerCloses(c) \/ ConnLost(c)

Spec == Init /\ [][Next]_vars

\* The loop handles what has arrived, and the servers answer.
There(c) == c \in DOMAIN conns
Fairness == \A c \in 1 .. MaxConns : /\ WF_vars(There(c) /\ Handle(c))
                                     /\ WF_vars(There(c) /\ ServerReads(c))
FairSpec == Spec /\ Fairness

-----------------------------------------------------------------------------
(* Properties *)

\* A login goes by XOR exactly if it, or an earlier one in this session, was to an ICQ
\* number: goddamnicq sets XORLOGIN, nothing but aim_session_init clears it, and
\* aim_send_login looks at nothing else (auth.c:88-91, 130, 278).  So a first login goes
\* the way of its account, an ICQ number never goes by SNACs, but a screen name tried
\* after an ICQ number goes by XOR until the session is initialised again.
LoginKind ==
    \A c \in DOMAIN conns : \A i \in DOMAIN conns[c].sent :
        /\ conns[c].sent[i].k = "xorlogin" => "icq" \in tried
        /\ conns[c].sent[i].k = "snaclogin" => "icq" \notin tried

\* The frames of the set-up, in the order in which the client sends them.
Steps == <<"cookie", "versions", "reqrates", "rateack", "clientready">>

InOrder(sent) ==
    /\ sent # <<>> => sent[1].k = "cookie"
    /\ \A i \in DOMAIN sent : \A n \in DOMAIN Steps : sent[i].k = Steps[n] =>
          /\ \A j \in DOMAIN sent : sent[j].k = Steps[n] => i = j
          /\ n > 1 => \E j \in 1 .. i - 1 : sent[j].k = Steps[n - 1]

\* A connection other than the authorizer's begins with its cookie (auth.c:17-19);
\* versions go out before rates are requested (service.c:82-87) and both before the
\* rates are acknowledged, each of them once; the client is ready only after that.
HandshakeInOrder ==
    \A c \in DOMAIN conns : conns[c].type # "auth" => InOrder(conns[c].sent)

\* What the client says about versions, rates and a pause names exactly what the host
\* had named, each group and each class once (service.c:463-467, 690-693).
ListsComplete ==
    \A c \in DOMAIN conns : \A i \in DOMAIN conns[c].sent :
        LET f == conns[c].sent[i]
            named == IF f.k = "rateack" THEN HostRates ELSE HostGroups(conns[c].type)
        IN  f.k \in {"versions", "rateack", "pauseack"} =>
                Range(f.list) = Range(named) /\ IsInjective(f.list)

\* A chat connection bears the name of the room that was asked for (service.c:124,
\* utils/faimtest/chat.c:247-250), whatever else was asked for and answered between.
RoomNamed == \A c \in DOMAIN conns : conns[c].type = "chat" => conns[c].name = conns[c].asked

\* As long as the BOS connection lasts, the session knows its screen name (auth.c:397).
ScreenNameKept == \A c \in DOMAIN conns : conns[c].type = "bos" => sn = account

\* A login ends, and every other connection is set up, unless it breaks.
SetUpEnds ==
    \A c \in 1 .. MaxConns :
        There(c) ~> (~There(c) \/ conns[c].done)
=============================================================================
