----------------------------- MODULE Rendezvous -----------------------------
(***************************************************************************)
(* Who owns what when connections die: ->priv and ->internal of            *)
(* connections, and the message cookies of the session (conn.c, ft.c,      *)
(* chat.c, msgcookie.c).                                                   *)
(*                                                                         *)
(* Three kinds of connection matter: "out", a listener waiting for a peer  *)
(* (AIM_CONN_TYPE_RENDEZVOUS_OUT); "rend", an established connection to a  *)
(* peer (AIM_CONN_TYPE_RENDEZVOUS); and "chat".  Objects of the heap are   *)
(* numbered in the order of their allocation and a number is never used    *)
(* twice: a stale pointer is one that is not in the heap any more.         *)
(***************************************************************************)
EXTENDS Integers, Sequences, SequencesExt

CONSTANTS
    Cks,        \* cookie strings; few of them, so that rand() repeats itself
    Subtypes,   \* the kinds of rendezvous the client starts
    Habits,     \* what the client does, see below
    Faults,     \* what goes wrong around it, see below
    MaxAllocs   \* bound on the number of allocations

\* "gives up"        closes listeners that no peer has connected to
\* "keeps listener"  leaves the listener open after the first peer
\* "own priv"        stores a malloc()ed object in ->priv, as aim.h:226 invites
\* "chats"           joins chat rooms and leaves them
\* "other family"    a peer connects that is not AF_INET
\* "no memory"       aim_conn_getnext() gets no memory
ASSUME RendezvousAssumption ==
    /\ Subtypes \subseteq {"directim", "sendfile"}
    /\ Habits \subseteq {"gives up", "keeps listener", "own priv", "chats"}
    /\ Faults \subseteq {"other family", "no memory"}
    /\ MaxAllocs \in Nat

VARIABLES
    mem,    \* the memory: conns (sess->connlist), heap, cookies
            \* (sess->msgcookies), and bad, the invalid accesses so far
    nalloc, \* number of allocations
    call    \* the call of the library that is waiting for a callback

vars == <<mem, nalloc, call>>

NULL == 0
NoCk == "none"
NoCall == [op |-> "none", conn |-> NULL]
Ptrs == 0 .. MaxAllocs

ConnT == [type : {"out", "rend", "chat"}, subtype : Subtypes \cup {"none"},
          open : BOOLEAN, internal : Ptrs, priv : Ptrs]

\* An object holds a cookie (struct aim_directim_intdata) or points to a string
\* (struct chatconnpriv, struct aim_invite_priv), or neither.
ObjT == [ck : Cks \cup {NoCk}, name : Ptrs]
CookieT == [type : {"OFTIM", "OFTSEND", "CHAT", "INVITE"}, ck : Cks, data : Ptrs]

\* The memory has the shape of the C structures.
TypeOK ==
    /\ DOMAIN mem.conns \subseteq 1 .. MaxAllocs
    /\ \A c \in DOMAIN mem.conns : mem.conns[c] \in ConnT
    /\ DOMAIN mem.heap \subseteq 1 .. MaxAllocs
    /\ \A p \in DOMAIN mem.heap : mem.heap[p] \in ObjT
    /\ \A i \in DOMAIN mem.cookies : mem.cookies[i] \in CookieT
    /\ mem.bad \subseteq {"freed twice", "used after free", "NULL followed"}
    /\ nalloc \in 0 .. MaxAllocs
    /\ call \in [op : {"none", "accept", "read"}, conn : Ptrs]

NoConns == [c \in {} |-> NULL]
Init ==
    /\ mem = [conns |-> NoConns, heap |-> NoConns, cookies |-> <<>>, bad |-> {}]
    /\ nalloc = 0
    /\ call = NoCall

-----------------------------------------------------------------------------
(* malloc() and free() *)

Without(f, x) == [y \in DOMAIN f \ {x} |-> f[y]]
With(f, x, v) == [y \in DOMAIN f \cup {x} |-> IF y = x THEN v ELSE f[y]]

Obj(ck, name) == [ck |-> ck, name |-> name]
Put(m, p, o) == [m EXCEPT !.heap = With(@, p, o)]
Bad(m, what) == [m EXCEPT !.bad = @ \cup {what}]

Free(m, p) ==
    CASE p = NULL -> m
      [] p \in DOMAIN m.heap -> [m EXCEPT !.heap = Without(@, p)]
      [] OTHER -> Bad(m, "freed twice")

\* The memory after p was followed, and then whatever Rest does with it.
Follow(m, p, Rest(_)) ==
    CASE p = NULL -> Bad(m, "NULL followed")
      [] p \in DOMAIN m.heap -> Rest(m)
      [] OTHER -> Bad(m, "used after free")

-----------------------------------------------------------------------------
(* msgcookie.c *)

\* Where the list has a cookie of this type, in its order.
aim_checkcookie(m, ck, type) ==
    {i \in DOMAIN m.cookies : m.cookies[i].type = type /\ m.cookies[i].ck = ck}

First(S) == CHOOSE i \in S : \A j \in S : i <= j

\* Takes the first such cookie from the list and frees it with its data, as every
\* caller of aim_uncachecookie does with its result.
aim_uncachecookie(m, ck, type) ==
    LET at == aim_checkcookie(m, ck, type)
    IN  IF at = {}
        THEN m
        ELSE Free([m EXCEPT !.cookies = RemoveAt(@, First(at))], m.cookies[First(at)].data)

\* aim_cookie_free on the cookie found
aim_cookie_free(m, ck, type) == aim_uncachecookie(m, ck, type)

cachecookie_Kept(m, type, ck, data) ==
    [m EXCEPT !.cookies = <<[type |-> type, ck |-> ck, data |-> data]>> \o @]

\* A cookie that is cached anew replaces the one of the same type and string.
aim_cachecookie(m, type, ck, data) ==
    [aim_cookie_free(m, ck, type) EXCEPT
        !.cookies = <<[type |-> type, ck |-> ck, data |-> data]>> \o @]

-----------------------------------------------------------------------------
(* Teardown: conn.c, ft.c, chat.c *)

close_rend_OtherType(m, c) ==
    LET conn == m.conns[c]
    IN  IF conn.type = "out" /\ conn.subtype = "directim" /\ conn.internal # NULL
        THEN Follow(m, conn.internal,
                 LAMBDA x : aim_uncachecookie(x, x.heap[conn.internal].ck, "OFTIM"))
        ELSE m

\* The cookie of a direct IM is removed.  For a file transfer the code looks for
\* an OFTSEND cookie, of which there are none, so it does not read ->priv either.
aim_conn_close_rend(m, c) ==
    LET conn == m.conns[c]
    IN  IF conn.type = "rend" /\ conn.subtype = "directim"
        THEN Follow(m, conn.internal,
                 LAMBDA x : aim_uncachecookie(x, x.heap[conn.internal].ck, "OFTIM"))
        ELSE m

aim_conn_close(m, c) == aim_conn_close_rend([m EXCEPT !.conns[c].open = FALSE], c)

kill_rend_Forgotten(m, c) == m

\* ->internal is freed for rend connections only.
aim_conn_kill_rend(m, c) ==
    IF m.conns[c].type = "rend" THEN Free(m, m.conns[c].internal) ELSE m

aim_conn_kill_chat(m, c) ==
    LET ccp == m.conns[c].priv
    IN  IF m.conns[c].type = "chat" /\ ccp # NULL
        THEN Follow(m, ccp, LAMBDA x : Free(Free(x, x.heap[ccp].name), ccp))
        ELSE m

connkill_FreesFirst(m, c) ==
    LET freed  == aim_conn_kill_rend(Free(m, m.conns[c].priv), c)
        closed == IF m.conns[c].open THEN aim_conn_close(freed, c) ELSE freed
    IN  [aim_conn_kill_chat(closed, c) EXCEPT !.conns = Without(@, c)]

connkill_real(m, c) ==
    LET closed == IF m.conns[c].open THEN aim_conn_close(m, c) ELSE m
        freed  == Free(closed, m.conns[c].priv)
        gone   == aim_conn_kill_chat(aim_conn_kill_rend(freed, c), c)
    IN  [gone EXCEPT !.conns = Without(@, c)]

-----------------------------------------------------------------------------
(* Calls of the client *)

NewConn_Untyped(type, subtype, open, internal) ==
    [type |-> "unset", subtype |-> subtype, open |-> open, internal |-> internal, priv |-> NULL]

NewConn(type, subtype, open, internal) ==
    [type |-> type, subtype |-> subtype, open |-> open, internal |-> internal, priv |-> NULL]

AddConn(m, c, conn) == [m EXCEPT !.conns = With(@, c, conn)]

\* The objects a call allocates are nalloc + 1, nalloc + 2, ...
Allocates(n) == /\ mem.bad = {}
                /\ nalloc + n <= MaxAllocs
                /\ nalloc' = nalloc + n

\* bind() fails as long as another listener has the port.
PortFree == \A c \in DOMAIN mem.conns : ~(mem.conns[c].type = "out" /\ mem.conns[c].open)

Initiate_OneCopy(subtype, ck) ==
    /\ PortFree
    /\ Allocates(3)
    /\ LET cached == aim_cachecookie(Put(mem, nalloc + 1, Obj(ck, NULL)), "OFTIM", ck, nalloc + 1)
       IN  mem' = AddConn(cached, nalloc + 3, NewConn("out", subtype, TRUE, nalloc + 1))
    /\ UNCHANGED call

\* aim_directim_initiate and aim_sendfile_initiate: a cookie with its copy of the
\* data, of type OFTIM for both, and a listener with another copy.
Initiate(subtype, ck) ==
    /\ PortFree
    /\ Allocates(3)
    /\ LET cached == aim_cachecookie(Put(mem, nalloc + 1, Obj(ck, NULL)), "OFTIM", ck, nalloc + 1)
       IN  mem' = AddConn(Put(cached, nalloc + 2, Obj(ck, NULL)), nalloc + 3,
                          NewConn("out", subtype, TRUE, nalloc + 2))
    /\ UNCHANGED call

\* aim_newconn gets no memory; the cookie is in the cache already.
InitiateFails(ck) ==
    /\ "no memory" \in Faults
    /\ PortFree
    /\ Allocates(1)
    /\ mem' = aim_cachecookie(Put(mem, nalloc + 1, Obj(ck, NULL)), "OFTIM", ck, nalloc + 1)
    /\ UNCHANGED call

\* The cookie string is the peer's, and may be one of ours.
aim_directim_connect(ck, open) ==
    /\ "directim" \in Subtypes
    /\ Allocates(2)
    /\ mem' = AddConn(Put(mem, nalloc + 1, Obj(ck, NULL)), nalloc + 2,
                      NewConn("rend", "directim", open, nalloc + 1))
    /\ UNCHANGED call

\* A client that does not give up keeps a listener until a peer has connected:
\* then ->internal has moved to the new connection.
MayLetGo(c) ==
    (mem.conns[c].type = "out" /\ mem.conns[c].internal # NULL) => "gives up" \in Habits

Close(c) ==
    /\ mem.bad = {}
    /\ MayLetGo(c)
    /\ mem' = aim_conn_close(mem, c)
    /\ UNCHANGED <<nalloc, call>>

aim_conn_kill(c) ==
    /\ mem.bad = {}
    /\ MayLetGo(c)
    /\ mem' = connkill_real(mem, c)
    /\ UNCHANGED <<nalloc, call>>

\* The client stores something of its own in ->priv.
SetPriv(c) ==
    /\ "own priv" \in Habits
    /\ mem.conns[c].priv = NULL /\ mem.conns[c].type # "chat"
    /\ Allocates(1)
    /\ mem' = [Put(mem, nalloc + 1, Obj(NoCk, NULL)) EXCEPT !.conns[c].priv = nalloc + 1]
    /\ UNCHANGED call

-----------------------------------------------------------------------------
(* Chat *)

\* A redirect to a chat room: a connection, to which the name is attached at once
\* (utils/faimtest/chat.c, chat_redirect).
JoinChat(open) ==
    /\ "chats" \in Habits
    /\ Allocates(3)
    /\ mem' = AddConn(Put(Put(mem, nalloc + 1, Obj(NoCk, NULL)), nalloc + 2, Obj(NoCk, nalloc + 1)),
                      nalloc + 3, [NewConn("chat", "none", open, NULL) EXCEPT !.priv = nalloc + 2])
    /\ UNCHANGED call

\* A name is attached to a connection that has one.  Its own name is not freed.
aim_chat_attachname(c) ==
    /\ mem.conns[c].type = "chat"
    /\ Allocates(2)
    /\ LET m == Free(mem, mem.conns[c].priv)
       IN  mem' = [Put(Put(m, nalloc + 1, Obj(NoCk, NULL)), nalloc + 2, Obj(NoCk, nalloc + 1))
                      EXCEPT !.conns[c].priv = nalloc + 2]
    /\ UNCHANGED call

aim_chat_send_im(ck) ==
    /\ "chats" \in Habits
    /\ Allocates(0)
    /\ mem' = aim_cachecookie(mem, "CHAT", ck, NULL)
    /\ UNCHANGED call

\* Our own messages come back with their cookie; others with any.
incomingmsg(ck) ==
    /\ "chats" \in Habits
    /\ mem.bad = {}
    /\ mem' = aim_uncachecookie(mem, ck, "CHAT")
    /\ UNCHANGED <<nalloc, call>>

\* Nothing takes an invitation's cookie out again, except another one like it.
aim_chat_invite(ck) ==
    /\ "chats" \in Habits
    /\ Allocates(2)
    /\ mem' = aim_cachecookie(Put(Put(mem, nalloc + 1, Obj(NoCk, NULL)), nalloc + 2, Obj(NoCk, nalloc + 1)),
                              "INVITE", ck, nalloc + 2)
    /\ UNCHANGED call

-----------------------------------------------------------------------------
(* aim_handlerendconnect, called by the client's loop on a readable listener *)

Listening(c) == mem.conns[c].type = "out" /\ mem.conns[c].open

\* A peer that cannot be served: the listener is closed, and the client's loop
\* kills it because the call failed.
AcceptFails(c) ==
    /\ Faults # {}
    /\ call = NoCall /\ mem.bad = {}
    /\ Listening(c)
    /\ mem' = connkill_real(aim_conn_close(mem, c), c)
    /\ UNCHANGED <<nalloc, call>>

\* aim_cloneconn copies ->priv and ->internal; the latter is moved for a direct IM.
Clone(m, c, new) ==
    AddConn(m, new, [m.conns[c] EXCEPT !.type = "rend", !.open = TRUE])

AcceptDirectim(c) ==
    /\ call = NoCall
    /\ Listening(c) /\ mem.conns[c].subtype = "directim"
    /\ Allocates(1)
    /\ LET m == [Clone(mem, c, nalloc + 1) EXCEPT !.conns[c].internal = NULL]
       IN  mem' = Follow(m, mem.conns[c].internal, LAMBDA x : x)
    /\ call' = [op |-> "accept", conn |-> c]

\* DIRECTIMINITIATE returns.  A client that keeps no listener has killed it.
AcceptReturns ==
    /\ call.op = "accept" /\ mem.bad = {}
    /\ call.conn \in DOMAIN mem.conns => "keeps listener" \in Habits
    /\ call' = NoCall
    /\ UNCHANGED <<mem, nalloc>>

\* File transfers are not served: the clone is closed at once, and the client's
\* loop kills the listener because the call failed.
AcceptSendfile(c) ==
    /\ call = NoCall
    /\ Listening(c) /\ mem.conns[c].subtype = "sendfile"
    /\ Allocates(1)
    /\ LET m == aim_conn_close(Clone(mem, c, nalloc + 1), nalloc + 1)
       IN  mem' = IF "keeps listener" \in Habits THEN m ELSE connkill_real(m, c)
    /\ UNCHANGED call

-----------------------------------------------------------------------------
(* aim_get_command_rendezvous *)

Readable(c) == /\ call = NoCall /\ mem.bad = {}
               /\ mem.conns[c].type = "rend" /\ mem.conns[c].open

\* The peer has gone, or sends what the library does not know.
ReadFails(c) ==
    /\ Readable(c)
    /\ mem' = aim_conn_close(mem, c)
    /\ UNCHANGED <<nalloc, call>>

\* A message or a typing notice: the client's callback is called.
ReadMessage(c) ==
    /\ Readable(c)
    /\ call' = [op |-> "read", conn |-> c]
    /\ UNCHANGED <<mem, nalloc>>

\* The callback returns, and the connection is closed if it returns -1.  The client
\* does not return -1 after it has killed the connection itself.
ReadReturns(fails) ==
    /\ call.op = "read" /\ mem.bad = {}
    /\ fails => call.conn \in DOMAIN mem.conns
    /\ mem' = IF fails THEN aim_conn_close(mem, call.conn) ELSE mem
    /\ call' = NoCall
    /\ UNCHANGED nalloc

-----------------------------------------------------------------------------
Next ==
    \/ \E s \in Subtypes, ck \in Cks : Initiate(s, ck)
    \/ \E ck \in Cks : \/ InitiateFails(ck)
                       \/ aim_chat_send_im(ck)
                       \/ incomingmsg(ck)
                       \/ aim_chat_invite(ck)
    \/ \E ck \in Cks, open \in BOOLEAN : aim_directim_connect(ck, open)
    \/ \E open \in BOOLEAN : JoinChat(open)
    \/ \E c \in DOMAIN mem.conns :
          \/ Close(c) \/ aim_conn_kill(c) \/ SetPriv(c) \/ aim_chat_attachname(c)
          \/ AcceptFails(c) \/ AcceptDirectim(c) \/ AcceptSendfile(c)
          \/ ReadFails(c) \/ ReadMessage(c)
    \/ AcceptReturns
    \/ \E fails \in BOOLEAN : ReadReturns(fails)

Spec == Init /\ [][Next]_vars

-----------------------------------------------------------------------------
(* Properties *)

\* Nothing is freed twice, used after it was freed, or followed when NULL: neither
\* by a teardown (conn.c:152-190) that meets cookies which repeat themselves and
\* connections that share a cookie, nor by an accepted clone of a listener.
NoBadAccess == mem.bad = {}

\* The list has one cookie per type and string (msgcookie.c:7-12, 24-27), although
\* every user draws the string at random and adds it without looking.
UniqueCookies ==
    \A i, j \in DOMAIN mem.cookies :
        mem.cookies[i].type = mem.cookies[j].type /\ mem.cookies[i].ck = mem.cookies[j].ck => i = j

\* Every connection to a peer has its own, living ->internal: aim_send_im_direct,
\* aim_directim_getconn and connclose_directim follow it without a look (ft.c:122,
\* 453, 958), and the cookie's copy of the data is never the connection's.
InternalOwned ==
    \A c \in DOMAIN mem.conns : mem.conns[c].type = "rend" =>
        /\ mem.conns[c].internal \in DOMAIN mem.heap
        /\ \A d \in DOMAIN mem.conns \ {c} : mem.conns[d].internal # mem.conns[c].internal
        /\ \A i \in DOMAIN mem.cookies : mem.cookies[i].data # mem.conns[c].internal

\* A direct IM's cookie is in the cache only as long as an open connection carries
\* its string, so that closing removes it (conn.c:311-313).
CookiesRemoved ==
    \A i \in DOMAIN mem.cookies : mem.cookies[i].type = "OFTIM" =>
        \E c \in DOMAIN mem.conns :
            /\ mem.conns[c].open
            /\ mem.conns[c].internal \in DOMAIN mem.heap
            /\ mem.heap[mem.conns[c].internal].ck = mem.cookies[i].ck

\* Every object is still owned: by a connection, a cookie, or such an object.
Roots == {mem.conns[c].internal : c \in DOMAIN mem.conns}
         \cup {mem.conns[c].priv : c \in DOMAIN mem.conns}
         \cup {mem.cookies[i].data : i \in DOMAIN mem.cookies}
NothingLeaks ==
    DOMAIN mem.heap \subseteq Roots \cup {mem.heap[p].name : p \in Roots \cap DOMAIN mem.heap}
=============================================================================
