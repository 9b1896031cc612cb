# A TLA+ model of libfaim

libfaim is a single-threaded C library for the OSCAR protocol (AIM and ICQ).
A client opens a *session*, opens *connections* in it (authorizer, BOS, chat,
peer-to-peer), runs a `select` loop and is called back for every packet. This
directory models the library's core as TLA+ modules, checks them with TLC on
small instances, and proves with TLAPS, for instances of every size, what is
safe about sending, receiving, framing, the SNAC cache and its users, logging in
and the ownership of connection data.

Paths below are relative to the repository; line numbers refer to `src/*.c`
unless another directory is named.

## 1. Inventory

| Component | State | Operations | Modelled in |
|---|---|---|---|
| connections (`conn.c`) | `sess->connlist`, per connection `fd`, `status`, `seqnum`, `priv`, `internal`, SNAC groups, rates | `aim_newconn`, `aim_conn_close`, `aim_conn_kill`, `aim_conn_completeconnect`, `aim_cloneconn`, `aim_select`, `aim_logoff` | `TxQueue`, `EventLoop`, `Rendezvous`, `Login` |
| transmit queue (`txqueue.c`) | `sess->queue_outgoing`, `sess->tx_enqueue` | `aim_tx_new`, `aim_tx_enqueue`, `aim_tx_setenqueue`, `aim_tx_flushqueue`, `aim_tx_purgequeue`, `aim_tx_cleanqueue` | `TxQueue` |
| receive queue (`rxqueue.c`) | `sess->queue_incoming`; byte streams | `aim_get_command`, `aim_purge_rxqueue`, `aim_rxqueue_cleanbyconn` | `RxDispatch` (frames), `Wire` (bytes) |
| dispatch (`rxhandlers.c`) | module list, handler list per connection | `aim_rxdispatch`, `consumesnac`, `consumenonsnac`, `negchan_middle`, `aim_callhandler` | `RxDispatch` |
| SNAC cache (`snac.c`, users in `misc.c`, `service.c`, `chatnav.c`, `search.c`, `info.c`) | `sess->snac_hash`, `sess->snacid_next` | `aim_cachesnac`, `aim_newsnac`, `aim_remsnac`, `aim_cleansnacs` | `SnacMap`, `SnacCache` |
| client loop (`utils/faimtest/faimtest.c`) | the connection `aim_select` returned | `main` | `EventLoop` |
| message cookies (`msgcookie.c`) | `sess->msgcookies` | cache, uncache, check, free | `Rendezvous` |
| TLVs and byte streams (`tlv.c`, `rxqueue.c`) | position and room of a stream | read, write, look up, size | `Bstream`, `Tlv`, `Wire` |
| login and connection set-up (`auth.c`, `service.c`) | `sess->flags`, groups, rate classes | `aim_request_login`, `aim_send_login`, `hostonline`, `hostversions`, `rateresp`, `redirect`, `serverpause`, `migrate` | `Login` |
| rendezvous (`ft.c`) | listener and accepted connections, `->internal`, cookies | `aim_handlerendconnect`, `aim_directim_*`, `aim_get_command_rendezvous` | `Rendezvous` |
| chat (`chat.c`, `chatnav.c`) | `->priv` of chat connections, cookies | join, send, invite; rooms and exchanges | `Rendezvous`, `Login` (ownership, joining), `Icbm` (messages), `Requests` (the rest) |
| ICBM (`im.c`) | cookies | `aim_send_im_ext`, icons, RTF, proposals; `incomingim`, `outgoingim` | `IcbmFrames`, `Icbm`; parameters, errors, acknowledgements in `Requests` |
| user information, locate (`info.c`) | none | capabilities and user blocks, both ways; `aim_getinfo`, profile | `Userinfo`, `Icbm`, `Requests` |
| buddy list, BOS rights, search, administration, ICQ, popups, statistics, server-stored lists (`buddylist.c`, `bos.c`, `search.c`, `admin.c`, `icq.c`, `popups.c`, `stats.c`, `ssi.c`), catch-all (`misc.c`) | none of their own; requests in the SNAC cache | one SNAC out, one SNAC in | `RequestFrames`, `Requests` |
| `adverts.c`, `invite.c`, `translate.c`, `meta.c`; MD5; `aimdump`, `aimpasswd` | none | registration only; hashing; tools | not modelled |

**How they interact.** Everything hangs off `aim_session_t`. `aim_select`
looks at the connection list and at the transmit queue to tell the client what
to do. `aim_get_command` reads one frame into the receive queue, or completes a
connect, which calls the client back and flushes the transmit queue.
`aim_rxdispatch` walks the receive queue, and the handlers call the client back.
Callbacks call anything: they send, open and kill connections. Frames of both
queues hold bare pointers to connections; killing a connection marks its frames.
Requests are remembered in the SNAC cache under a counter value that the reply
carries.

**What is hard.** There are no threads, so what is hard is re-entrance: a
callback runs in the middle of a loop over a list. Further: pointers that
outlive what they point to, addresses that malloc() hands out again, stamps
taken long before a frame is sent, outcomes of socket calls and allocations in
the middle of a loop, ids that wrap, replies that come late, twice or never, and
an `aim_select` that serves one thing at a time. Then the wire format: lengths
are computed by hand before the bytes are put, a put that does not fit is
dropped without a word, a get past the end reads zero without moving, and blocks
without a length of their own stand before other fields, so that one that ends
in the wrong place garbles everything behind it. `PROJECT.json` lists these
hazards, each at its line, with the properties that cover it.

**What makes each component correct.**

- transmit: a connection's socket carries its own frames only, in order, once,
  with consecutive stamps; no frame is sent through a freed connection;
- receive: every frame of a living connection reaches a handler, once and in
  order; no handler is given a freed connection;
- SNAC cache: the first reply to a request finds that request or nothing;
- client loop: what is queued leaves, what is dead is reaped;
- teardown: each piece of memory behind a connection or a cookie has one owner,
  is used before it is freed and freed once, and none is lost;
- the wire: whatever pieces bytes come in, a handler sees a whole frame as it was
  sent or nothing, and no loop over one goes on for ever;
- messages and requests: the other end reads what the call was given, and the
  callback is given what the other end meant, about the request it was meant for;
- login: the first login of a session goes the way of its account, the set-up of a connection
  runs to its end in order, and a redirect leads to what was asked for.

## 2. Modules

### TxQueue

The connection list as far as sending needs it, and the transmit queue. A
connection is the *address* of its `aim_conn_t`: `aim_conn_kill` frees it,
`aim_newconn` may get it again, and `gen` counts the allocations so that the
properties can tell two owners of an address apart. The queue is a set of frames
ordered by `id`, the order in which they were appended. `id`, `n` (the frame's
number on its connection), `gen`, `count`, `handed` and `wire` are history and
have no counterpart in the code.

Calls of the client are single actions. `aim_tx_flushqueue` is not: its loop
makes a socket call per frame, so each iteration (`FlushSkip`, `FlushSend`) is a
step, between which the network may reset a connection, and `FlushEnd` is the
purge at its end. `aim_conn_completeconnect` clears the INPROGRESS bit
(`CompleteConnect`), hands control to the client (`caller = "callback"`: every
client action is possible) and flushes when the callback returns
(`CallbackReturns`). `Outcomes` is what `sendframe_flap` can come to: sent; not
sent but marked; or, if malloc() fails, neither.

The constants describe the client and its environment: the modes it uses,
whether it switches mode with frames queued, whether it connects without
blocking, whether malloc() or send() fail. Only the two bounds, `MaxFrames` and
`MaxGen`, are there for TLC; the theorems hold for all their values.

Left out: the user-supplied enqueue function; the forced latency, which sleeps
inside the flush; OFT frames. A send() that fails half way through a frame is in
`Wire`.

### TxQueueProofs

The proofs about `TxQueue`, and that `EventLoop` implements it; see section 5.

### EventLoop

Extends `TxQueue`: the same actions, driven by `aim_select` and the loop of
`faimtest`. `order` is the connection list in its order (new connections go to
the head), `net[c]` what the kernel has for a socket, `pc` where the loop is.
`SelectNone`, `SelectDead`, `SelectOutgoing`, `SelectReady` and `SelectTimeout`
are the returns of `aim_select`, in its order of precedence; `InputDead`,
`InputConnected`, `InputRefused`, `InputFrame`, `InputLost` what
`aim_get_command` does with the connection it is given; the `Handler` actions
what client code does in callbacks and between events (the keep-alive that
`faimtest` sends now and then is one of its sends).

### RxDispatch

The receive queue and the dispatch loop. A frame is reduced to its channel and to
what its handlers do (`Kinds`): how many of them have a callback of the client,
whether the family's module takes the SNAC whatever its callback returns
(`takes`), and whether it calls back for each of several entries (`several`), as
`missedcall` (`im.c:1733-1742`) and `infochange` (`admin.c:16-47`) do, the only
handlers with such a loop. `aim_rxdispatch` stands at a
frame while a callback runs (`stage`; `"entry"` in those two loops, where
`NextEntry` looks the callback up again through `rx->conn`), and all client
actions are possible then, killing the frame's own connection included.
`Returning` separates what a
callback returns that left its frame alone (`Returns`) from what one returns
that killed its connection (`KillReturns`): the code treats them alike, and the
table of section 3 shows that it must not. `EntryKills` says whether a callback
called for an entry may kill its connection: in the run it does not, not even at
the last entry, for it cannot know that it is the last. `badref` is set when the loop follows a pointer to a
connection that is not in the list any more or belongs to a later owner of the
address. A failed malloc() in `aim_get_command` queues nothing and closes
nothing, hence is no step of the model. `RxDispatchProofs` has its proofs.

### SnacMap and SnacCache

`SnacMap` is the abstract specification: a set of outstanding requests; a lookup
by id takes the newest one with that id; aging forgets the old ones. `SnacCache`
is the hash table of linked lists with the server that answers. `tag` is the
identity of a request, which its id merely stands for. `asked` and `taken` make
the lookups and their results visible, so that the refinement relates them.
`again` marks a request
that was answered before. Wrapped ids, failed allocations, requests with id 0,
repeated replies and aging all happen in the same behaviours, for they do
interact: a request that is answered twice after the ids wrapped around finds
itself and then an old request nobody answered. `MCSnacCache` gives the ages `aim_cleansnacs` is called with: -1
(`aim_session_kill`) and a minute (`aim_send_im_ext`), here one tick.
`SnacCacheProofs` proves the refinement.

### Rendezvous

Who owns `->priv` and `->internal` of a connection and the data of a message
cookie. Memory is a set of objects, each live or freed; `bad` is set by a read,
a write or a second free of a freed object, or through NULL. `connkill_real`,
`aim_conn_close` and the cookie list are operators that map such a memory to the
next one, in the order in which the code touches it; the actions are the calls of
the client (initiate, connect, close, kill, join, send, invite) and the events of
listeners and peers. `aim_handlerendconnect` and `aim_get_command_rendezvous`
call the client back in their middle, and the model stands there (`AcceptDirectim`
... `AcceptReturns`, `ReadMessage` ... `ReadReturns`) while the client does as it
likes. The constants give the client's habits: whether it kills a listener in the
accept callback (as `faimtest` does), uses chat, stores data of its own in
`->priv`, gives a listener up, uses file transfer.

Assumed: a message callback that killed its connection does not return -1.

`RendezvousProofs` first says what each operator does to a memory (`KillMem`,
`FreesPriv`, `CachedAfter`, ...), then, once per action, what the action changes
(`Changes`: which connections, objects and cookies are new, gone or touched), and
from that, per invariant, that the action preserves it.

### Login

Logging in and setting up connections. A connection holds the groups and rate
classes the host named, the frames sent and how many of them the server has
read, and the messages that wait for the client. A handler of `auth.c` or
`service.c` and the callback of `faimtest` it runs are one action (`keyparse`,
`parse`, `hostonline`, ..., `migrate`); `login`, `aim_reqservice`,
`aim_chat_join`, `aim_send_im_ext`, `aim_logoff` (connections go, the session stays)
and `logout` (`faimtest`: the session is killed and initialised anew) are the user's.
`Answers`
says what the servers answer; they answer in order on a connection, and a
connection may break or be closed at any time. `account` and `tried`, the accounts
logged in to since `aim_session_init`, are history.

Only the requests that a redirect answers, and IMs, take ids: the ids of the
others meet no lookup. What the model assumes of sending (in order, nothing lost)
is what `TxQueue` shows. The proofs are in `LoginProofs`, where `Takes` says how an
action extends a connection and every invariant is about what a connection takes.

### Bstream, Tlv and Wire

`Bstream` has the byte streams: one that is read is its bytes and an offset, one
that is written its room and the bytes so far. `Tlv` has the chains: appended to
when built, written whole or not at all, and read by prepending, so that a chain
read is the reverse of the one written. `Gets` and `Puts` are a handler's series
of gets and puts.

`Wire` sends TLV chains in FLAP frames over one connection whose both ends are
this library, byte by byte. `aim_send(n)` and `aim_recv(n)` are turns of the two
loops, in which the kernel takes or gives any number of bytes; `SendFails` gives
up the rest of a frame, `NoMemory` is the early return of `aim_get_command`
between a header and its payload, `GotHeader` closes the connection if the header
does not start with `0x2a`, and `aim_readtlvchain_turn` is a turn of
`aim_readtlvchain`. `Expected` is the reference definition of what is to be read.

`TlvProofs` has what holds of the operators of `Bstream` and `Tlv` for all streams
and chains, `WireProofs` and `RequestsProofs` build on it.

### Userinfo, IcbmFrames and Icbm

`Userinfo` writes and reads capabilities and the block that says who a message is
from. `IcbmFrames` has one operator per function of `im.c` and `chat.c` that
sends a message, with the room and the lengths the code computes. `Icbm` sends
one, lets the server pass it on (`Relay`, `RelayChat`: external; it puts the
sender's block, TLVs of its own and the address it sees in) and has the
handlers take it apart: `incomingim_ch1` reads the frame in place, one TLV a
step; `incomingim_ch2` reads a proposal and its service data; `outgoingim`
is the same message in a program that plays the server; `incomingmsg` is chat,
`buddychange` a buddy's arrival. The cookies of chat messages are kept from one
message to the next.

A user block is written in other types and lengths than it is read in, so an
arrival that the library itself sends does not come back as it was. `Carried` are
the fields that do; `UserinfoTold` says what becomes of the others.

Text is a short sequence of bytes and a capability a distinct block; what is kept
exactly is every length, every offset and the order of the fields.

### RequestFrames and Requests

`RequestFrames` has one operator per function that sends a request: what it keeps
in the SNAC cache, whether it takes an id, and what it puts into a frame of which
size. `Requests` makes requests, forgets them by age (`aim_cleansnacs`) and lets
answers, errors and notices arrive in any order of the requests: `Arrive` is
`consumesnac` with the family's handler and then, for errors, `generror` of the
catch-all module. There is one operator per handler (`userinfo`, `parseinfo`,
`infochange`, `parsedata`, `icqresponse`, `infoupdate`, ...). Their arguments are
what the callback gets.

The cache is a function from ids, which is what `SnacMap` promises and
`SnacCache` is shown to implement. The server is external: `Grammar` says how it
reads each request, `Answers`, `InfoAnswer` and `Notices` what it sends. These
come from the formats the code on either side uses, and are written apart from
the operators they are compared with. `IsRequest` says what a request has to be; TLC
checks it of those of the runs.

## 3. Runs

| Run | Shows |
|---|---|
| `tx_queued` | queued mode, non-blocking connects: `TypeOK`, `NoDanglingFrame`, `FlapOrder` |
| `tx_immediate` | blocking connects, both modes, switched while the queue is empty, and a send() that may fail on a healthy socket: the frame counts as sent, its stamp is lost, but `SentInOrder` holds |
| `event_loop` | any mode, non-blocking connects: `FramesLeave` and `DeadReaped` under fairness |
| `rx_any_return` | callbacks that do anything, called once per module or once per entry of a SNAC, but return 1 if they killed their own connection, and do not kill it in the loops over entries: `NoDanglingDispatch`, `NoFrameLost`, `SnacsOnceInOrder` |
| `snac_cache` | three ids and six requests, so that ids are used again while old requests are in the table, and with that allocation failures, requests with id 0, aging and repeated replies: the table implements the map (`ImplementsMap`); a first reply finds its own request or none, a repeated one, or one with id 0, no other request than one from before a wrap (`RightRequest`) |
| `wire` | frames cut into pieces in every way, resets within a frame, memory that runs out, chains with empty values, chains too long for their frame, two bytes behind a chain: `WholeFrames`, and under fairness `ReadsEnd`, `FramesArrive` |
| `icbm` | every kind of message with flags that fill its frame, blocks and TLVs of the server's own around it: `SenderKnown`; `Delivered`, whose parts are about instant messages with all their sections (`ImDelivered`), the section shown to clients that know none (`MostReadable`), `outgoingim` (`ServerReads`), proposals and chat; `CookiesForgotten`; arrivals with any two fields, nearly all or all of them, for both kinds of names: `UserinfoTold` |
| `requests` | each request alone, those told apart by the cache in pairs, with failing allocations, aging, errors and answers in any order, and each notice: `Understood` (the server reads what was meant), `Attributed`, `Answered`, `Decoded` |
| `rend_any_client` | direct IM, file transfer and chat, failures, a client that uses `->priv` and gives listeners up: no two cookies of one type and string (`UniqueCookies`), every connection to a peer has a living `->internal` of its own (`InternalOwned`) |
| `rend_directim` | direct IMs whose peer does connect: `NoBadAccess`, `CookiesRemoved`, `NothingLeaks` |
| `rend_chat` | *violation* of `NoBadAccess`: a named chat connection is killed |
| `login_sessions` | two accounts, in one session after each other or with `logout` between them: `LoginKind`, `HandshakeInOrder`, `ListsComplete`, `RoomNamed`, `ScreenNameKept` over logins, redirects, pauses and migrations in any order, and `SetUpEnds` under fairness |

### Findings

- `conn.c:161-165` says that the library never touches `->priv`. `connkill_real`
  frees it (167) and then has `aim_conn_kill_chat` read it and free it again.

The same modules show more of the kind under other constants. These are not kept
as runs; each line says what to change.

| Module, constants, property | What TLC shows |
|---|---|
| `TxQueue`, both modes, `NonBlocking = TRUE`, `FlapOrder` | stamps are taken at enqueue time (`txqueue.c:108`) and not for "the next FLAP packet sent" (195-196): what the CONNCOMPLETE callback sends in immediate mode (`conn.c:1026`) overtakes what was queued while connecting |
| `TxQueue`, `MallocFails = TRUE`, `FlapOrder` | a malloc() fails in `sendframe_flap` (`txqueue.c:270`), the flush goes on to later frames |
| `Rendezvous`, habit `"own priv"`, `NoBadAccess` | `aim_cloneconn` copies `->priv` (`conn.c:573`), killing listener and clone frees it twice |
| `Rendezvous`, habit `"keeps listener"`, `NoBadAccess` and `InternalOwned` | the second peer of a listener makes `aim_handlerendconnect` write through NULL (`ft.c:80`) |
| `Rendezvous`, habit `"gives up"`, `NothingLeaks` and `CookiesRemoved` | `->internal` of a listener nobody connected to is not freed (`ft.c:991`), and its cookie stays |
| `Rendezvous`, `Subtypes = {"sendfile"}`, `CookiesRemoved` | the cookie is cached under one type (`ft.c:301`) and looked up under another (`ft.c:920`) |
| `RxDispatch`, `KillReturns = {0, 1}`, `NoDanglingDispatch` | `rxhandlers.c:507-511` says packets are marked handled *before* they go to their handler; the code assigns the handler's return value afterwards (565, 571, 576), and a callback that kills its connection and returns 0 makes the loop use the freed connection (584), which `aim_rxqueue_cleanbyconn` was written to prevent |
| `RxDispatch`, `EntryKills = TRUE`, `NoDanglingDispatch` | a callback of `missedcall` or `infochange` kills its connection and returns 1; the loop goes on to the next entry and follows the freed `rx->conn` (`im.c:1740`, `admin.c:40`) |
| `Login`, `Slow = TRUE`, `RoomNamed` | an IM sent meanwhile forgets the request (`im.c:338`), the chat connection has no name |
| `Login`, `Services = {"admin"}`, `ScreenNameKept` | a closing frame on an account administration connection, which is of type AUTH, erases `sess->sn` (`rxhandlers.c:163`, `auth.c:399`) |
| `Wire`, `Failures = {"interrupted"}`, `WholeFrames` | send() fails on a sound connection within a frame (`txqueue.c:219`): the frame counts as sent, and the receiver takes the start of the next one for the rest of it |
| `Wire`, a TLV of type 10752 (`0x2a00`), `WholeFrames` | a malloc() fails behind a header (`rxqueue.c:425`), -1 is returned and the connection left open: if the client reads on, the payload is taken for the next header |
| `Wire`, a tail of one or three bytes, `ReadsEnd` | `aim_readtlvchain` loops on a byte that no get takes (`tlv.c:50`), and adds an empty TLV in every turn |
| `Requests`, `Returns = {0, 1}`, `Answered` | a search error whose callback returns 0 is handed to the catch-all module too (`search.c:41`, `misc.c:363`), which calls the client again, without the address |
| `Requests`, `AddressGiven` | when the request is forgotten, the error reaches that callback through `generror` only, with an error code where `faimtest.c:1730` expects the address |
| `Requests`, an exchange without TLV 201, `Decoded` | the flags the client is given were never initialised (`chatnav.c:158`) |

Some passing properties say openly what the code does where one would expect more,
or where a comment promises more:

- `UserinfoTold`. `info.c:535` calls `aim_putuserinfo` the "Inverse of
  aim_extractuserinfo()". It is not: the date of membership is written under the
  type of the creation time (`info.c:553`, 390), so it comes back as that; the ICQ
  status is written two bytes short (562), so that what is read for it is the type
  of the next TLV; status and address are written for numeric names only (560), and
  the creation time not at all; and of 17 capabilities 16 fit the buffer
  (`tlv.c:304`). What holds is that every other field arrives as it was given,
  because the loop goes on at the end of each TLV wherever the reading of its value
  stopped.
- `LoginKind`. A screen name that is logged in to after an ICQ number, in the same
  session, is logged in to by XOR: `aim_request_login` does not clear XORLOGIN
  (`auth.c:130`, 278), although `aim_logoff` keeps the session "in case we want to
  connect again" (`conn.c:1053`) and the comment on `auth.c:61-91` gives each kind of
  account its own login.
- `RightRequest`. A second reply to a request whose id was used before may be given
  an old request of that id. The cache cannot tell the two.

### Bounds

Two connection addresses, so that one is killed, or connects, while the other is
busy; two allocations of each (`MaxGen = 2`), so that an address is used again;
three or four frames with a counter of width three, so that stamps wrap. In
`EventLoop` two frames and one allocation keep the liveness check small: what
matters there is a frame waiting for a connecting socket. `RxDispatch` needs
`MaxLog` because a declined frame may be dispatched for ever; it stops *new*
dispatches after that many frames and cuts none short. `SnacCache` has two hash
lists for three ids, so a list holds two ids, and six requests, so that ids are used
again twice; the clock ticks once, which makes every request old or new.

`Wire` sends two frames, so that what is left of one could be taken for the start
of the next; `Room = 12` has one of the two chains not fit, and a value of `0x2a`
bytes makes a payload look like a header. `Icbm` has one message on the way
at a time (handlers keep nothing between messages but cookies) and two cookies.
`Requests` makes two requests (`MaxRequests`), any two of the seven whose answers
or errors are told apart by the cache (`Combined`) and each of the others alone;
`MaxNames = 3` stands for the 99 names of `aim_bos_changevisibility`.

`Rendezvous` has two cookie strings, so that they collide, and as many
allocations as two connections with their data need (`MaxAllocs`). `Login` has
three connections (authorizer and BOS, then a room, a service, a second login, in the
same session or a new one, or the BOS after a migration) and two ids, so that two requests are open at once.

The event loop may end (`SelectNone`: no connection is left), and in `Rendezvous`
and `Login` the user may stop with nothing open, so their deadlock checks are
off. So they are in `Wire`, which is done when all frames are sent or the
connection is closed, and in `Requests`, when everything is answered. Every other
run checks for deadlock.

### Assumptions of the environment

`ChainsAssumption` of `Wire` (TLVs have types of 16 bits and values of bytes) and
`CallsAssumption` of `Requests` (`IsRequest` holds of every request: its frame has
room for a header, and bytes go into it) only say of what type the constants are.

`RoomsAssumption` of `Login`: a room is not called like a service. The redirect
for a chat carries the room's description, the one for a service a group's number
(`service.c:187-245`), so the two are told apart by their form.

`Reply` assumes that a request is not answered any more after all ids (2^32 in the
code) have been issued again. Without it the cache cannot tell the requests apart.
No other use of an id is excluded: an old request that nobody answered keeps its
place in the table, and a reply may be repeated.
`Wire` leaves an interrupted send() on a sound connection out, and bytes behind a
chain come in twos: the table above
says what happens otherwise. The bodies the server of `Icbm` and `Requests` sends
end where a block ends. Callbacks in `Requests` return 1, as those of `faimtest`
do. `Understood` has no room with a name so long that the frame of
`aim_chatnav_createroom` (1152 bytes, `chatnav.c`) could not hold it, and `Decoded` is
about answers whose request is still known: one that was forgotten is dropped or
handed to the catch-all module, and `Attributed` says that no other request's data
goes with it.

### Fairness

`LoopStep`, weakly fair: the program is not stopped, and callbacks return. The
client's own calls (`HandlerNext`) and the network's input are not fair.
`ConnectResolves`, weakly fair: the kernel ends every connect() eventually, by
its own timeout if by nothing else. `FramesLeave` has the premise that the loop
is idle in the end (`<>[]Quiet`): `aim_select` serves the first ready connection
of its list (`conn.c:766`), so a peer that never stops sending on a newer
connection starves an older one, including one that is connecting and thereby
holds back all transmission. Without the premise TLC shows this starvation.
`DeadReaped` needs no such premise. In `Wire` sending and receiving are weakly fair: a blocking send() or recv() on a
sound connection moves bytes some time, and the client calls `aim_get_command`
again for a socket that stays readable, which `EventLoop` shows. In `Login` the
handlers are weakly fair (the
loop serves what has arrived, see `EventLoop`), and so is the server: it reads
what was sent and answers, which the library cannot enforce.

## 4. What each property would catch

Every property of a passing run has a *mutant* in `PROJECT.json`: a definition
with a plausible bug (`cleanqueue_Forgotten`, `Skipped_Eager`, ...), kept next to
the definition it replaces, under which TLC finds the property violated. Mutants
are used by nothing else.

## 5. Proofs

Eight modules of proofs: one about the operators on byte streams and chains, the
others each about a module that is checked. Every theorem holds
for all values of the constants that the named `ASSUME`s allow (flags are
Boolean, bounds are naturals, widths are positive), and TLC evaluates those in
every run. Further hypotheses stand in the theorem itself. The table of section 3
shows by counterexamples that they cannot be dropped, except where the text below
says otherwise. Every inductive invariant was model-checked
on small instances before it was proved.

### Transmit queue (`TxQueueProofs`)

- `TypeCorrect`: `Spec => []TypeOK`.
- `NoDangling`: `Spec => []NoDanglingFrame`. Inductive as it stands, with types:
  `aim_conn_kill` marks the frames of the dying connection in the same step that
  frees it, marks are never removed, and new frames carry the current owner.
- `SentOrder`: `Spec => []SentInOrder` for a *careful client* (queued mode only,
  or blocking connects and mode switches with an empty queue) when no buffer is
  refused. `SentInOrder` is not inductive: the invariant `OrderInv` adds that
  ids are unique and bounded by `handed` (`Numbered`), that immediate mode means
  an empty queue and no connecting socket (`ModeKept`), that the flush loop has
  left behind it only frames of connecting connections (`LeftBehind`), and that
  everything on a wire has a smaller id than anything still queued for it
  (`WireFirst`). The first two lines of the table in section 3
  show that neither hypothesis can be dropped for the stamps.
- `StampOrder`: `Spec => []FlapOrder` when moreover no send() is interrupted.
  `FlapInv` adds that stamps are frame numbers modulo the width (`Stamped`), and
  that on a healthy connection the frames on the wire and the unsent ones are
  together the numbers 1 to `count`, the unsent ones being the last, in the order
  of their ids (`Ledger`).
- `LoopImplements`: `LoopSpec => Spec`. Each step of `EventLoop` is one of `TxQueue`
  or changes nothing there, hence the theorems above hold of a client driven by
  `aim_select`. What aim_select returned is a connection while the loop is busy
  with it (`Selected`).

### Dispatch (`RxDispatchProofs`)

- `TypeCorrect`.
- `NoDangling`: `Spec => []NoDanglingDispatch` if `0 \notin KillReturns`, that is,
  a callback that killed its own connection does not return 0, and `~EntryKills`,
  that is, one called for an entry of several does not kill its connection. The
  invariant is `Live`, that an unhandled frame belongs to a connection that exists, with
  `Entering`, that the frame whose entries are gone through is unhandled. The first hypothesis
  is used where the handler's return value is assigned, the second where
  `aim_conn_kill` is called; the table of section 3 has a counterexample for each.
- `NothingLost` (`NoFrameLost`) and `OnceInOrder` (`SnacsOnceInOrder`), for every
  return value. Neither is inductive. `IInv` adds that frames are numbered as they
  arrived (`Numbered`), that the frame whose callback runs has been handed out
  (`AtCallback`), that a handled frame was handed out or its connection is gone
  (`Accounted`), and that a waiting SNAC is behind all SNACs handed out and ahead
  of the loop (`Ahead`), although the loop starts at the head of the list again
  and again.

### SNAC cache (`SnacCacheProofs`)

- `TypeCorrect`.
- `RightRequestReturned` (`RightRequest`), an action property: what the lookup for a
  first answer returns is the request it is for; what any other lookup returns is
  that, or older than it by a wrap of the ids at least.
- `HashTableImplementsMap`: `Spec => ImplementsMap`, the refinement of `SnacMap`,
  step by step, for every size of the table and every age. What `aim_cleansnacs`
  leaves of a list is computed by a recursive function (`Unlink`); the library's
  induction theorems cannot be used, and `NatMin`, the least member of a set of
  naturals, takes their place.

`IInv` says that each entry is in the list of its id and lists have the newest
entry first (`ListsOK`), that ids are request numbers modulo the width
(`Counted`), that a request has one record at the server (`Single`), that later
requests have later times, so that aging cannot take a
request and leave an older one (`Aged`), and that an old entry with the id of an
outstanding request that nobody answered yet (`Unanswered`) never stands alone
(`Shadowed`): a lookup takes the newest,
and would return the old one otherwise. This is where the assumption of `Reply`
(section 3) is needed, and where repeated answers and those with id 0 come apart
from the others: they may take the newer entry away and leave the older.

### Login (`LoginProofs`)

- `TypeCorrect`.
- `NameKept` (`ScreenNameKept`), if `"admin" \notin Services`. Only a connection
  of type AUTH erases the name, and without account administration there is none
  beside a BOS connection.
- `LoginDecided` (`LoginKind`). `LoginInv`: XORLOGIN is set exactly if an ICQ number was
  tried since the session was initialised (`FlagsFit`), and what a connection
  sent fits the flags at that time and now, since logging in again takes the
  connections of the login before it to be gone.
- `SetUpInOrder` (`HandshakeInOrder`) and `EverythingNamed` (`ListsComplete`).
  `HandshakeInv` relates, for each connection, how far the client has got to the
  messages that are still on their way to it: the next step of the set-up is asked
  for by at most one waiting message, and each list the client sends repeats the
  groups or classes that were recorded.
- `ChatIsTheRoomAsked` (`RoomNamed`), if `~Slow`. `RoomInv`: no two cached requests
  and no two frames on any connections have the same id, ids come from the
  counter, and a request that was sent and not answered is in the cache with
  the room it was made for.

### Rendezvous (`RendezvousProofs`)

`Base` holds for every client and every failure: types, unique cookies, and no
pointer to what malloc() has not handed out yet. It gives

- `TypeCorrect` and `OneCookieEach` (`UniqueCookies`).

The others need a client with better habits.

- `InternalIsOwned` (`InternalOwned`): the client does not keep a listener that
  was connected to; then the failures and all other habits may be any. `Owned` says
  that an `->internal` lives, belongs to one connection and to no cookie and no
  `->priv`; `Moved` that a listener is without one only during its accept callback,
  which is why no second accept meets NULL.
- `NothingBad` (`NoBadAccess`): the client uses no `->priv`, hence no chat, and
  keeps no listener, but may give listeners up; any failures; both kinds of
  connection. `SafeInv` adds that no two cookies share their data and that it lives
  (`DataOwned`): killing a connection frees `->internal` and at most one cookie's
  data, and none of it is reachable afterwards.
- `CookiesAreRemoved` (`CookiesRemoved`): direct IMs only, nothing fails, no
  listener is given up or kept; chats and data in `->priv` are allowed. `RemovedInv`
  adds that connections other than chats are direct IMs (`AllDirect`) and that
  reading callbacks are about connections to peers (`Reading`). Closing uncaches
  for connections to peers only: a listener that is given up, or closed after a
  failure, leaves its cookie behind, and so does `aim_directim_initiate` when it
  gets no connection; TLC shows each. A kept listener breaks nothing in TLC's runs
  (the model stops at the access through NULL), but is not covered by the proof,
  which rests on `Owned`.
- `NoLeaks` (`NothingLeaks`): no failure, no listener given up, no chat; a client
  that keeps data in `->priv` or keeps a listener loses nothing. With either kind of
  failure, with chats, or with listeners given up TLC finds a leak. `LeakInv` is
  about the roots only: without chats no object is reached through another one.

The hypotheses are those of the run `rend_directim` and more: it has none of the
habits.

### Byte streams and chains (`TlvProofs`)

- `WrittenIsRead`: when a stream has the room `aim_sizetlvchain` asks for, whatever was
  put before, `aim_readtlvchain`, started where `aim_writetlvchain` started, yields the
  whole chain in reverse. What was written ends the stream, as it does
  where the library reads a chain to the end of a frame. `TurnReads` says it of one turn
  of the loop, at the i-th TLV; `WrittenTurns` puts the turns together, `AfterAll` is the
  end of the loop, and `SameTurns` says that there is one sequence of turns only, so
  that `aim_readtlvchain`, which is defined by it, has the value found.

The lemmas are about one operation each: a get moves by the whole field or not at
all and never past the end (`Advances`, `GetField`, `GetRaw`), a put is appended
whole or dropped and never exceeds the room (`PutIs`), numbers of 16 bits come back
as they were put (`Get16Put16`), the size of a chain is the sum over its TLVs
(`SizesAre`, `SizesGrow`), and `WrittenChain` says which byte of a TLV stands
where. The library's induction theorems cannot be used: `NatMin` (the least
member of a set of naturals) gives `Recursion`, that a function defined step by step
along 0..n is what its steps say, and from it come the sizes and the chains.

### Framing (`WireProofs`)

- `TypeCorrect`: `Spec => []TypeOK`.
- `FramesWhole`: `Spec => []WholeFrames` if `Sound`: send() fails only when the
  connection is gone, `Room` and `MaxFrames` fit the 16 bits of the length and the
  sequence number, behind a chain there are no bytes or two, and, if malloc() may
  fail, no payload starts with the byte that starts a header. The run `wire` is such
  an instance. The limit of `MaxFrames` is one of the property, which identifies a
  frame by its number; for tails that are neither, what is read need not end
  (section 3).

`WholeFrames` is far from inductive. What is to come (the receiver's buffer, the
bytes in flight and those not yet sent, `Coming`) is, on a connection that is up,
all that was sent (`All(sent)`) from some place on, and a piece of it from there on
after a reset. `Tracks` says from which: from the start of a frame (`Between`), or
from the start of the payload whose header was read (`InFrame`), where the chain
read so far is that of the TLVs before `rx.pos` (`Parsing`); or the receiver lost its
place for want of memory and what comes next is no header, so that it will close
(`Stranded`); or it has closed (`Closed`). Pieces of any size leave the place where
it was, which is why it does not matter how send() and recv() cut the stream.
`Ordered` adds that frames are parsed in order.

### Requests (`RequestsProofs`)

- `TypeCorrect`: `Spec => []TypeOK`, what is kept under an id is what the request
  with that id kept. `IInv` adds that a frame was made with the id of its request.
- `RightData`: `Spec => []Attributed`, for fewer requests than 32 bits count. The
  argument has three parts. Every frame starts with its header, whatever was put
  behind it or did not fit (`FrameStarts`), so the fourth number that the server
  reads is the id, or 0 if the function does not pass it on (`SnacOfFrame`). What is
  found under the id of an answer is then what the answered request kept (`IdOf`).
  Every handler gives its callback that data or none (`HandlerBound`), and so do
  two in a row (`CallsBound`).
- `OneCallbackEach`: `Spec => []Answered`, if moreover no callback returns 0 and the
  server's answers contain what their handlers look for (`AnswersFit`: the
  information that was asked for is of one of the three kinds `userinfo` knows; a
  chat navigation answer is one to a request for rights or for a room, with the room
  in full detail). Handlers drop other answers without a word
  (`info.c`, `chatnav.c`), by their code. `AnswersFit` holds in the run `requests`.

The callers, the room of every frame, all answers and their bytes are parameters:
these theorems do not rest on the tables of `MCRequests`.

### Only model-checked

- `FramesLeave`, `DeadReaped`, `SetUpEnds`, `ReadsEnd` and `FramesArrive`:
  liveness under fairness is beyond the prover.
- `Decoded` and `Understood` of `Requests`, and `SenderKnown`, `Delivered` and
  `UserinfoTold` of `Icbm`: they say that the bytes of some thirty formats, read
  at the other end, mean what was put. There is no law behind them but the formats
  themselves, each with the values in the tables of `MCRequests` and `MCIcbm`;
  and operators that fold or recur over user blocks, sections and lists would each
  need an induction of its own.
- `TypeOK` and `CookiesForgotten` of `Icbm`: the second rests on the same reading
  (a message that comes back carries its cookie and TLV 6).

## 6. Not modelled

- OFT frames (`sendframe_oft`, the headers in `ft.c`) and file listing and
  transfer, whose code is compiled out;
- `aim_sendmemblock` and the passwords of `auth.c`, which hash; MD5 itself;
- `aim_clientready`'s table of versions;
- `aim_puttlv_*` and `aim_strsep`, which nothing in the library calls;
- bodies that end within a block (a truncated user block, capability or list
  item): the code reads zeros or what lies behind, and no document says what a
  callback is to be given then;
- memory of what handlers allocate; `parsedata` never frees the names of the
  items it built (`ssi.c:118-125`);
- re-entrance of `aim_rxdispatch` from a callback (`rxqueue.c:474`) and a second
  rate response on a connection (`service.c:297`), which nothing in the
  repository does or asks for;
- the registration of modules and handlers, which happens before there is traffic;
  the families without handlers; the tools.

## 7. What could come next

- `CookiesForgotten` of `Icbm`: `FrameStarts` and `WrittenIsRead` give the cookie and
  TLV 6 of the frame of a chat message as it was sent; what is missing is what the
  server makes of it.
- `TurnReads`, for user blocks, is where a proof of `SenderKnown` would start.
- The OFT headers of `ft.c`, once the code that uses them is compiled in again.
