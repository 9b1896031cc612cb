----------------------------- MODULE RxDispatch -----------------------------
(***************************************************************************)
(* The receive side of a libfaim session: aim_get_command appends one      *)
(* frame per call to sess->queue_incoming (src/src/rxqueue.c), and         *)
(* aim_rxdispatch walks that list and hands each frame to the modules,     *)
(* which call the client back (src/src/rxhandlers.c).                      *)
(*                                                                         *)
(* The dispatch loop holds bare pointers, to the frame and through it to   *)
(* the connection, across every callback, and a callback is free to read   *)
(* more frames, to open connections and to kill any of them, the one its   *)
(* own frame came in on included.  badref records that the loop followed a *)
(* frame's pointer to a connection that had been freed in the meantime.    *)
(*                                                                         *)
(* A frame is abstracted to its FLAP channel and to the number of client   *)
(* callbacks its handlers have: for a SNAC these are the module of its     *)
(* family and the catch-all module of misc.c, tried in turn until one of   *)
(* them returns nonzero; a SNAC without a header or of a family nobody     *)
(* hooks has none.  Two handlers of a family (missedcall, infochange) call *)
(* back once for each of the several entries of their SNAC and look the    *)
(* callback up anew each time, and some take the SNAC whatever the         *)
(* callback returns.                                                       *)
(***************************************************************************)
EXTENDS Integers, Sequences, FiniteSets

CONSTANTS
    Conns,        \* addresses that malloc() hands out for aim_conn_t
    Returns,      \* what callbacks return while their connection lives
    KillReturns,  \* what a callback returns that killed its own connection
    EntryKills,   \* whether a callback made for one of several entries may kill it
    MaxFrames,    \* bound: frames received
    MaxGen,       \* bound: allocations of one address
    MaxLog        \* bound: dispatches once so many frames were handed out

ASSUME ReturnsAssumption == Returns \subseteq {0, 1} /\ KillReturns \subseteq {0, 1}
ASSUME EntryKillsAssumption == EntryKills \in BOOLEAN
ASSUME BoundsAssumption == MaxFrames \in Nat /\ MaxGen \in Nat /\ MaxLog \in Nat

VARIABLES
    connlist,        \* the connections of sess->connlist
    open,            \* open[c]: conn->fd # -1
    gen,             \* gen[c]: how often the address c was allocated
    queue_incoming,  \* sess->queue_incoming: frames, in the order of their id
    dispatching,     \* inside aim_rxdispatch
    cursor,          \* id of the frame the loop is at, or has passed last
    stage,           \* which handler of that frame has called the client back
    left,            \* callbacks of the frame's modules not tried yet
    arrived,         \* arrived[i]: owner and channel of the i-th frame received
    log,             \* ids of the frames handed to a handler, oldest first
    badref           \* the loop dereferenced a freed connection

vars == <<connlist, open, gen, queue_incoming, dispatching, cursor, stage, left,
          arrived, log, badref>>

connVars == <<connlist, open, gen>>
loopVars == <<dispatching, cursor, stage, left, log, badref>>

Chans == {1, 2, 4, 5}   \* new connection, SNAC, close, keepalive
MaxCallbacks == 2       \* the family's module and the catch-all

Stages == {"none", "flapver", "snac", "entry", "negchan", "lastchance"}

Frames == [conn : Conns, gen : Nat, id : Nat, chan : Chans, callbacks : 0..MaxCallbacks,
           several : BOOLEAN, takes : BOOLEAN, handled : BOOLEAN]

\* What a frame is to its handlers: those of the family of a SNAC may call back for
\* several entries, and may take it whatever happens, before the catch-all is tried.
Kinds ==
    {k \in [chan : Chans, callbacks : 0..MaxCallbacks, several : BOOLEAN, takes : BOOLEAN] :
        /\ k.chan # 2 => k.callbacks <= 1 /\ ~k.several /\ ~k.takes
        /\ k.several => k.callbacks > 0
        /\ k.takes => k.callbacks <= 1}

-----------------------------------------------------------------------------
Init ==
    /\ connlist = {}
    /\ open = [c \in Conns |-> FALSE]
    /\ gen = [c \in Conns |-> 0]
    /\ queue_incoming = {}
    /\ dispatching = FALSE
    /\ cursor = 0
    /\ stage = "none"
    /\ left = 0
    /\ arrived = <<>>
    /\ log = <<>>
    /\ badref = FALSE

\* The client has control: in its main loop or in a callback.
ClientRuns == ~dispatching \/ stage # "none"

-----------------------------------------------------------------------------
(* What the client calls *)

aim_newconn(c) ==
    /\ ClientRuns
    /\ c \notin connlist
    /\ gen[c] < MaxGen
    /\ connlist' = connlist \cup {c}
    /\ open' = [open EXCEPT ![c] = TRUE]
    /\ gen' = [gen EXCEPT ![c] = @ + 1]
    /\ UNCHANGED <<queue_incoming, loopVars, arrived>>

aim_conn_close(c) ==
    /\ ClientRuns
    /\ c \in connlist
    /\ open[c]
    /\ open' = [open EXCEPT ![c] = FALSE]
    /\ UNCHANGED <<connlist, gen, queue_incoming, loopVars, arrived>>

\* Set the handled flag of the frames that satisfy P.
Handled(q, P(_)) == {IF P(f) THEN [f EXCEPT !.handled = TRUE] ELSE f : f \in q}

\* Mutants: frames of the dying connection stay in line, or those of all go.
cleanbyconn_Forgotten(q, c) == q

cleanbyconn_All(q, c) ==
    LET Pending(f) == ~f.handled
    IN  Handled(q, Pending)

aim_rxqueue_cleanbyconn(q, c) ==
    LET Pending(f) == ~f.handled /\ f.conn = c
    IN  Handled(q, Pending)

\* The callback made for an entry of a frame of c is running.
AtEntryOf(c) == stage = "entry" /\ \E f \in queue_incoming : f.id = cursor /\ f.conn = c

aim_conn_kill(c) ==
    /\ ClientRuns
    /\ c \in connlist
    /\ AtEntryOf(c) => EntryKills
    /\ connlist' = connlist \ {c}
    /\ open' = [open EXCEPT ![c] = FALSE]
    /\ queue_incoming' = aim_rxqueue_cleanbyconn(queue_incoming, c)
    /\ UNCHANGED <<gen, loopVars, arrived>>

\* One whole frame could be read: it goes to the bottom of the list.
aim_get_command(c) ==
    /\ ClientRuns
    /\ c \in connlist
    /\ open[c]
    /\ Len(arrived) < MaxFrames
    /\ \E k \in Kinds :
          /\ queue_incoming' = queue_incoming \cup
                {[conn |-> c, gen |-> gen[c], id |-> Len(arrived) + 1,
                  chan |-> k.chan, callbacks |-> k.callbacks,
                  several |-> k.several, takes |-> k.takes, handled |-> FALSE]}
          /\ arrived' = Append(arrived, [conn |-> c, gen |-> gen[c], chan |-> k.chan])
    /\ UNCHANGED <<connVars, loopVars>>

\* A short read, a lost peer or a broken FLAP header: closed, nothing queued.
GetCommandFails(c) ==
    /\ ClientRuns
    /\ c \in connlist
    /\ open[c]
    /\ open' = [open EXCEPT ![c] = FALSE]
    /\ UNCHANGED <<connlist, gen, queue_incoming, loopVars, arrived>>

-----------------------------------------------------------------------------
(* aim_rxdispatch *)

aim_rxdispatch ==
    /\ ~dispatching
    /\ Len(log) < MaxLog \/ \A f \in queue_incoming : f.handled
    /\ dispatching' = TRUE
    /\ cursor' = 0
    /\ UNCHANGED <<connVars, queue_incoming, stage, left, arrived, log, badref>>

AtLoopHead == dispatching /\ stage = "none"

IsNext(f) ==
    /\ f.id > cursor
    /\ \A g \in queue_incoming : g.id > cursor => f.id <= g.id

\* f->conn no longer is the connection the frame was received on.
Dangling(f) == f.conn \notin connlist \/ f.gen # gen[f.conn]

\* The loop follows f->conn.
Deref(f) == badref' = (badref \/ Dangling(f))

DispatchSkip(f) ==
    /\ AtLoopHead
    /\ IsNext(f)
    /\ f.handled
    /\ cursor' = f.id
    /\ UNCHANGED <<connVars, queue_incoming, dispatching, stage, left, arrived, log, badref>>

\* The handler that takes f first, by channel.  "none" is a channel 1 or 4 frame for
\* which the client has no callback, or a SNAC whose handler takes it without one: it
\* counts as handled.  "entry" is the first of the callbacks for several entries.
FirstStage(f) ==
    CASE f.chan = 1 /\ f.callbacks > 0 -> "flapver"
      [] f.chan = 4 /\ f.callbacks > 0 -> "negchan"
      [] f.chan = 2 /\ f.callbacks > 0 -> IF f.several THEN "entry" ELSE "snac"
      [] f.chan \in {1, 4} /\ f.callbacks = 0 -> "none"
      [] f.chan = 2 /\ f.callbacks = 0 /\ f.takes -> "none"
      [] OTHER -> "lastchance"

Replace(f, v) == (queue_incoming \ {f}) \cup {[f EXCEPT !.handled = v]}

DispatchFrame(f) ==
    /\ AtLoopHead
    /\ IsNext(f)
    /\ ~f.handled
    /\ Deref(f)
    /\ cursor' = f.id
    /\ log' = Append(log, f.id)
    /\ stage' = FirstStage(f)
    /\ left' = IF FirstStage(f) \in {"snac", "entry"} THEN f.callbacks - 1 ELSE 0
    /\ queue_incoming' =
          IF FirstStage(f) = "none" THEN Replace(f, TRUE) ELSE queue_incoming
    /\ UNCHANGED <<connVars, dispatching, arrived>>

\* f is the frame whose callback is running, and the callback may return r.
Returning(f, r) ==
    /\ dispatching
    /\ f.id = cursor
    /\ r \in IF f.handled THEN KillReturns ELSE Returns

\* cur->handled = <the callback's return value>, for channels 1 and 4.
PlainReturns(f, r) ==
    /\ stage \in {"flapver", "negchan"}
    /\ Returning(f, r)
    /\ queue_incoming' = Replace(f, r = 1)
    /\ stage' = "none"
    /\ UNCHANGED <<connVars, dispatching, cursor, left, arrived, log, badref>>

\* A module's callback is running.
InModule == stage \in {"snac", "entry"}

\* missedcall, infochange: whatever the callback returned, the loop goes on to the next
\* entry and looks the callback up again.
NextEntry(f) ==
    /\ stage = "entry"
    /\ dispatching
    /\ f.id = cursor
    /\ Deref(f)
    /\ UNCHANGED <<connVars, queue_incoming, dispatching, cursor, stage, left, arrived, log>>

\* consumesnac: the module took the SNAC, as its last callback did or on its own.
SnacTaken(f, r) ==
    /\ InModule
    /\ Returning(f, r)
    /\ r = 1 \/ f.takes
    /\ queue_incoming' = Replace(f, TRUE)
    /\ stage' = "none"
    /\ left' = 0
    /\ UNCHANGED <<connVars, dispatching, cursor, arrived, log, badref>>

\* Mutant: one module too many is tried.
SnacNextModule_TooFar(f, r) ==
    /\ InModule
    /\ Returning(f, r)
    /\ r = 0 /\ ~f.takes
    /\ Deref(f)
    /\ left' = left - 1
    /\ stage' = "snac"
    /\ UNCHANGED <<connVars, queue_incoming, dispatching, cursor, arrived, log>>

\* consumesnac: it did not; the next module looks up its callback.
SnacNextModule(f, r) ==
    /\ InModule
    /\ Returning(f, r)
    /\ r = 0 /\ ~f.takes
    /\ left > 0
    /\ Deref(f)
    /\ left' = left - 1
    /\ stage' = "snac"
    /\ UNCHANGED <<connVars, queue_incoming, dispatching, cursor, arrived, log>>

\* No module took it: cur->handled = 0, and the last chance looks up its callback.
SnacLastChance(f, r) ==
    /\ InModule
    /\ Returning(f, r)
    /\ r = 0 /\ ~f.takes
    /\ left = 0
    /\ Deref(f)
    /\ queue_incoming' = Replace(f, FALSE)
    /\ stage' = "lastchance"
    /\ UNCHANGED <<connVars, dispatching, cursor, left, arrived, log>>

\* Mutant: the last chance does not mark the frame either.
LastChanceReturns_Unmarked(f) ==
    /\ stage = "lastchance"
    /\ dispatching
    /\ f.id = cursor
    /\ stage' = "none"
    /\ UNCHANGED <<connVars, queue_incoming, dispatching, cursor, left, arrived, log, badref>>

\* Whatever the last chance returned, the frame is done.
LastChanceReturns(f) ==
    /\ stage = "lastchance"
    /\ dispatching
    /\ f.id = cursor
    /\ queue_incoming' = Replace(f, TRUE)
    /\ stage' = "none"
    /\ UNCHANGED <<connVars, dispatching, cursor, left, arrived, log, badref>>

aim_purge_rxqueue(q) == {f \in q : ~f.handled}

DispatchEnd ==
    /\ AtLoopHead
    /\ \A f \in queue_incoming : f.id <= cursor
    /\ queue_incoming' = aim_purge_rxqueue(queue_incoming)
    /\ dispatching' = FALSE
    /\ cursor' = 0
    /\ UNCHANGED <<connVars, stage, left, arrived, log, badref>>

-----------------------------------------------------------------------------
ClientNext ==
    \E c \in Conns :
        \/ aim_newconn(c)
        \/ aim_conn_close(c)
        \/ aim_conn_kill(c)
        \/ aim_get_command(c)
        \/ GetCommandFails(c)

DispatchNext ==
    \/ aim_rxdispatch
    \/ \E f \in queue_incoming :
          \/ DispatchSkip(f)
          \/ DispatchFrame(f)
          \/ NextEntry(f)
          \/ LastChanceReturns(f)
          \/ \E r \in {0, 1} :
                \/ PlainReturns(f, r)
                \/ SnacTaken(f, r)
                \/ SnacNextModule(f, r)
                \/ SnacLastChance(f, r)
    \/ DispatchEnd

Next == ClientNext \/ DispatchNext

Spec == Init /\ [][Next]_vars

-----------------------------------------------------------------------------
(* Properties *)

\* Every variable has its type.
TypeOK ==
    /\ connlist \subseteq Conns
    /\ open \in [Conns -> BOOLEAN]
    /\ gen \in [Conns -> Nat]
    /\ queue_incoming \subseteq Frames
    /\ dispatching \in BOOLEAN
    /\ cursor \in Nat
    /\ stage \in Stages
    /\ left \in 0..MaxCallbacks
    /\ arrived \in Seq([conn : Conns, gen : Nat, chan : Chans])
    /\ log \in Seq(Nat)
    /\ badref \in BOOLEAN

\* aim_rxdispatch and the modules never follow a frame's pointer to a connection that
\* a callback has freed, be it this frame's callback or an earlier one's: what
\* aim_rxqueue_cleanbyconn is for (rxqueue.c:493-509).  It takes two rules that
\* callbacks keep: one that kills its own connection returns nonzero (0 is not in
\* KillReturns), and one made for an entry of several does not kill it at all
\* (EntryKills is FALSE), since missedcall and infochange follow rx->conn once more
\* for the next entry whatever it returned (im.c:1740, admin.c:40).
NoDanglingDispatch == ~badref

\* A frame received on a connection that still exists is waiting or has been
\* handed to a handler: neither a purge, nor a kill of another connection, nor
\* a frame read in the middle of a dispatch loses it.
NoFrameLost ==
    \A i \in 1..Len(arrived) :
        \/ arrived[i].conn \notin connlist
        \/ arrived[i].gen # gen[arrived[i].conn]
        \/ \E f \in queue_incoming : f.id = i
        \/ \E k \in 1..Len(log) : log[k] = i

\* SNACs reach their handlers in the order they were received, over all connections,
\* and none of them twice, whatever their callbacks return: what aim_rxdispatch's
\* comment intends by marking a packet handled before it is sent to its handler
\* (rxhandlers.c:507-511).
SnacsOnceInOrder ==
    \A j, k \in 1..Len(log) :
        j < k /\ arrived[log[j]].chan = 2 /\ arrived[log[k]].chan = 2
            => log[j] < log[k]
=============================================================================
