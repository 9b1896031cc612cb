------------------------------ MODULE TxQueue ------------------------------
(***************************************************************************)
(* The transmit side of a libfaim session: the connection list as far as   *)
(* sending needs it (src/src/conn.c) and the outgoing frame queue          *)
(* (src/src/txqueue.c).                                                    *)
(*                                                                         *)
(* The library is single threaded.  What interleaves is the client's calls *)
(* (made from its main loop, or from inside the CONNCOMPLETE callback that *)
(* aim_conn_completeconnect makes) with the outcomes of the socket calls.  *)
(* A flush makes one socket call per frame, so it is a sequence of steps   *)
(* during which the client does not run.                                   *)
(*                                                                         *)
(* A connection is its address: free() makes the address available to the  *)
(* next aim_conn_getnext, and frames keep the bare pointer.  gen counts    *)
(* the allocations of an address, so that a frame left over from an        *)
(* earlier owner of the address can be told from a frame of this one.      *)
(***************************************************************************)
EXTENDS Integers, Sequences, FiniteSets

CONSTANTS
    Conns,        \* addresses that malloc() hands out for aim_conn_t
    SeqnumMod,    \* flap_seqnum_t has SeqnumMod values (2^16 in the code)
    Modes,        \* the transmit modes this client selects
    SwitchesBusy, \* does the client change the mode while frames are queued?
    NonBlocking,  \* AIM_SESS_FLAGS_NONBLOCKCONNECT
    MallocFails,  \* may sendframe_flap's malloc() fail?
    Interrupts,   \* may send() fail on a healthy socket (EINTR) before any byte?
    MaxFrames,    \* bound: frames handed to aim_tx_enqueue
    MaxGen        \* bound: allocations of one address

ASSUME SeqnumModAssumption == SeqnumMod \in Nat \ {0}
ASSUME ModesAssumption == Modes \subseteq {"queued", "immediate"}
ASSUME FlagsAssumption ==
    /\ SwitchesBusy \in BOOLEAN
    /\ NonBlocking \in BOOLEAN
    /\ MallocFails \in BOOLEAN
    /\ Interrupts \in BOOLEAN
ASSUME BoundsAssumption == MaxFrames \in Nat /\ MaxGen \in Nat

VARIABLES
    connlist,        \* the connections of sess->connlist
    sock,            \* sock[c]: conn->fd and the socket behind it
    inprogress,      \* inprogress[c]: AIM_CONN_STATUS_INPROGRESS in conn->status
    seqnum,          \* seqnum[c]: conn->seqnum
    tx_enqueue,      \* sess->tx_enqueue
    queue_outgoing,  \* sess->queue_outgoing: frames, in the order of their id
    caller,          \* who runs between library calls: main loop or callback
    flushing,        \* inside the loop of aim_tx_flushqueue
    cursor,          \* id of the last frame the loop has passed
    gen,             \* gen[c]: how often the address c was allocated
    count,           \* count[c]: frames handed over for c since its allocation
    handed,          \* frames handed to aim_tx_enqueue so far
    wire             \* wire[c]: what c's socket has accepted, oldest first

vars == <<connlist, sock, inprogress, seqnum, tx_enqueue, queue_outgoing,
          caller, flushing, cursor, gen, count, handed, wire>>

connVars == <<connlist, sock, inprogress, gen>>
seqVars  == <<seqnum, count, handed>>
loopVars == <<caller, flushing, cursor>>

\* "none" is fd == -1; "reset" is a socket whose peer is gone: every send fails.
SockStates == {"none", "connecting", "up", "reset"}

\* gen, id and n are not in the code: whose frame this is, its place among all
\* frames handed over, and its place among those of its connection.
Frames == [conn : Conns, gen : Nat, id : Nat, n : Nat,
           seqnum : 0..(SeqnumMod - 1), handled : BOOLEAN]

Packets == [id : Nat, gen : Nat, seqnum : 0..(SeqnumMod - 1)]

-----------------------------------------------------------------------------
(* aim_session_init *)
Init ==
    /\ connlist = {}
    /\ sock = [c \in Conns |-> "none"]
    /\ inprogress = [c \in Conns |-> FALSE]
    /\ seqnum = [c \in Conns |-> 0]
    /\ tx_enqueue = "queued"
    /\ queue_outgoing = {}
    /\ caller = "main"
    /\ flushing = FALSE
    /\ cursor = 0
    /\ gen = [c \in Conns |-> 0]
    /\ count = [c \in Conns |-> 0]
    /\ handed = 0
    /\ wire = [c \in Conns |-> <<>>]

\* The client has control: it is not inside a flush.
ClientRuns == ~flushing

-----------------------------------------------------------------------------
(* Connections *)

\* aim_proxyconnect: no descriptor, a connected socket, or one that is connecting.
ConnectOutcomes == {"none", "up"} \cup (IF NonBlocking THEN {"connecting"} ELSE {})

\* aim_newconn: a fresh structure, zeroed, and the outcome of aim_proxyconnect.
\* A failed connect leaves the structure in the list with fd == -1.
aim_newconn(c) ==
    /\ ClientRuns
    /\ c \notin connlist
    /\ gen[c] < MaxGen
    /\ connlist' = connlist \cup {c}
    /\ gen' = [gen EXCEPT ![c] = @ + 1]
    /\ seqnum' = [seqnum EXCEPT ![c] = 0]
    /\ count' = [count EXCEPT ![c] = 0]
    /\ wire' = [wire EXCEPT ![c] = <<>>]
    /\ \E s \in ConnectOutcomes :
          /\ sock' = [sock EXCEPT ![c] = s]
          /\ inprogress' = [inprogress EXCEPT ![c] = (s = "connecting")]
    /\ UNCHANGED <<tx_enqueue, queue_outgoing, loopVars, handed>>

\* aim_conn_close: the descriptor goes, status and queued frames stay.
aim_conn_close(c) ==
    /\ ClientRuns
    /\ c \in connlist
    /\ sock[c] # "none"
    /\ sock' = [sock EXCEPT ![c] = "none"]
    /\ UNCHANGED <<connlist, inprogress, gen, seqVars, tx_enqueue, queue_outgoing,
                   loopVars, wire>>

\* Mutant: the frames of the dying connection stay in line.
cleanqueue_Forgotten(q, c) == q

\* aim_tx_cleanqueue: every frame with this pointer counts as sent.
aim_tx_cleanqueue(q, c) ==
    {IF f.conn = c THEN [f EXCEPT !.handled = TRUE] ELSE f : f \in q}

\* aim_conn_kill: unlink, clean the queue, close, free.
aim_conn_kill(c) ==
    /\ ClientRuns
    /\ c \in connlist
    /\ connlist' = connlist \ {c}
    /\ queue_outgoing' = aim_tx_cleanqueue(queue_outgoing, c)
    /\ sock' = [sock EXCEPT ![c] = "none"]
    /\ inprogress' = [inprogress EXCEPT ![c] = FALSE]
    /\ UNCHANGED <<gen, seqVars, tx_enqueue, loopVars, wire>>

-----------------------------------------------------------------------------
(* Sending *)

\* Any time, or only while the queue is empty if the client is that careful.
aim_tx_setenqueue(m) ==
    /\ ClientRuns
    /\ m \in Modes
    /\ SwitchesBusy \/ queue_outgoing = {}
    /\ tx_enqueue' = m
    /\ UNCHANGED <<connVars, seqVars, queue_outgoing, loopVars, wire>>

\* What sendframe_flap can come to for a frame of c.  "nomem" returns before
\* the frame is touched; "failed" and "sent" both set fr->handled.
Outcomes(c) ==
    (IF sock[c] = "up" THEN {"sent"} ELSE {"failed"})
        \cup (IF Interrupts THEN {"failed"} ELSE {})
        \cup (IF MallocFails THEN {"nomem"} ELSE {})

Packet(f) == [id |-> f.id, gen |-> f.gen, seqnum |-> f.seqnum]

\* The bytes that outcome o of sending f puts on the socket.
Transmit(f, o) ==
    wire' = IF o = "sent" THEN [wire EXCEPT ![f.conn] = Append(@, Packet(f))]
                          ELSE wire

\* Mutant: the counter never wraps.
get_next_txseqnum_Wide(c) == seqnum[c] + 1

aim_get_next_txseqnum(c) == (seqnum[c] + 1) % SeqnumMod

\* aim_tx_new and the stamping both enqueue functions do.
NewFrame(c) ==
    [conn |-> c, gen |-> gen[c], id |-> handed + 1, n |-> count[c] + 1,
     seqnum |-> aim_get_next_txseqnum(c), handled |-> FALSE]

\* Common to both: the client hands over one more frame for c.
HandOver(c) ==
    /\ ClientRuns
    /\ c \in connlist
    /\ handed < MaxFrames
    /\ handed' = handed + 1
    /\ count' = [count EXCEPT ![c] = @ + 1]
    /\ seqnum' = [seqnum EXCEPT ![c] = aim_get_next_txseqnum(c)]

\* aim_tx_enqueue's choice: a connecting connection is always queued.
Queues(c) == inprogress[c] \/ tx_enqueue = "queued"

aim_tx_enqueue__queuebased(c) ==
    /\ Queues(c)
    /\ HandOver(c)
    /\ queue_outgoing' = queue_outgoing \cup {NewFrame(c)}
    /\ UNCHANGED <<connVars, tx_enqueue, loopVars, wire>>

\* The frame is destroyed whatever aim_tx_sendframe returned.
aim_tx_enqueue__immediate(c) ==
    /\ ~Queues(c)
    /\ HandOver(c)
    /\ \E o \in Outcomes(c) : Transmit(NewFrame(c), o)
    /\ UNCHANGED <<connVars, tx_enqueue, queue_outgoing, loopVars>>

-----------------------------------------------------------------------------
(* aim_tx_flushqueue: one step per frame of the list, in list order. *)

aim_tx_flushqueue ==
    /\ ClientRuns
    /\ flushing' = TRUE
    /\ cursor' = 0
    /\ UNCHANGED <<connVars, seqVars, tx_enqueue, queue_outgoing, caller, wire>>

\* f is the frame the loop variable cur points to next.
IsNext(f) ==
    /\ f.id > cursor
    /\ \A g \in queue_outgoing : g.id > cursor => f.id <= g.id

\* Mutants: the loop does not look at AIM_CONN_STATUS_INPROGRESS, or at handled.
Skipped_Eager(f) == f.handled

Skipped_Resend(f) == inprogress[f.conn]

\* Frames the loop passes over: already sent, or their connection connects.
Skipped(f) == f.handled \/ inprogress[f.conn]

FlushSkip(f) ==
    /\ flushing
    /\ IsNext(f)
    /\ Skipped(f)
    /\ cursor' = f.id
    /\ UNCHANGED <<connVars, seqVars, tx_enqueue, queue_outgoing, caller, flushing, wire>>

FlushSend(f) ==
    /\ flushing
    /\ IsNext(f)
    /\ ~Skipped(f)
    /\ cursor' = f.id
    /\ \E o \in Outcomes(f.conn) :
          /\ Transmit(f, o)
          /\ queue_outgoing' =
                IF o = "nomem" THEN queue_outgoing
                ELSE (queue_outgoing \ {f}) \cup {[f EXCEPT !.handled = TRUE]}
    /\ UNCHANGED <<connVars, seqVars, tx_enqueue, caller, flushing>>

\* aim_tx_purgequeue: sent frames leave the list and are freed.
aim_tx_purgequeue(q) == {f \in q : ~f.handled}

FlushEnd ==
    /\ flushing
    /\ \A f \in queue_outgoing : f.id <= cursor
    /\ queue_outgoing' = aim_tx_purgequeue(queue_outgoing)
    /\ flushing' = FALSE
    /\ cursor' = 0
    /\ UNCHANGED <<connVars, seqVars, tx_enqueue, caller, wire>>

-----------------------------------------------------------------------------
(* aim_conn_completeconnect: the bit is cleared, the CONNCOMPLETE callback *)
(* runs with control back in the client, and then the queue is flushed.    *)

CompleteConnect(c) ==
    /\ ClientRuns
    /\ caller = "main"
    /\ c \in connlist
    /\ inprogress[c]
    /\ sock[c] = "connecting"
    /\ sock' = [sock EXCEPT ![c] = "up"]
    /\ inprogress' = [inprogress EXCEPT ![c] = FALSE]
    /\ caller' = "callback"
    /\ UNCHANGED <<connlist, gen, seqVars, tx_enqueue, queue_outgoing, flushing,
                   cursor, wire>>

CallbackReturns ==
    /\ ClientRuns
    /\ caller = "callback"
    /\ caller' = "main"
    /\ flushing' = TRUE
    /\ cursor' = 0
    /\ UNCHANGED <<connVars, seqVars, tx_enqueue, queue_outgoing, wire>>

\* The connect failed: the connection is closed but keeps its INPROGRESS bit.
FailConnect(c) ==
    /\ ClientRuns
    /\ caller = "main"
    /\ c \in connlist
    /\ inprogress[c]
    /\ sock[c] = "connecting"
    /\ sock' = [sock EXCEPT ![c] = "none"]
    /\ UNCHANGED <<connlist, inprogress, gen, seqVars, tx_enqueue, queue_outgoing,
                   loopVars, wire>>

\* The network: the peer of an established connection goes away.
PeerReset(c) ==
    /\ sock[c] = "up"
    /\ sock' = [sock EXCEPT ![c] = "reset"]
    /\ UNCHANGED <<connlist, inprogress, gen, seqVars, tx_enqueue, queue_outgoing,
                   loopVars, wire>>

-----------------------------------------------------------------------------
ConnNext ==
    \E c \in Conns :
        \/ aim_newconn(c)
        \/ aim_conn_close(c)
        \/ aim_conn_kill(c)
        \/ CompleteConnect(c)
        \/ FailConnect(c)
        \/ PeerReset(c)

SendNext ==
    \/ \E m \in Modes : aim_tx_setenqueue(m)
    \/ \E c \in Conns : aim_tx_enqueue__queuebased(c) \/ aim_tx_enqueue__immediate(c)

FlushNext ==
    \/ aim_tx_flushqueue
    \/ \E f \in queue_outgoing : FlushSkip(f) \/ FlushSend(f)
    \/ FlushEnd

Next == ConnNext \/ SendNext \/ FlushNext \/ CallbackReturns

Spec == Init /\ [][Next]_vars

-----------------------------------------------------------------------------
(* Properties *)

\* Every variable has its type.
TypeOK ==
    /\ connlist \subseteq Conns
    /\ sock \in [Conns -> SockStates]
    /\ inprogress \in [Conns -> BOOLEAN]
    /\ seqnum \in [Conns -> 0..(SeqnumMod - 1)]
    /\ tx_enqueue \in {"queued", "immediate"}
    /\ queue_outgoing \subseteq Frames
    /\ caller \in {"main", "callback"}
    /\ flushing \in BOOLEAN
    /\ cursor \in Nat
    /\ gen \in [Conns -> Nat]
    /\ count \in [Conns -> Nat]
    /\ handed \in Nat
    /\ wire \in [Conns -> Seq(Packets)]

\* No frame the flush loop may still dereference points to a connection that
\* was freed, even if its address has been handed out again since: what
\* aim_conn_kill's call of aim_tx_cleanqueue is for (txqueue.c:415-434).
NoDanglingFrame ==
    \A f \in queue_outgoing :
        ~f.handled => f.conn \in connlist /\ f.gen = gen[f.conn]

\* A connection carries only frames handed over for it, in the order they were
\* handed over and none twice, whatever mixture of callbacks, flushes, kills
\* and resets sent them.
SentInOrder ==
    \A c \in Conns : \A i, j \in 1..Len(wire[c]) :
        /\ wire[c][i].gen = gen[c]
        /\ i < j => wire[c][i].id < wire[c][j].id

\* The i-th packet a FLAP connection puts on its socket is stamped i (modulo
\* the counter's width): no stamp is skipped, repeated or out of turn.  This is
\* what aim_get_next_txseqnum promises ("the seqnum that should be stamped on
\* the next FLAP packet sent") although stamping happens at enqueue time.
FlapOrder ==
    \A c \in Conns : \A i \in 1..Len(wire[c]) : wire[c][i].seqnum = i % SeqnumMod
=============================================================================
