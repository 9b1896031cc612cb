----------------------------- MODULE EventLoop -----------------------------
(***************************************************************************)
(* The client's main loop as utils/faimtest runs it: aim_select picks one  *)
(* thing to do, aim_get_command or aim_tx_flushqueue does it, callbacks    *)
(* use the connections.  TxQueue lets the client call anything any time;   *)
(* here its actions are driven by aim_select (src/src/conn.c), which       *)
(* decides who is served and who waits.                                    *)
(*                                                                         *)
(* connlist is ordered: a new connection goes to the head, and aim_select  *)
(* returns the first one in the list that wants attention.  It does not    *)
(* report outgoing data while any connection is connecting.                *)
(***************************************************************************)
EXTENDS TxQueue, SequencesExt

VARIABLES
    order,   \* connlist as a list, head first
    net,     \* net[c]: what the network holds for c's socket
    pc,      \* where the loop is
    sel      \* the connection aim_select returned

loopStateVars == <<order, net, pc, sel>>
allVars == <<vars, loopStateVars>>

\* On a connecting socket net is "ready" when the connection is established and
\* "refused" when it failed; on a connected socket "ready" is a frame to read.

\* The client has set up its first connection.
LoopInit ==
    /\ Init
    /\ order = <<>>
    /\ net = [c \in Conns |-> "idle"]
    /\ pc = "handler"
    /\ sel = CHOOSE c \in Conns : TRUE

-----------------------------------------------------------------------------
(* The network *)

ConnectResolves(c) ==
    /\ sock[c] = "connecting"
    /\ net[c] = "idle"
    /\ \E r \in {"ready", "refused"} : net' = [net EXCEPT ![c] = r]
    /\ UNCHANGED <<vars, order, pc, sel>>

FrameArrives(c) ==
    /\ sock[c] = "up"
    /\ net[c] = "idle"
    /\ net' = [net EXCEPT ![c] = "ready"]
    /\ UNCHANGED <<vars, order, pc, sel>>

ConnectionLost(c) ==
    /\ PeerReset(c)
    /\ UNCHANGED loopStateVars

-----------------------------------------------------------------------------
(* aim_select *)

Dead(c) == sock[c] = "none"   \* cur->fd == -1
Ready(c) == net[c] # "idle" \/ sock[c] = "reset"

HaveDead == \E c \in connlist : Dead(c)
HaveConnecting == \E c \in connlist : inprogress[c]

\* The first connection of the list that satisfies P.
IsFirst(c, P(_)) ==
    \E i \in 1..Len(order) :
        /\ order[i] = c
        /\ P(c)
        /\ \A j \in 1..(i - 1) : ~P(order[j])

\* Mutant: outgoing data is reported whoever is connecting.
ReportsOutgoing_Always == ~HaveDead /\ queue_outgoing # {}

\* aim_select returns status 1: outgoing data pending.
ReportsOutgoing == ~HaveDead /\ ~HaveConnecting /\ queue_outgoing # {}

SelectNone ==
    /\ pc = "select"
    /\ connlist = {}
    /\ pc' = "done"
    /\ UNCHANGED <<vars, order, net, sel>>

\* Mutant: dead connections are looked for when nothing else is to be done.
SelectDead_Last(c) ==
    /\ pc = "select"
    /\ \A d \in connlist : ~Ready(d)
    /\ IsFirst(c, Dead)
    /\ sel' = c
    /\ pc' = "input"
    /\ UNCHANGED <<vars, order, net>>

SelectDead(c) ==
    /\ pc = "select"
    /\ IsFirst(c, Dead)
    /\ sel' = c
    /\ pc' = "input"
    /\ UNCHANGED <<vars, order, net>>

SelectOutgoing ==
    /\ pc = "select"
    /\ connlist # {}
    /\ ReportsOutgoing
    /\ aim_tx_flushqueue
    /\ pc' = "flush"
    /\ UNCHANGED <<order, net, sel>>

SelectReady(c) ==
    /\ pc = "select"
    /\ ~HaveDead
    /\ ~ReportsOutgoing
    /\ IsFirst(c, Ready)
    /\ sel' = c
    /\ pc' = "input"
    /\ UNCHANGED <<vars, order, net>>

\* Nothing happens before the timeout: the client gets a turn.
SelectTimeout ==
    /\ pc = "select"
    /\ connlist # {}
    /\ ~HaveDead
    /\ ~ReportsOutgoing
    /\ \A c \in connlist : ~Ready(c)
    /\ pc' = "handler"
    /\ UNCHANGED <<vars, order, net, sel>>

-----------------------------------------------------------------------------
(* aim_get_command on the selected connection *)

Forget(c) ==
    /\ order' = SelectSeq(order, LAMBDA d : d # c)
    /\ net' = [net EXCEPT ![c] = "idle"]

\* The descriptor is gone: -1, and the loop kills the connection.
InputDead ==
    /\ pc = "input"
    /\ Dead(sel)
    /\ aim_conn_kill(sel)
    /\ Forget(sel)
    /\ pc' = "select"
    /\ UNCHANGED sel

\* The connect is complete: CONNCOMPLETE is called back.
InputConnected ==
    /\ pc = "input"
    /\ net[sel] = "ready"
    /\ CompleteConnect(sel)
    /\ net' = [net EXCEPT ![sel] = "idle"]
    /\ pc' = "handler"
    /\ UNCHANGED <<order, sel>>

\* The connect failed: closed here, killed by the loop.
InputRefused ==
    /\ pc = "input"
    /\ net[sel] = "refused"
    /\ FailConnect(sel)
    /\ UNCHANGED loopStateVars

\* A frame was read and is dispatched to its callbacks.
InputFrame ==
    /\ pc = "input"
    /\ sock[sel] = "up"
    /\ net[sel] = "ready"
    /\ net' = [net EXCEPT ![sel] = "idle"]
    /\ pc' = "handler"
    /\ UNCHANGED <<vars, order, sel>>

\* Reading fails: closed here, killed by the loop.
InputLost ==
    /\ pc = "input"
    /\ sock[sel] = "reset"
    /\ aim_conn_close(sel)
    /\ UNCHANGED loopStateVars

-----------------------------------------------------------------------------
(* Client code: callbacks, and whatever the loop does between events *)

HandlerOpens(c) ==
    /\ pc = "handler"
    /\ aim_newconn(c)
    /\ order' = <<c>> \o order
    /\ UNCHANGED <<net, pc, sel>>

HandlerCloses(c) ==
    /\ pc = "handler"
    /\ aim_conn_close(c)
    /\ net' = [net EXCEPT ![c] = "idle"]
    /\ UNCHANGED <<order, pc, sel>>

HandlerKills(c) ==
    /\ pc = "handler"
    /\ aim_conn_kill(c)
    /\ Forget(c)
    /\ UNCHANGED <<pc, sel>>

HandlerSends(c) ==
    /\ pc = "handler"
    /\ aim_tx_enqueue__queuebased(c) \/ aim_tx_enqueue__immediate(c)
    /\ UNCHANGED loopStateVars

HandlerSwitches(m) ==
    /\ pc = "handler"
    /\ aim_tx_setenqueue(m)
    /\ UNCHANGED loopStateVars

\* Back in the loop, or in aim_conn_completeconnect, which flushes.
HandlerReturns ==
    /\ pc = "handler"
    /\ IF caller = "callback" THEN CallbackReturns /\ pc' = "flush"
                              ELSE UNCHANGED vars /\ pc' = "select"
    /\ UNCHANGED <<order, net, sel>>

FlushStep ==
    /\ pc = "flush"
    /\ \/ \E f \in queue_outgoing : FlushSkip(f) \/ FlushSend(f)
       \/ FlushEnd
    /\ pc' = IF flushing' THEN "flush" ELSE "select"
    /\ UNCHANGED <<order, net, sel>>

-----------------------------------------------------------------------------
NetworkNext ==
    \E c \in Conns : ConnectResolves(c) \/ FrameArrives(c) \/ ConnectionLost(c)

HandlerNext ==
    \/ \E c \in Conns :
          HandlerOpens(c) \/ HandlerCloses(c) \/ HandlerKills(c) \/ HandlerSends(c)
    \/ \E m \in Modes : HandlerSwitches(m)

\* What the loop and the library do without waiting for anybody.
LoopStep ==
    \/ SelectNone \/ SelectOutgoing \/ SelectTimeout
    \/ \E c \in Conns : SelectDead(c) \/ SelectReady(c)
    \/ InputDead \/ InputConnected \/ InputRefused \/ InputFrame \/ InputLost
    \/ HandlerReturns
    \/ FlushStep

LoopNext == NetworkNext \/ HandlerNext \/ LoopStep

\* The program keeps running (callbacks return), and a connect() comes to some
\* end: the kernel gives up on it after its own timeout if nothing else.
Fairness ==
    /\ WF_allVars(LoopStep)
    /\ \A c \in Conns : WF_allVars(ConnectResolves(c))

LoopSpec == LoopInit /\ [][LoopNext]_allVars /\ Fairness

-----------------------------------------------------------------------------
(* Properties *)

\* No connection has a frame to read.
Quiet == \A c \in Conns : sock[c] = "up" => net[c] = "idle"

Queued(i) == \E f \in queue_outgoing : f.id = i

\* A frame handed over leaves the queue, sent or given up with its connection,
\* once the peers stop keeping the loop busy with input: the connects that
\* hold back every transmission (conn.c:746-759) do come to an end.
FramesLeave ==
    <>[]Quiet => \A i \in 1..MaxFrames : Queued(i) ~> (~Queued(i) \/ pc = "done")

\* A dead connection is reaped even under a flood of input: aim_select looks
\* for it first ("don't let invalid/dead connections sit around").
DeadReaped ==
    \A c \in Conns :
        c \in connlist /\ sock[c] = "none" ~> c \notin connlist \/ sock[c] # "none"
=============================================================================
