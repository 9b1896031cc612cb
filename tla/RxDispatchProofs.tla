-------------------------- MODULE RxDispatchProofs --------------------------
(***************************************************************************)
(* What holds of the receive queue and of aim_rxdispatch for every set of  *)
(* connections, every callback and every number of frames.                 *)
(***************************************************************************)
EXTENDS RxDispatch, TLAPS

-----------------------------------------------------------------------------
(* Lemmas about the operators on the queue *)

\* Setting fr->handled changes nothing else of a frame.
LEMMA MarkFrame ==
    ASSUME NEW f \in Frames, NEW v \in BOOLEAN
    PROVE  /\ [f EXCEPT !.handled = v] \in Frames
           /\ [f EXCEPT !.handled = v].handled = v
           /\ [f EXCEPT !.handled = v].conn = f.conn
           /\ [f EXCEPT !.handled = v].gen = f.gen
           /\ [f EXCEPT !.handled = v].id = f.id
           /\ [f EXCEPT !.handled = v].chan = f.chan
  BY DEF Frames

\* g is f, but for the handled flag.
SameFrame(f, g) == f.id = g.id /\ f.conn = g.conn /\ f.gen = g.gen /\ f.chan = g.chan

\* Where the frames of the queue come from when the flag of f is set.
LEMMA ReplaceFrom ==
    ASSUME TypeOK, NEW f \in queue_incoming, NEW v \in BOOLEAN
    PROVE  /\ \A g \in Replace(f, v) :
                 /\ g \in Frames
                 /\ \/ g \in queue_incoming /\ g # f
                    \/ SameFrame(f, g) /\ g.handled = v
           /\ \A h \in queue_incoming : \E g \in Replace(f, v) : SameFrame(h, g)
  <1> DEFINE m == [f EXCEPT !.handled = v]
  <1>1. f \in Frames /\ queue_incoming \subseteq Frames
    BY DEF TypeOK
  <1>2. m \in Frames /\ m.handled = v /\ SameFrame(f, m)
    BY <1>1, MarkFrame DEF SameFrame
  <1>3. \A g : g \in Replace(f, v) <=> g = m \/ (g \in queue_incoming /\ g # f)
    BY DEF Replace
  <1> HIDE DEF m
  <1>4. \A h : SameFrame(h, h)
    BY DEF SameFrame
  <1> QED
    BY <1>1, <1>2, <1>3, <1>4

\* Where the frames of the queue come from when a connection is killed.
LEMMA CleanedFrom ==
    ASSUME NEW q \in SUBSET Frames, NEW c
    PROVE  /\ \A g \in aim_rxqueue_cleanbyconn(q, c) :
                 /\ g \in Frames
                 /\ \E f \in q : SameFrame(f, g) /\ (g = f \/ g.handled)
                 /\ g.conn = c => g.handled
                 /\ g \in q \/ (g.conn = c /\ g.handled)
           /\ \A h \in q : \E g \in aim_rxqueue_cleanbyconn(q, c) : SameFrame(h, g)
  <1> DEFINE m(f) == IF ~f.handled /\ f.conn = c THEN [f EXCEPT !.handled = TRUE] ELSE f
  <1>1. aim_rxqueue_cleanbyconn(q, c) = {m(f) : f \in q}
    BY DEF aim_rxqueue_cleanbyconn, Handled
  <1>2. ASSUME NEW f \in q
        PROVE  /\ m(f) \in Frames /\ SameFrame(f, m(f)) /\ (m(f) = f \/ m(f).handled)
               /\ m(f).conn = c => m(f).handled
               /\ m(f) = f \/ (m(f).conn = c /\ m(f).handled)
    <2>1. f \in Frames
      OBVIOUS
    <2>2. CASE ~f.handled /\ f.conn = c
      <3>1. m(f) = [f EXCEPT !.handled = TRUE]
        BY <2>2
      <3> HIDE DEF m
      <3> QED
        BY <2>1, <2>2, <3>1, MarkFrame DEF SameFrame
    <2>3. CASE ~(~f.handled /\ f.conn = c)
      <3>1. m(f) = f
        BY <2>3
      <3> HIDE DEF m
      <3> QED
        BY <2>1, <2>3, <3>1 DEF SameFrame
    <2> QED
      BY <2>2, <2>3
  <1> HIDE DEF m
  <1> QED
    BY <1>1, <1>2

-----------------------------------------------------------------------------
(* Type correctness *)

LEMMA FirstStageType ==
    ASSUME NEW f \in Frames
    PROVE  /\ FirstStage(f) \in Stages
           /\ FirstStage(f) \in {"snac", "entry"} => f.callbacks - 1 \in 0..MaxCallbacks
           /\ FirstStage(f) \in {"flapver", "negchan"} => f.chan # 2
  BY DEF FirstStage, Stages, Frames, MaxCallbacks, Chans

\* The frame aim_get_command appends.
NewFrame(c, k) ==
    [conn |-> c, gen |-> gen[c], id |-> Len(arrived) + 1, chan |-> k.chan,
     callbacks |-> k.callbacks, several |-> k.several, takes |-> k.takes,
     handled |-> FALSE]

LEMMA TypeStep == TypeOK /\ [Next]_vars => TypeOK'
  <1> SUFFICES ASSUME TypeOK, [Next]_vars PROVE TypeOK'
    OBVIOUS
  <1> USE DEF connVars, loopVars
  <1>1. ASSUME NEW c \in Conns, aim_newconn(c) PROVE TypeOK'
    BY <1>1 DEF TypeOK, aim_newconn
  <1>2. ASSUME NEW c \in Conns, aim_conn_close(c) PROVE TypeOK'
    BY <1>2 DEF TypeOK, aim_conn_close
  <1>3. ASSUME NEW c \in Conns, aim_conn_kill(c) PROVE TypeOK'
    <2>1. queue_incoming' \subseteq Frames
      BY <1>3, CleanedFrom DEF TypeOK, aim_conn_kill
    <2> QED
      BY <1>3, <2>1 DEF TypeOK, aim_conn_kill
  <1>4. ASSUME NEW c \in Conns, aim_get_command(c) PROVE TypeOK'
    <2>1. PICK k \in Kinds :
             /\ queue_incoming' = queue_incoming \cup {NewFrame(c, k)}
             /\ arrived' = Append(arrived, [conn |-> c, gen |-> gen[c], chan |-> k.chan])
      BY <1>4 DEF aim_get_command, NewFrame
    <2>2. NewFrame(c, k) \in Frames /\ k.chan \in Chans
      BY DEF NewFrame, Frames, TypeOK, Kinds
    <2>3. [conn |-> c, gen |-> gen[c], chan |-> k.chan] \in [conn : Conns, gen : Nat, chan : Chans]
      BY <2>2 DEF TypeOK
    <2>4. queue_incoming' \subseteq Frames /\ arrived' \in Seq([conn : Conns, gen : Nat, chan : Chans])
      BY <2>1, <2>2, <2>3 DEF TypeOK
    <2>5. UNCHANGED <<connVars, loopVars>>
      BY <1>4 DEF aim_get_command
    <2> QED
      BY <2>4, <2>5 DEF TypeOK
  <1>5. ASSUME NEW c \in Conns, GetCommandFails(c) PROVE TypeOK'
    BY <1>5 DEF TypeOK, GetCommandFails
  <1>6. ASSUME aim_rxdispatch PROVE TypeOK'
    BY <1>6 DEF TypeOK, aim_rxdispatch
  <1>7. ASSUME NEW f \in queue_incoming, DispatchSkip(f) PROVE TypeOK'
    BY <1>7 DEF TypeOK, DispatchSkip, Frames
  <1>8. ASSUME NEW f \in queue_incoming, DispatchFrame(f) PROVE TypeOK'
    <2>1. f \in Frames /\ f.id \in Nat
      BY DEF TypeOK, Frames
    <2>2. queue_incoming' \subseteq Frames
      BY <1>8, ReplaceFrom DEF TypeOK, DispatchFrame
    <2>3. stage' \in Stages /\ left' \in 0..MaxCallbacks
      BY <1>8, <2>1, FirstStageType DEF DispatchFrame, MaxCallbacks
    <2>4. log' \in Seq(Nat) /\ cursor' \in Nat /\ badref' \in BOOLEAN
      BY <1>8, <2>1 DEF TypeOK, DispatchFrame, Deref
    <2> QED
      BY <1>8, <2>2, <2>3, <2>4 DEF TypeOK, DispatchFrame
  <1>9. ASSUME NEW f \in queue_incoming, LastChanceReturns(f) PROVE TypeOK'
    <2>1. queue_incoming' \subseteq Frames
      BY <1>9, ReplaceFrom DEF LastChanceReturns
    <2> QED
      BY <1>9, <2>1 DEF TypeOK, LastChanceReturns, Stages
  <1>10. ASSUME NEW f \in queue_incoming, NEW r \in {0, 1}, PlainReturns(f, r) PROVE TypeOK'
    <2>1. queue_incoming' \subseteq Frames
      BY <1>10, ReplaceFrom DEF PlainReturns
    <2> QED
      BY <1>10, <2>1 DEF TypeOK, PlainReturns, Stages
  <1>11. ASSUME NEW f \in queue_incoming, NEW r \in {0, 1}, SnacTaken(f, r) PROVE TypeOK'
    <2>1. queue_incoming' \subseteq Frames
      BY <1>11, ReplaceFrom DEF SnacTaken
    <2>2. left' \in 0..MaxCallbacks
      BY <1>11 DEF SnacTaken, MaxCallbacks
    <2> QED
      BY <1>11, <2>1, <2>2 DEF TypeOK, SnacTaken, Stages
  <1>12. ASSUME NEW f \in queue_incoming, NEW r \in {0, 1}, SnacNextModule(f, r) PROVE TypeOK'
    BY <1>12 DEF TypeOK, SnacNextModule, Deref, MaxCallbacks, Stages
  <1>13. ASSUME NEW f \in queue_incoming, NEW r \in {0, 1}, SnacLastChance(f, r) PROVE TypeOK'
    <2>1. queue_incoming' \subseteq Frames
      BY <1>13, ReplaceFrom DEF SnacLastChance
    <2> QED
      BY <1>13, <2>1 DEF TypeOK, SnacLastChance, Stages, Deref
  <1>14. ASSUME DispatchEnd PROVE TypeOK'
    BY <1>14 DEF TypeOK, DispatchEnd, aim_purge_rxqueue
  <1>15. ASSUME NEW f \in queue_incoming, NextEntry(f) PROVE TypeOK'
    BY <1>15 DEF TypeOK, NextEntry, Deref
  <1>16. CASE UNCHANGED vars
    BY <1>16 DEF TypeOK, vars
  <1> QED
    BY <1>1, <1>2, <1>3, <1>4, <1>5, <1>6, <1>7, <1>8, <1>9, <1>10, <1>11, <1>12,
       <1>13, <1>14, <1>15, <1>16 DEF Next, ClientNext, DispatchNext

LEMMA InitType == Init => TypeOK
  <1> SUFFICES ASSUME Init PROVE TypeOK
    OBVIOUS
  <1>1. left \in 0..MaxCallbacks /\ cursor \in Nat
    BY DEF Init, MaxCallbacks
  <1>2. arrived \in Seq([conn : Conns, gen : Nat, chan : Chans]) /\ log \in Seq(Nat)
    BY DEF Init
  <1>3. stage \in Stages
    BY DEF Init, Stages
  <1> QED
    BY <1>1, <1>2, <1>3 DEF Init, TypeOK

\* The receive side keeps its type whatever the callbacks do.
THEOREM TypeCorrect == Spec => []TypeOK
  BY InitType, TypeStep, PTL DEF Spec

-----------------------------------------------------------------------------
(* The inductive invariant *)

\* Frames are numbered as they arrived, and no address goes back to an earlier owner.
Numbered ==
    /\ \A f \in queue_incoming :
          /\ f.id \in 1..Len(arrived)
          /\ arrived[f.id] = [conn |-> f.conn, gen |-> f.gen, chan |-> f.chan]
    /\ \A f, g \in queue_incoming : f.id = g.id => f = g
    /\ \A i \in 1..Len(arrived) : arrived[i].gen <= gen[arrived[i].conn]
    /\ \A k \in 1..Len(log) : log[k] \in 1..Len(arrived)
    /\ cursor <= Len(arrived)

Logged(i) == \E k \in 1..Len(log) : log[k] = i

\* A callback runs for the frame at the cursor, which has been handed out.
AtCallback ==
    stage # "none" =>
        /\ dispatching
        /\ Logged(cursor)
        /\ stage \in {"flapver", "negchan"} => arrived[cursor].chan # 2

\* A frame marked as handled was handed out, or its connection is gone for good.
Accounted == \A f \in queue_incoming : f.handled => Dangling(f) \/ Logged(f.id)

\* A SNAC that waits, unless its callback is running, comes after all the SNACs
\* handed out, and is still ahead of the loop.
Waits(f) == f.chan = 2 /\ ~f.handled /\ (stage = "none" \/ f.id # cursor)
Ahead ==
    \A f \in queue_incoming : Waits(f) =>
        /\ \A k \in 1..Len(log) : arrived[log[k]].chan = 2 => log[k] < f.id
        /\ dispatching => cursor < f.id

IInv == TypeOK /\ Numbered /\ AtCallback /\ Accounted /\ Ahead /\ NoFrameLost /\ SnacsOnceInOrder

\* What a new entry of the log or a new arrival leaves as it was.
LEMMA LogGrows ==
    ASSUME TypeOK, NEW x \in Nat, log' = Append(log, x)
    PROVE  /\ Len(log') = Len(log) + 1
           /\ log'[Len(log) + 1] = x
           /\ \A k \in 1..Len(log) : log'[k] = log[k]
           /\ \A i : Logged(i)' <=> (Logged(i) \/ i = x)
  <1>1. /\ Len(log') = Len(log) + 1 /\ Len(log) \in Nat
        /\ log'[Len(log) + 1] = x
        /\ \A k \in 1..Len(log) : log'[k] = log[k]
    BY DEF TypeOK
  <1>2. \A k : k \in 1..Len(log') <=> k \in 1..Len(log) \/ k = Len(log) + 1
    BY <1>1
  <1> QED
    BY <1>1, <1>2 DEF Logged

LEMMA ArrivedGrows ==
    ASSUME TypeOK, NEW c \in Conns, aim_get_command(c)
    PROVE  /\ Len(arrived') = Len(arrived) + 1
           /\ \A i \in 1..Len(arrived) : arrived'[i] = arrived[i]
           /\ \E g \in Frames :
                 /\ queue_incoming' = queue_incoming \cup {g}
                 /\ g.id = Len(arrived) + 1 /\ g.conn = c /\ g.gen = gen[c] /\ ~g.handled
                 /\ arrived'[Len(arrived) + 1] = [conn |-> g.conn, gen |-> g.gen, chan |-> g.chan]
  <1>1. PICK k \in Kinds :
           /\ queue_incoming' = queue_incoming \cup {NewFrame(c, k)}
           /\ arrived' = Append(arrived, [conn |-> c, gen |-> gen[c], chan |-> k.chan])
    BY DEF aim_get_command, NewFrame
  <1>2. NewFrame(c, k) \in Frames
    BY DEF NewFrame, Frames, TypeOK, Kinds
  <1>3. /\ NewFrame(c, k).id = Len(arrived) + 1 /\ NewFrame(c, k).conn = c
        /\ NewFrame(c, k).gen = gen[c] /\ ~NewFrame(c, k).handled
        /\ NewFrame(c, k).chan = k.chan
    BY DEF NewFrame
  <1>4. /\ Len(arrived') = Len(arrived) + 1
        /\ \A i \in 1..Len(arrived) : arrived'[i] = arrived[i]
        /\ arrived'[Len(arrived) + 1] = [conn |-> c, gen |-> gen[c], chan |-> k.chan]
    BY <1>1 DEF TypeOK
  <1> QED
    BY <1>1, <1>2, <1>3, <1>4

LEMMA SeqElement ==
    ASSUME NEW S, NEW q \in Seq(S)
    PROVE  Len(q) \in Nat /\ \A i \in 1..Len(q) : q[i] \in S
  OBVIOUS

LEMMA ArrivedType ==
    ASSUME TypeOK, NEW i \in 1..Len(arrived)
    PROVE  arrived[i].gen \in Nat /\ arrived[i].conn \in Conns
  <1>1. arrived \in Seq([conn : Conns, gen : Nat, chan : Chans])
    BY DEF TypeOK
  <1>2. arrived[i] \in [conn : Conns, gen : Nat, chan : Chans]
    BY <1>1, SeqElement, Zenon
  <1> QED
    BY <1>2

\* A step that only sets handled flags keeps the numbers of the frames.
Relabels ==
    /\ \A g \in queue_incoming' : \E f \in queue_incoming : SameFrame(f, g)
    /\ \A g, h \in queue_incoming' : g.id = h.id => g = h
    /\ \A f \in queue_incoming : \E g \in queue_incoming' : SameFrame(f, g)

LEMMA ReplaceRelabels ==
    ASSUME TypeOK, Numbered, NEW f \in queue_incoming, NEW v \in BOOLEAN,
           queue_incoming' = Replace(f, v)
    PROVE  Relabels
  <1>1. \A h : SameFrame(h, h)
    BY DEF SameFrame
  <1>2. \A g, h \in queue_incoming' : g.id = h.id => g = h
    <2> DEFINE m == [f EXCEPT !.handled = v]
    <2>1. \A g : g \in queue_incoming' <=> g = m \/ (g \in queue_incoming /\ g # f)
      BY DEF Replace
    <2>2. m.id = f.id
      BY MarkFrame DEF TypeOK
    <2> HIDE DEF m
    <2> QED
      BY <2>1, <2>2 DEF Numbered
  <1> QED
    BY <1>1, <1>2, ReplaceFrom DEF Relabels

LEMMA KillRelabels ==
    ASSUME TypeOK, Numbered, NEW c \in Conns, aim_conn_kill(c)
    PROVE  Relabels
  <1> DEFINE m(f) == IF ~f.handled /\ f.conn = c THEN [f EXCEPT !.handled = TRUE] ELSE f
  <1>1. queue_incoming' = {m(f) : f \in queue_incoming}
    BY DEF aim_conn_kill, aim_rxqueue_cleanbyconn, Handled
  <1>2. \A f \in queue_incoming : m(f).id = f.id
    BY MarkFrame DEF TypeOK
  <1> HIDE DEF m
  <1>3. \A g, h \in queue_incoming' : g.id = h.id => g = h
    BY <1>1, <1>2 DEF Numbered
  <1>4. /\ \A g \in queue_incoming' : \E f \in queue_incoming : SameFrame(f, g)
        /\ \A f \in queue_incoming : \E g \in queue_incoming' : SameFrame(f, g)
    <2>1. queue_incoming \in SUBSET Frames
      BY DEF TypeOK
    <2>2. queue_incoming' = aim_rxqueue_cleanbyconn(queue_incoming, c)
      BY DEF aim_conn_kill
    <2> QED
      BY <2>1, <2>2, CleanedFrom, Zenon
  <1> QED
    BY <1>3, <1>4 DEF Relabels

LEMMA RelabelNumbered ==
    ASSUME Numbered, Relabels, UNCHANGED <<arrived, gen>>,
           cursor' <= Len(arrived), \A k \in 1..Len(log') : log'[k] \in 1..Len(arrived)
    PROVE  Numbered'
  BY DEF Numbered, Relabels, SameFrame

LEMMA NumberedStep ==
    ASSUME TypeOK, Numbered, [Next]_vars
    PROVE  Numbered'
  <1> USE DEF connVars, loopVars
  <1>a. UNCHANGED <<queue_incoming, arrived, gen, log>> /\ cursor' <= Len(arrived)
           => Numbered'
    BY DEF Numbered
  <1>b. ASSUME NEW f \in queue_incoming
        PROVE  f.id <= Len(arrived) /\ f.id \in Nat
    <2>1. Len(arrived) \in Nat
      BY SeqElement DEF TypeOK
    <2>2. f.id \in 1..Len(arrived)
      BY DEF Numbered
    <2> QED
      BY <2>1, <2>2
  <1>c. 0 <= Len(arrived) /\ cursor <= Len(arrived)
    BY DEF TypeOK, Numbered
  <1>d. ASSUME NEW f \in queue_incoming, NEW v \in BOOLEAN, queue_incoming' = Replace(f, v),
               UNCHANGED <<arrived, gen, log, cursor>>
        PROVE  Numbered'
    <2>1. \A k \in 1..Len(log') : log'[k] \in 1..Len(arrived)
      BY <1>d DEF Numbered
    <2> QED
      BY <1>c, <1>d, <2>1, ReplaceRelabels, RelabelNumbered
  <1>1. ASSUME NEW c \in Conns, aim_newconn(c) PROVE Numbered'
    <2>1. \A i \in 1..Len(arrived) : arrived[i].gen \in Nat /\ arrived[i].conn \in Conns
      BY ArrivedType
    <2>2. \A d \in Conns : gen[d] \in Nat /\ gen'[d] >= gen[d]
      BY <1>1 DEF TypeOK, aim_newconn
    <2>3. \A i \in 1..Len(arrived) : arrived[i].gen <= gen'[arrived[i].conn]
      <3> TAKE i \in 1..Len(arrived)
      <3>1. arrived[i].gen <= gen[arrived[i].conn]
        BY DEF Numbered
      <3> DEFINE d == arrived[i].conn
      <3>2. gen[d] \in Nat /\ gen'[d] >= gen[d] /\ gen'[d] \in Nat
        BY <1>1, <2>1, <2>2, TypeStep DEF TypeOK, aim_newconn
      <3> QED
        BY <2>1, <3>1, <3>2
    <2> QED
      BY <1>1, <2>3 DEF Numbered, aim_newconn
  <1>2. ASSUME NEW c \in Conns, aim_conn_close(c) PROVE Numbered'
    BY <1>2, <1>a, <1>c DEF aim_conn_close
  <1>3. ASSUME NEW c \in Conns, aim_conn_kill(c) PROVE Numbered'
    <2>1. UNCHANGED <<arrived, gen, log, cursor>>
      BY <1>3 DEF aim_conn_kill
    <2>2. \A k \in 1..Len(log') : log'[k] \in 1..Len(arrived)
      BY <2>1 DEF Numbered
    <2> QED
      BY <1>3, <1>c, <2>1, <2>2, KillRelabels, RelabelNumbered
  <1>4. ASSUME NEW c \in Conns, aim_get_command(c) PROVE Numbered'
    <2>1. PICK g \in Frames :
             /\ queue_incoming' = queue_incoming \cup {g}
             /\ g.id = Len(arrived) + 1 /\ g.conn = c /\ g.gen = gen[c] /\ ~g.handled
             /\ arrived'[Len(arrived) + 1] = [conn |-> g.conn, gen |-> g.gen, chan |-> g.chan]
      BY <1>4, ArrivedGrows
    <2>2. /\ Len(arrived') = Len(arrived) + 1 /\ Len(arrived) \in Nat
          /\ \A i \in 1..Len(arrived) : arrived'[i] = arrived[i]
      BY <1>4, ArrivedGrows DEF TypeOK
    <2>3. UNCHANGED <<gen, log, cursor>>
      BY <1>4 DEF aim_get_command
    <2>4. \A i : i \in 1..Len(arrived') <=> i \in 1..Len(arrived) \/ i = Len(arrived) + 1
      BY <2>2
    <2>5. gen[c] \in Nat /\ cursor \in Nat
      BY DEF TypeOK
    <2>6. \A i \in 1..Len(arrived') : arrived'[i].gen <= gen'[arrived'[i].conn]
      BY <2>1, <2>2, <2>3, <2>4, <2>5 DEF Numbered
    <2>7. \A f, h \in queue_incoming' : f.id = h.id => f = h
      BY <2>1, <2>2, <1>b DEF Numbered
    <2>8. \A f \in queue_incoming' :
              /\ f.id \in 1..Len(arrived')
              /\ arrived'[f.id] = [conn |-> f.conn, gen |-> f.gen, chan |-> f.chan]
      BY <2>1, <2>2, <2>4 DEF Numbered
    <2>9. \A k \in 1..Len(log') : log'[k] \in 1..Len(arrived')
      BY <2>3, <2>4 DEF Numbered
    <2>10. cursor' <= Len(arrived')
      BY <2>2, <2>3, <2>5, <1>c
    <2> QED
      BY <2>6, <2>7, <2>8, <2>9, <2>10 DEF Numbered
  <1>5. ASSUME NEW c \in Conns, GetCommandFails(c) PROVE Numbered'
    BY <1>5, <1>a, <1>c DEF GetCommandFails
  <1>6. ASSUME aim_rxdispatch PROVE Numbered'
    BY <1>6, <1>a, <1>c DEF aim_rxdispatch
  <1>7. ASSUME NEW f \in queue_incoming, DispatchSkip(f) PROVE Numbered'
    BY <1>7, <1>a, <1>b DEF DispatchSkip
  <1>8. ASSUME NEW f \in queue_incoming, DispatchFrame(f) PROVE Numbered'
    <2>1. f.id \in Nat /\ f.id \in 1..Len(arrived) /\ f.id <= Len(arrived)
      BY <1>b DEF Numbered
    <2>2. log' = Append(log, f.id) /\ cursor' = f.id /\ UNCHANGED <<arrived, gen>>
      BY <1>8 DEF DispatchFrame
    <2>3. \A k : k \in 1..Len(log') => k \in 1..Len(log) \/ k = Len(log) + 1
      <3>1. Len(log) \in Nat /\ Len(log') = Len(log) + 1
        BY <2>1, <2>2, LogGrows DEF TypeOK
      <3> QED
        BY <3>1
    <2>4. \A k \in 1..Len(log') : log'[k] \in 1..Len(arrived)
      BY <2>1, <2>2, <2>3, LogGrows DEF Numbered
    <2>5. Relabels
      <3>1. CASE FirstStage(f) = "none"
        BY <1>8, <3>1, ReplaceRelabels DEF DispatchFrame
      <3>2. CASE FirstStage(f) # "none"
        BY <1>8, <3>2 DEF DispatchFrame, Relabels, SameFrame, Numbered
      <3> QED
        BY <3>1, <3>2
    <2> QED
      BY <2>1, <2>2, <2>4, <2>5, RelabelNumbered
  <1>9. ASSUME NEW f \in queue_incoming, LastChanceReturns(f) PROVE Numbered'
    BY <1>9, <1>d DEF LastChanceReturns
  <1>10. ASSUME NEW f \in queue_incoming, NEW r \in {0, 1}, PlainReturns(f, r) PROVE Numbered'
    BY <1>10, <1>d DEF PlainReturns
  <1>11. ASSUME NEW f \in queue_incoming, NEW r \in {0, 1}, SnacTaken(f, r) PROVE Numbered'
    BY <1>11, <1>d DEF SnacTaken
  <1>12. ASSUME NEW f \in queue_incoming, NEW r \in {0, 1}, SnacNextModule(f, r) PROVE Numbered'
    BY <1>12, <1>a, <1>c DEF SnacNextModule
  <1>13. ASSUME NEW f \in queue_incoming, NEW r \in {0, 1}, SnacLastChance(f, r) PROVE Numbered'
    BY <1>13, <1>d DEF SnacLastChance
  <1>14. ASSUME DispatchEnd PROVE Numbered'
    BY <1>14, <1>c DEF Numbered, DispatchEnd, aim_purge_rxqueue
  <1>15. ASSUME NEW f \in queue_incoming, NextEntry(f) PROVE Numbered'
    BY <1>15, <1>a, <1>c DEF NextEntry
  <1>16. CASE UNCHANGED vars
    BY <1>16, <1>a, <1>c DEF vars
  <1> QED
    BY <1>1, <1>2, <1>3, <1>4, <1>5, <1>6, <1>7, <1>8, <1>9, <1>10, <1>11, <1>12,
       <1>13, <1>14, <1>15, <1>16 DEF Next, ClientNext, DispatchNext

\* What is known of a frame in the queue.
LEMMA QueuedFrame ==
    ASSUME TypeOK, Numbered, NEW f \in queue_incoming
    PROVE  /\ f \in Frames /\ f.id \in Nat /\ f.conn \in Conns /\ f.gen \in Nat
           /\ f.id \in 1..Len(arrived) /\ 0 < f.id
           /\ f.gen <= gen[f.conn]
           /\ arrived[f.id].gen = f.gen /\ arrived[f.id].conn = f.conn
           /\ arrived[f.id].chan = f.chan
  <1>1. f \in Frames /\ f.id \in Nat /\ f.conn \in Conns /\ f.gen \in Nat
    BY DEF TypeOK, Frames
  <1>2. f.id \in 1..Len(arrived)
    BY DEF Numbered
  <1>3. arrived[f.id] = [conn |-> f.conn, gen |-> f.gen, chan |-> f.chan]
    BY DEF Numbered
  <1>4. arrived[f.id].gen = f.gen /\ arrived[f.id].conn = f.conn /\ arrived[f.id].chan = f.chan
    BY <1>3
  <1>5. f.gen <= gen[f.conn]
    BY <1>2, <1>4 DEF Numbered
  <1>6. 0 < f.id
    BY <1>1, <1>2
  <1> QED
    BY <1>1, <1>2, <1>4, <1>5, <1>6

\* A frame handed out stays in the log.
LEMMA LoggedStays ==
    ASSUME TypeOK, [Next]_vars, NEW i, Logged(i)
    PROVE  Logged(i)'
  <1> USE DEF connVars, loopVars
  <1>1. ASSUME NEW f \in queue_incoming, DispatchFrame(f) PROVE Logged(i)'
    <2>1. f.id \in Nat /\ log' = Append(log, f.id)
      BY <1>1 DEF DispatchFrame, TypeOK, Frames
    <2> QED
      BY <2>1, LogGrows
  <1>2. ASSUME UNCHANGED log PROVE Logged(i)'
    BY <1>2 DEF Logged
  <1> QED
    BY <1>1, <1>2 DEF Next, ClientNext, DispatchNext, aim_newconn, aim_conn_close,
       aim_conn_kill, aim_get_command, GetCommandFails, aim_rxdispatch, DispatchSkip,
       NextEntry, LastChanceReturns, PlainReturns, SnacTaken, SnacNextModule,
       SnacLastChance, DispatchEnd, vars

\* The n-th connection at address d is gone.
Gone(d, n) == d \notin connlist \/ n # gen[d]

LEMMA GoneStays ==
    ASSUME TypeOK, [Next]_vars, NEW d \in Conns, NEW n \in Nat, n <= gen[d], Gone(d, n)
    PROVE  Gone(d, n)'
  <1> USE DEF connVars, loopVars
  <1>1. ASSUME NEW c \in Conns, aim_newconn(c) PROVE Gone(d, n)'
    <2>1. CASE c = d
      BY <1>1, <2>1 DEF aim_newconn, Gone, TypeOK
    <2>2. CASE c # d
      BY <1>1, <2>2 DEF aim_newconn, Gone, TypeOK
    <2> QED
      BY <2>1, <2>2
  <1>2. ASSUME NEW c \in Conns, aim_conn_kill(c) PROVE Gone(d, n)'
    BY <1>2 DEF aim_conn_kill, Gone
  <1>3. ASSUME UNCHANGED <<connlist, gen>> PROVE Gone(d, n)'
    BY <1>3 DEF Gone
  <1> QED
    BY <1>1, <1>2, <1>3 DEF Next, ClientNext, DispatchNext, aim_conn_close,
       aim_get_command, GetCommandFails, aim_rxdispatch, DispatchSkip, DispatchFrame,
       NextEntry, LastChanceReturns, PlainReturns, SnacTaken, SnacNextModule,
       SnacLastChance, DispatchEnd, vars

LEMMA CallbackStep ==
    ASSUME TypeOK, Numbered, AtCallback, [Next]_vars
    PROVE  AtCallback'
  <1> USE DEF connVars, loopVars
  <1>a. ASSUME UNCHANGED <<stage, dispatching, log, cursor, arrived>> PROVE AtCallback'
    BY <1>a DEF AtCallback, Logged
  <1>b. ASSUME stage' = "none" PROVE AtCallback'
    BY <1>b DEF AtCallback
  <1>1. ASSUME NEW c \in Conns, aim_get_command(c) PROVE AtCallback'
    <2>1. UNCHANGED <<stage, dispatching, log, cursor>>
      BY <1>1 DEF aim_get_command
    <2>2. \A i : Logged(i) => i \in 1..Len(arrived) /\ arrived'[i] = arrived[i]
      BY <1>1, ArrivedGrows DEF Logged, Numbered
    <2> QED
      BY <2>1, <2>2 DEF AtCallback, Logged
  <1>2. ASSUME aim_rxdispatch PROVE AtCallback'
    BY <1>2, <1>b DEF AtCallback, aim_rxdispatch
  <1>3. ASSUME NEW f \in queue_incoming, DispatchFrame(f) PROVE AtCallback'
    <2>1. f \in Frames /\ f.id \in Nat /\ arrived[f.id].chan = f.chan
      BY QueuedFrame
    <2>2. Logged(f.id)'
      BY <1>3, <2>1, LogGrows DEF DispatchFrame
    <2>3. dispatching' /\ cursor' = f.id /\ stage' = FirstStage(f) /\ arrived' = arrived
      BY <1>3 DEF DispatchFrame, AtLoopHead
    <2> QED
      BY <2>1, <2>2, <2>3, FirstStageType DEF AtCallback, Logged
  <1>4. ASSUME NEW f \in queue_incoming, NEW r \in {0, 1}, SnacLastChance(f, r) PROVE AtCallback'
    BY <1>4 DEF AtCallback, SnacLastChance, InModule, Logged
  <1>5. ASSUME NEW f \in queue_incoming, NEW r \in {0, 1}, SnacNextModule(f, r) PROVE AtCallback'
    BY <1>5 DEF AtCallback, SnacNextModule, InModule, Logged
  <1> QED
    BY <1>1, <1>2, <1>3, <1>4, <1>5, <1>a, <1>b DEF Next, ClientNext, DispatchNext, aim_newconn,
       aim_conn_close, aim_conn_kill, GetCommandFails, DispatchSkip, LastChanceReturns,
       NextEntry, PlainReturns, SnacTaken, DispatchEnd, AtLoopHead, vars

LEMMA AccountedStep ==
    ASSUME TypeOK, Numbered, AtCallback, Accounted, [Next]_vars
    PROVE  Accounted'
  <1> USE DEF connVars, loopVars
  <1>a. ASSUME NEW f \in queue_incoming, NEW g, SameFrame(f, g), f.handled
        PROVE  Dangling(g)' \/ Logged(g.id)'
    <2>1. f.conn \in Conns /\ f.gen \in Nat /\ f.gen <= gen[f.conn]
      BY QueuedFrame
    <2>2. CASE Dangling(f)
      <3>1. Gone(f.conn, f.gen)
        BY <2>2 DEF Dangling, Gone
      <3>2. Gone(f.conn, f.gen)'
        BY <2>1, <3>1, GoneStays
      <3> QED
        BY <1>a, <3>2 DEF Dangling, Gone, SameFrame
    <2>3. CASE Logged(f.id)
      <3>1. g.id = f.id
        BY <1>a DEF SameFrame
      <3> QED
        BY <2>3, <3>1, LoggedStays
    <2> QED
      BY <1>a, <2>2, <2>3 DEF Accounted
  <1>b. ASSUME \A g \in queue_incoming' : g \in queue_incoming \/ ~g.handled
        PROVE  Accounted'
    BY <1>a, <1>b DEF Accounted, SameFrame
  <1>c. ASSUME NEW f \in queue_incoming, NEW v \in BOOLEAN, queue_incoming' = Replace(f, v),
               Logged(f.id)'
        PROVE  Accounted'
    <2> SUFFICES ASSUME NEW g \in queue_incoming', g.handled
                 PROVE  Dangling(g)' \/ Logged(g.id)'
      BY DEF Accounted
    <2>1. CASE g \in queue_incoming
      BY <2>1, <1>a DEF SameFrame
    <2>2. CASE SameFrame(f, g)
      BY <1>c, <2>2 DEF SameFrame
    <2> QED
      BY <1>c, <2>1, <2>2, ReplaceFrom
  <1>d. ASSUME NEW f \in queue_incoming, NEW v \in BOOLEAN, queue_incoming' = Replace(f, v),
               stage # "none", f.id = cursor, UNCHANGED log
        PROVE  Accounted'
    BY <1>c, <1>d DEF AtCallback, Logged
  <1>1. ASSUME NEW c \in Conns, aim_conn_kill(c) PROVE Accounted'
    <2> SUFFICES ASSUME NEW g \in queue_incoming', g.handled
                 PROVE  Dangling(g)' \/ Logged(g.id)'
      BY DEF Accounted
    <2>1. CASE g \in queue_incoming
      BY <2>1, <1>a DEF SameFrame
    <2>2. CASE g.conn = c
      BY <1>1, <2>2 DEF aim_conn_kill, Dangling
    <2>3. queue_incoming \in SUBSET Frames /\ g \in aim_rxqueue_cleanbyconn(queue_incoming, c)
      BY <1>1 DEF TypeOK, aim_conn_kill
    <2> QED
      BY <2>1, <2>2, <2>3, CleanedFrom, Zenon
  <1>2. ASSUME NEW c \in Conns, aim_get_command(c) PROVE Accounted'
    <2>1. PICK g : queue_incoming' = queue_incoming \cup {g} /\ ~g.handled
      BY <1>2, ArrivedGrows
    <2> QED
      BY <1>b, <2>1
  <1>3. ASSUME NEW f \in queue_incoming, DispatchFrame(f) PROVE Accounted'
    <2>1. f.id \in Nat
      BY DEF TypeOK, Frames
    <2>2. Logged(f.id)'
      BY <1>3, <2>1, LogGrows DEF DispatchFrame
    <2> QED
      BY <1>3, <1>b, <1>c, <2>2 DEF DispatchFrame
  <1>4. ASSUME NEW f \in queue_incoming, LastChanceReturns(f) PROVE Accounted'
    BY <1>4, <1>d DEF LastChanceReturns
  <1>5. ASSUME NEW f \in queue_incoming, NEW r \in {0, 1}, PlainReturns(f, r) PROVE Accounted'
    BY <1>5, <1>d DEF PlainReturns, Returning
  <1>6. ASSUME NEW f \in queue_incoming, NEW r \in {0, 1}, SnacTaken(f, r) PROVE Accounted'
    BY <1>6, <1>d DEF SnacTaken, InModule, Returning
  <1>7. ASSUME NEW f \in queue_incoming, NEW r \in {0, 1}, SnacLastChance(f, r) PROVE Accounted'
    BY <1>7, <1>d DEF SnacLastChance, InModule, Returning
  <1>8. ASSUME DispatchEnd PROVE Accounted'
    BY <1>8, <1>b DEF DispatchEnd, aim_purge_rxqueue
  <1>9. ASSUME UNCHANGED queue_incoming PROVE Accounted'
    BY <1>9, <1>b
  <1> QED
    BY <1>1, <1>2, <1>3, <1>4, <1>5, <1>6, <1>7, <1>8, <1>9 DEF Next, ClientNext,
       DispatchNext, aim_newconn, aim_conn_close, GetCommandFails, aim_rxdispatch,
       DispatchSkip, SnacNextModule, NextEntry, vars

LEMMA LostStep ==
    ASSUME TypeOK, Numbered, Accounted, NoFrameLost, [Next]_vars
    PROVE  NoFrameLost'
  <1> USE DEF connVars, loopVars
  <1> DEFINE Kept(i) == \/ Gone(arrived[i].conn, arrived[i].gen)
                        \/ \E f \in queue_incoming : f.id = i
                        \/ Logged(i)
  <1>0. ASSUME NEW i \in 1..Len(arrived) PROVE Kept(i)
    BY DEF NoFrameLost, Gone, Logged
  <1>a. ASSUME NEW i \in 1..Len(arrived), arrived'[i] = arrived[i],
               Gone(arrived[i].conn, arrived[i].gen) \/ Logged(i)
        PROVE  Kept(i)'
    <2>1. /\ arrived[i].gen \in Nat /\ arrived[i].conn \in Conns
          /\ arrived[i].gen <= gen[arrived[i].conn]
      BY ArrivedType DEF Numbered
    <2>2. CASE Gone(arrived[i].conn, arrived[i].gen)
      <3> DEFINE d == arrived[i].conn
                 n == arrived[i].gen
      <3>1. Gone(d, n)'
        <4>1. \A e \in Conns, m \in Nat : m <= gen[e] /\ Gone(e, m) => (e \notin connlist' \/ m # gen'[e])
          BY GoneStays DEF Gone
        <4> QED
          BY <1>a, <2>1, <2>2, <4>1 DEF Gone
      <3> QED
        BY <1>a, <3>1
    <2>3. CASE Logged(i)
      BY <2>3, LoggedStays
    <2> QED
      BY <1>a, <2>2, <2>3
  <1>b. ASSUME UNCHANGED arrived, \A f \in queue_incoming : \E g \in queue_incoming' : g.id = f.id
        PROVE  NoFrameLost'
    <2>1. ASSUME NEW i \in 1..Len(arrived) PROVE Kept(i)'
      BY <1>0, <1>a, <1>b
    <2> QED
      BY <1>b, <2>1 DEF NoFrameLost, Gone, Logged
  <1>c. ASSUME Relabels, UNCHANGED arrived PROVE NoFrameLost'
    BY <1>b, <1>c DEF Relabels, SameFrame
  <1>1. ASSUME NEW c \in Conns, aim_get_command(c) PROVE NoFrameLost'
    <2>1. PICK g : queue_incoming' = queue_incoming \cup {g} /\ g.id = Len(arrived) + 1
      BY <1>1, ArrivedGrows
    <2>2. /\ Len(arrived) \in Nat /\ Len(arrived') = Len(arrived) + 1
          /\ \A i \in 1..Len(arrived) : arrived'[i] = arrived[i]
      BY <1>1, ArrivedGrows, SeqElement DEF TypeOK
    <2>3. ASSUME NEW i \in 1..Len(arrived') PROVE Kept(i)'
      <3>1. CASE i = Len(arrived) + 1
        BY <2>1, <3>1
      <3>2. CASE i \in 1..Len(arrived)
        BY <1>0, <1>a, <2>1, <2>2, <3>2
      <3> QED
        BY <2>2, <3>1, <3>2
    <2> QED
      BY <2>3 DEF NoFrameLost, Gone, Logged
  <1>2. ASSUME DispatchEnd PROVE NoFrameLost'
    <2>1. ASSUME NEW i \in 1..Len(arrived) PROVE Kept(i)'
      <3>1. CASE Gone(arrived[i].conn, arrived[i].gen) \/ Logged(i)
        BY <1>2, <1>a, <3>1 DEF DispatchEnd
      <3>2. ASSUME NEW f \in queue_incoming, f.id = i PROVE Kept(i)'
        <4>1. CASE ~f.handled
          BY <1>2, <3>2, <4>1 DEF DispatchEnd, aim_purge_rxqueue
        <4>2. CASE f.handled
          <5>1. arrived[i].conn = f.conn /\ arrived[i].gen = f.gen
            BY <3>2, QueuedFrame
          <5>2. Gone(arrived[i].conn, arrived[i].gen) \/ Logged(i)
            BY <3>2, <4>2, <5>1 DEF Accounted, Gone, Dangling
          <5> QED
            BY <1>2, <1>a, <5>2 DEF DispatchEnd
        <4> QED
          BY <4>1, <4>2
      <3> QED
        BY <1>0, <3>1, <3>2
    <2> QED
      BY <1>2, <2>1 DEF DispatchEnd, NoFrameLost, Gone, Logged
  <1>3. ASSUME NEW c \in Conns, aim_conn_kill(c) PROVE NoFrameLost'
    BY <1>3, <1>c, KillRelabels DEF aim_conn_kill
  <1>4. ASSUME NEW f \in queue_incoming, NEW v \in BOOLEAN, queue_incoming' = Replace(f, v),
               UNCHANGED arrived
        PROVE  NoFrameLost'
    BY <1>4, <1>c, ReplaceRelabels
  <1>5. ASSUME NEW f \in queue_incoming, DispatchFrame(f) PROVE NoFrameLost'
    BY <1>5, <1>4, <1>b DEF DispatchFrame
  <1>6. ASSUME NEW f \in queue_incoming, LastChanceReturns(f) PROVE NoFrameLost'
    BY <1>6, <1>4 DEF LastChanceReturns
  <1>7. ASSUME NEW f \in queue_incoming, NEW r \in {0, 1},
               PlainReturns(f, r) \/ SnacTaken(f, r) \/ SnacLastChance(f, r)
        PROVE  NoFrameLost'
    BY <1>7, <1>4 DEF PlainReturns, SnacTaken, SnacLastChance
  <1>8. ASSUME UNCHANGED <<queue_incoming, arrived>> PROVE NoFrameLost'
    BY <1>8, <1>b
  <1> QED
    BY <1>1, <1>2, <1>3, <1>5, <1>6, <1>7, <1>8 DEF Next, ClientNext, DispatchNext,
       aim_newconn, aim_conn_close, GetCommandFails, aim_rxdispatch, DispatchSkip,
       SnacNextModule, NextEntry, vars

LEMMA OrderStep ==
    ASSUME TypeOK, Numbered, AtCallback, Ahead, SnacsOnceInOrder, [Next]_vars
    PROVE  Ahead' /\ SnacsOnceInOrder'
  <1> USE DEF connVars, loopVars
  <1> DEFINE Before(f) == \A k \in 1..Len(log) : arrived[log[k]].chan = 2 => log[k] < f.id
  <1>0. Len(arrived) \in Nat /\ Len(log) \in Nat /\ cursor \in Nat /\ cursor <= Len(arrived)
    BY SeqElement DEF TypeOK, Numbered
  <1>a. UNCHANGED <<log, arrived>> => SnacsOnceInOrder'
    BY DEF SnacsOnceInOrder
  <1>b. ASSUME UNCHANGED <<log, arrived, stage, cursor, dispatching>>,
               \A g \in queue_incoming' : g \in queue_incoming \/ g.handled
        PROVE  Ahead'
    BY <1>b DEF Ahead, Waits
  <1>c. ASSUME NEW f \in queue_incoming, NEW v \in BOOLEAN, queue_incoming' = Replace(f, v),
               f.id = cursor, stage # "none", UNCHANGED <<log, arrived, cursor, dispatching>>,
               v \/ f.chan # 2 \/ stage' # "none"
        PROVE  Ahead'
    <2> SUFFICES ASSUME NEW g \in queue_incoming', Waits(g)'
                 PROVE  Before(g) /\ (dispatching => cursor < g.id)
      BY <1>c DEF Ahead
    <2>1. g \in queue_incoming /\ g # f
      <3>1. ~(SameFrame(f, g) /\ g.handled = v)
        BY <1>c DEF Waits, SameFrame
      <3> QED
        BY <1>c, <3>1, ReplaceFrom
    <2>2. g.id # cursor
      BY <1>c, <2>1 DEF Numbered
    <2> QED
      BY <2>1, <2>2 DEF Waits, Ahead
  <1>1. ASSUME NEW c \in Conns, aim_conn_kill(c) PROVE Ahead' /\ SnacsOnceInOrder'
    <2>1. queue_incoming \in SUBSET Frames
          /\ queue_incoming' = aim_rxqueue_cleanbyconn(queue_incoming, c)
      BY <1>1 DEF TypeOK, aim_conn_kill
    <2>2. \A g \in queue_incoming' : g \in queue_incoming \/ g.handled
      BY <2>1, CleanedFrom, Zenon
    <2> QED
      BY <1>1, <1>a, <1>b, <2>2 DEF aim_conn_kill
  <1>2. ASSUME NEW c \in Conns, aim_get_command(c) PROVE Ahead' /\ SnacsOnceInOrder'
    <2>1. PICK g : queue_incoming' = queue_incoming \cup {g} /\ g.id = Len(arrived) + 1
      BY <1>2, ArrivedGrows
    <2>2. UNCHANGED loopVars
      BY <1>2 DEF aim_get_command
    <2>3. \A k \in 1..Len(log) : /\ log[k] \in Nat /\ log[k] < Len(arrived) + 1
                                 /\ arrived'[log[k]] = arrived[log[k]]
      <3> TAKE k \in 1..Len(log)
      <3>1. log[k] \in 1..Len(arrived)
        BY DEF Numbered
      <3> QED
        BY <1>0, <1>2, <3>1, ArrivedGrows
    <2>4. cursor < Len(arrived) + 1
      BY <1>0
    <2>5. Ahead'
      BY <2>1, <2>2, <2>3, <2>4 DEF Ahead, Waits
    <2> QED
      BY <2>2, <2>3, <2>5 DEF SnacsOnceInOrder
  <1>3. ASSUME aim_rxdispatch PROVE Ahead' /\ SnacsOnceInOrder'
    <2>1. stage = "none" /\ cursor' = 0 /\ UNCHANGED <<log, arrived, queue_incoming, stage>>
      BY <1>3 DEF aim_rxdispatch, AtCallback
    <2> QED
      BY <1>a, <2>1, QueuedFrame DEF Ahead, Waits
  <1>4. ASSUME NEW f \in queue_incoming, DispatchSkip(f) PROVE Ahead' /\ SnacsOnceInOrder'
    <2>1. /\ dispatching /\ stage = "none" /\ cursor' = f.id /\ f.handled /\ IsNext(f)
          /\ UNCHANGED <<log, arrived, queue_incoming, stage, dispatching>>
      BY <1>4 DEF DispatchSkip, AtLoopHead
    <2>2. ASSUME NEW g \in queue_incoming, Waits(g)' PROVE Before(g) /\ f.id < g.id
      <3>1. g # f /\ Waits(g)
        BY <2>1, <2>2 DEF Waits
      <3>2. f.id \in Nat /\ g.id \in Nat /\ f.id # g.id
        BY <3>1, QueuedFrame DEF Numbered
      <3>3. Before(g) /\ cursor < g.id
        BY <2>1, <3>1 DEF Ahead
      <3>4. f.id <= g.id
        BY <2>1, <3>2, <3>3, <1>0 DEF IsNext
      <3> QED
        BY <3>2, <3>3, <3>4
    <2> QED
      BY <1>a, <2>1, <2>2 DEF Ahead
  <1>5. ASSUME NEW f \in queue_incoming, DispatchFrame(f) PROVE Ahead' /\ SnacsOnceInOrder'
    <2>1. /\ dispatching /\ stage = "none" /\ cursor' = f.id /\ ~f.handled /\ IsNext(f)
          /\ UNCHANGED <<arrived, dispatching>>
          /\ log' = Append(log, f.id) /\ stage' = FirstStage(f)
      BY <1>5 DEF DispatchFrame, AtLoopHead
    <2>2. f \in Frames /\ f.id \in Nat /\ arrived[f.id].chan = f.chan
      BY QueuedFrame
    <2>3. /\ Len(log') = Len(log) + 1 /\ log'[Len(log) + 1] = f.id
          /\ \A k \in 1..Len(log) : log'[k] = log[k]
      BY <2>1, <2>2, LogGrows
    <2>4. \A k \in 1..Len(log') : k \in 1..Len(log) \/ k = Len(log) + 1
      BY <1>0, <2>3
    <2>5. ASSUME f.chan = 2 PROVE Before(f)
      BY <2>1, <2>5 DEF Waits, Ahead
    <2>6. ASSUME NEW g \in queue_incoming', Waits(g)'
          PROVE  Before(g) /\ f.id < g.id
      <3>1. g \in queue_incoming /\ g # f
        <4>1. CASE FirstStage(f) = "none"
          <5>1. ~(SameFrame(f, g) /\ g.handled = TRUE)
            BY <2>6 DEF Waits
          <5> QED
            BY <1>5, <4>1, <5>1, ReplaceFrom DEF DispatchFrame
        <4>2. CASE FirstStage(f) # "none"
          BY <1>5, <2>1, <2>6, <4>2 DEF Waits, DispatchFrame
        <4> QED
          BY <4>1, <4>2
      <3>2. Waits(g)
        BY <2>1, <2>6 DEF Waits
      <3>3. g.id \in Nat /\ f.id # g.id
        BY <3>1, QueuedFrame DEF Numbered
      <3>4. Before(g) /\ cursor < g.id
        BY <2>1, <3>1, <3>2 DEF Ahead
      <3>5. f.id <= g.id
        BY <1>0, <2>1, <2>2, <3>1, <3>3, <3>4 DEF IsNext
      <3> QED
        BY <2>2, <3>3, <3>4, <3>5
    <2>7. Ahead'
      <3> SUFFICES ASSUME NEW g \in queue_incoming', Waits(g)'
                   PROVE  /\ \A k \in 1..Len(log') : arrived[log'[k]].chan = 2 => log'[k] < g.id
                          /\ f.id < g.id
        BY <2>1 DEF Ahead
      <3> QED
        BY <2>3, <2>4, <2>6
    <2>8. SnacsOnceInOrder'
      <3> SUFFICES ASSUME NEW j \in 1..Len(log'), NEW k \in 1..Len(log'), j < k,
                          arrived[log'[j]].chan = 2, arrived[log'[k]].chan = 2
                   PROVE  log'[j] < log'[k]
        BY <2>1 DEF SnacsOnceInOrder
      <3>1. j \in 1..Len(log)
        BY <1>0, <2>3
      <3>2. CASE k \in 1..Len(log)
        BY <2>3, <3>1, <3>2 DEF SnacsOnceInOrder
      <3>3. CASE k = Len(log) + 1
        BY <2>2, <2>3, <2>5, <3>1, <3>3
      <3> QED
        BY <2>4, <3>2, <3>3
    <2> QED
      BY <2>7, <2>8
  <1>6. ASSUME NEW f \in queue_incoming, LastChanceReturns(f) PROVE Ahead' /\ SnacsOnceInOrder'
    BY <1>6, <1>a, <1>c DEF LastChanceReturns
  <1>7. ASSUME NEW f \in queue_incoming, NEW r \in {0, 1}, PlainReturns(f, r)
        PROVE  Ahead' /\ SnacsOnceInOrder'
    <2>1. f.id = cursor /\ stage # "none" /\ stage \in {"flapver", "negchan"}
      BY <1>7 DEF PlainReturns, Returning
    <2>2. f.chan # 2
      BY <2>1, QueuedFrame DEF AtCallback
    <2> QED
      BY <1>7, <1>a, <1>c, <2>1, <2>2 DEF PlainReturns
  <1>8. ASSUME NEW f \in queue_incoming, NEW r \in {0, 1}, SnacTaken(f, r)
        PROVE  Ahead' /\ SnacsOnceInOrder'
    BY <1>8, <1>a, <1>c DEF SnacTaken, InModule, Returning
  <1>9. ASSUME NEW f \in queue_incoming, NEW r \in {0, 1}, SnacLastChance(f, r)
        PROVE  Ahead' /\ SnacsOnceInOrder'
    BY <1>9, <1>a, <1>c DEF SnacLastChance, InModule, Returning
  <1>10. ASSUME DispatchEnd PROVE Ahead' /\ SnacsOnceInOrder'
    BY <1>10, <1>a DEF DispatchEnd, aim_purge_rxqueue, AtLoopHead, Ahead, Waits
  <1>12. ASSUME NEW f \in queue_incoming, NEW r \in {0, 1}, SnacNextModule(f, r)
         PROVE  Ahead' /\ SnacsOnceInOrder'
    BY <1>12, <1>a DEF SnacNextModule, InModule, Ahead, Waits
  <1>11. ASSUME UNCHANGED <<queue_incoming, log, arrived, stage, cursor, dispatching>>
         PROVE  Ahead' /\ SnacsOnceInOrder'
    BY <1>11, <1>a, <1>b
  <1> QED
    BY <1>1, <1>2, <1>3, <1>4, <1>5, <1>6, <1>7, <1>8, <1>9, <1>10, <1>11, <1>12 DEF Next,
       ClientNext, DispatchNext, aim_newconn, aim_conn_close, GetCommandFails,
       NextEntry, vars

LEMMA InitInv == Init => IInv
  <1> SUFFICES ASSUME Init PROVE IInv
    OBVIOUS
  <1>1. Len(arrived) = 0 /\ Len(log) = 0 /\ queue_incoming = {} /\ cursor = 0 /\ stage = "none"
    BY DEF Init
  <1>2. Numbered /\ NoFrameLost /\ SnacsOnceInOrder
    BY <1>1 DEF Numbered, NoFrameLost, SnacsOnceInOrder
  <1>3. AtCallback /\ Accounted /\ Ahead
    BY <1>1 DEF AtCallback, Accounted, Ahead
  <1> QED
    BY <1>2, <1>3, InitType DEF IInv

LEMMA InvStep == IInv /\ [Next]_vars => IInv'
  <1> SUFFICES ASSUME IInv, [Next]_vars PROVE IInv'
    OBVIOUS
  <1> USE DEF IInv
  <1>1. TypeOK'
    BY TypeStep
  <1>2. Numbered'
    BY NumberedStep
  <1>3. AtCallback'
    BY CallbackStep
  <1>4. Accounted' /\ NoFrameLost'
    BY AccountedStep, LostStep
  <1>5. Ahead' /\ SnacsOnceInOrder'
    BY OrderStep
  <1> QED
    BY <1>1, <1>2, <1>3, <1>4, <1>5

\* Whatever the callbacks return, kill, open and read, no frame of a connection that
\* still exists gets lost: aim_purge_rxqueue (rxqueue.c:474-491) drops a frame only
\* after it was handed to a handler or its connection was killed.
THEOREM NothingLost == Spec => []NoFrameLost
  <1>1. IInv => NoFrameLost
    BY DEF IInv
  <1> QED
    BY <1>1, InitInv, InvStep, PTL DEF Spec

\* SNACs are handed out once and in the order of their arrival over all connections,
\* although the walk over the list (rxhandlers.c:517-596) starts at its head each time
\* and what it passes may stay in line.
THEOREM OnceInOrder == Spec => []SnacsOnceInOrder
  <1>1. IInv => SnacsOnceInOrder
    BY DEF IInv
  <1> QED
    BY <1>1, InitInv, InvStep, PTL DEF Spec

-----------------------------------------------------------------------------
(* No dangling pointer is followed *)

\* A frame that is still to be handled belongs to a connection that exists.
Live == \A f \in queue_incoming : ~f.handled => ~Dangling(f)

\* Nothing has marked the frame whose entries are being handed to the client.
Entering == stage = "entry" => \A f \in queue_incoming : f.id = cursor => ~f.handled

LEMMA EnteringStep ==
    ASSUME ~EntryKills, TypeOK, Numbered, AtCallback, Entering, [Next]_vars
    PROVE  Entering'
  <1> USE DEF connVars, loopVars
  <1>a. ASSUME stage' # "entry" PROVE Entering'
    BY <1>a DEF Entering
  <1>b. ASSUME UNCHANGED <<stage, cursor>>,
               \A g \in queue_incoming' : g \in queue_incoming \/ ~g.handled
        PROVE  Entering'
    BY <1>b DEF Entering
  <1>1. ASSUME NEW c \in Conns, aim_conn_kill(c) PROVE Entering'
    <2> SUFFICES ASSUME stage = "entry", NEW g \in queue_incoming', g.id = cursor
                 PROVE  ~g.handled
      BY <1>1 DEF Entering, aim_conn_kill
    <2>1. \A f \in queue_incoming : f.id = cursor => f.conn # c
      BY <1>1 DEF aim_conn_kill, AtEntryOf
    <2>2. queue_incoming \in SUBSET Frames /\ g \in aim_rxqueue_cleanbyconn(queue_incoming, c)
      BY <1>1 DEF aim_conn_kill, TypeOK
    <2>3. /\ \E f \in queue_incoming : SameFrame(f, g)
          /\ g \in queue_incoming \/ (g.conn = c /\ g.handled)
      BY <2>2, CleanedFrom, Zenon
    <2>4. g \in queue_incoming
      BY <2>1, <2>3 DEF SameFrame
    <2> QED
      BY <2>4 DEF Entering
  <1>2. ASSUME NEW c \in Conns, aim_get_command(c) PROVE Entering'
    <2>1. PICK g : queue_incoming' = queue_incoming \cup {g} /\ ~g.handled
      BY <1>2, ArrivedGrows
    <2>2. UNCHANGED <<stage, cursor>>
      BY <1>2 DEF aim_get_command
    <2> QED
      BY <1>b, <2>1, <2>2
  <1>3. ASSUME NEW f \in queue_incoming, DispatchFrame(f) PROVE Entering'
    <2>1. CASE FirstStage(f) = "none"
      BY <1>3, <1>a, <2>1 DEF DispatchFrame
    <2>2. CASE FirstStage(f) # "none"
      <3>1. ~f.handled /\ cursor' = f.id /\ queue_incoming' = queue_incoming
        BY <1>3, <2>2 DEF DispatchFrame
      <3>2. \A g \in queue_incoming : g.id = f.id => g = f
        BY DEF Numbered
      <3> QED
        BY <3>1, <3>2 DEF Entering
    <2> QED
      BY <2>1, <2>2
  <1>4. ASSUME UNCHANGED <<stage, cursor, queue_incoming>> PROVE Entering'
    BY <1>4, <1>b
  <1>5. ASSUME stage = "none", UNCHANGED stage PROVE Entering'
    BY <1>5, <1>a
  <1>6. ASSUME aim_rxdispatch PROVE Entering'
    BY <1>6, <1>a DEF aim_rxdispatch, AtCallback
  <1> QED
    BY <1>1, <1>2, <1>3, <1>4, <1>5, <1>6, <1>a DEF Next, ClientNext, DispatchNext, aim_newconn,
       aim_conn_close, GetCommandFails, DispatchSkip, NextEntry, LastChanceReturns,
       PlainReturns, SnacTaken, SnacNextModule, SnacLastChance, DispatchEnd, AtLoopHead, vars

LEMMA LiveStep ==
    ASSUME 0 \notin KillReturns, TypeOK, Entering, Live, ~badref, [Next]_vars
    PROVE  Live' /\ ~badref'
  <1> USE DEF connVars, loopVars
  <1>0. \A f \in queue_incoming : f \in Frames /\ f.conn \in Conns /\ f.handled \in BOOLEAN
    BY DEF TypeOK, Frames
  <1>a. ASSUME UNCHANGED <<connlist, gen>>, NEW f \in queue_incoming, NEW v \in BOOLEAN,
               queue_incoming' = Replace(f, v), v \/ ~f.handled
        PROVE  Live'
    <2>1. ASSUME NEW g \in queue_incoming', ~g.handled PROVE ~Dangling(g)'
      <3>1. CASE g \in queue_incoming
        BY <1>a, <2>1, <3>1 DEF Live, Dangling
      <3>2. CASE SameFrame(f, g) /\ g.handled = v
        BY <1>a, <2>1, <3>2 DEF Live, Dangling, SameFrame
      <3> QED
        BY <1>a, <3>1, <3>2, ReplaceFrom
    <2> QED
      BY <2>1 DEF Live
  <1>b. ASSUME UNCHANGED <<connlist, gen, queue_incoming>> PROVE Live'
    BY <1>b DEF Live, Dangling
  <1>c. ASSUME NEW f \in queue_incoming, ~f.handled, Deref(f) PROVE ~badref'
    BY <1>c DEF Live, Deref
  <1>1. ASSUME NEW c \in Conns, aim_newconn(c) PROVE Live' /\ ~badref'
    BY <1>1, <1>0 DEF Live, Dangling, aim_newconn, TypeOK
  <1>2. ASSUME NEW c \in Conns, aim_conn_close(c) PROVE Live' /\ ~badref'
    BY <1>2, <1>b DEF aim_conn_close
  <1>3. ASSUME NEW c \in Conns, aim_conn_kill(c) PROVE Live' /\ ~badref'
    <2>1. ASSUME NEW g \in queue_incoming', ~g.handled PROVE ~Dangling(g)'
      <3>1. g \in queue_incoming /\ g.conn # c
        BY <1>3, <2>1, CleanedFrom DEF aim_conn_kill, TypeOK
      <3> QED
        BY <1>3, <2>1, <3>1 DEF Live, Dangling, aim_conn_kill
    <2> QED
      BY <1>3, <2>1 DEF Live, aim_conn_kill
  <1>4. ASSUME NEW c \in Conns, aim_get_command(c) PROVE Live' /\ ~badref'
    <2>1. PICK k : queue_incoming' = queue_incoming \cup {NewFrame(c, k)}
      BY <1>4 DEF aim_get_command, NewFrame
    <2>2. NewFrame(c, k).conn = c /\ NewFrame(c, k).gen = gen[c]
      BY DEF NewFrame
    <2>3. c \in connlist /\ UNCHANGED <<connlist, gen, badref>>
      BY <1>4 DEF aim_get_command
    <2> QED
      BY <2>1, <2>2, <2>3 DEF Live, Dangling
  <1>5. ASSUME NEW c \in Conns, GetCommandFails(c) PROVE Live' /\ ~badref'
    BY <1>5, <1>b DEF GetCommandFails
  <1>6. ASSUME aim_rxdispatch PROVE Live' /\ ~badref'
    BY <1>6, <1>b DEF aim_rxdispatch
  <1>7. ASSUME NEW f \in queue_incoming, DispatchSkip(f) PROVE Live' /\ ~badref'
    BY <1>7, <1>b DEF DispatchSkip
  <1>8. ASSUME NEW f \in queue_incoming, DispatchFrame(f) PROVE Live' /\ ~badref'
    BY <1>8, <1>a, <1>b, <1>c DEF DispatchFrame
  <1>9. ASSUME NEW f \in queue_incoming, LastChanceReturns(f) PROVE Live' /\ ~badref'
    BY <1>9, <1>a DEF LastChanceReturns
  <1>10. ASSUME NEW f \in queue_incoming, NEW r \in {0, 1}, PlainReturns(f, r)
         PROVE  Live' /\ ~badref'
    <2>1. r = 1 \/ ~f.handled
      BY <1>10 DEF PlainReturns, Returning
    <2> QED
      BY <1>10, <1>a, <2>1 DEF PlainReturns
  <1>11. ASSUME NEW f \in queue_incoming, NEW r \in {0, 1}, SnacTaken(f, r)
         PROVE  Live' /\ ~badref'
    BY <1>11, <1>a DEF SnacTaken
  <1>12. ASSUME NEW f \in queue_incoming, NEW r \in {0, 1}, SnacNextModule(f, r)
         PROVE  Live' /\ ~badref'
    <2>1. ~f.handled
      BY <1>12 DEF SnacNextModule, Returning
    <2> QED
      BY <1>12, <1>b, <1>c, <2>1 DEF SnacNextModule
  <1>13. ASSUME NEW f \in queue_incoming, NEW r \in {0, 1}, SnacLastChance(f, r)
         PROVE  Live' /\ ~badref'
    <2>1. ~f.handled
      BY <1>13 DEF SnacLastChance, Returning
    <2> QED
      BY <1>13, <1>a, <1>c, <2>1 DEF SnacLastChance
  <1>14. ASSUME DispatchEnd PROVE Live' /\ ~badref'
    BY <1>14 DEF Live, Dangling, DispatchEnd, aim_purge_rxqueue
  <1>15. ASSUME NEW f \in queue_incoming, NextEntry(f) PROVE Live' /\ ~badref'
    <2>1. ~f.handled
      BY <1>15 DEF NextEntry, Entering
    <2> QED
      BY <1>15, <1>b, <1>c, <2>1 DEF NextEntry
  <1>16. CASE UNCHANGED vars
    BY <1>16, <1>b DEF vars
  <1> QED
    BY <1>1, <1>2, <1>3, <1>4, <1>5, <1>6, <1>7, <1>8, <1>9, <1>10, <1>11, <1>12,
       <1>13, <1>14, <1>15, <1>16 DEF Next, ClientNext, DispatchNext

\* If a callback that kills its own connection returns nonzero, and none that is made
\* for one of several entries of a SNAC kills it, aim_rxdispatch, consumesnac and the
\* handlers never follow a pointer to a freed connection, however many frames of that
\* connection still wait and however many other connections callbacks kill
\* (rxqueue.c:493-509).  Neither rule can be dropped: the next module looks its callback
\* up through rx->conn after a 0, and missedcall and infochange do so for the next entry
\* whatever was returned (im.c:1740, admin.c:40).
THEOREM NoDangling ==
    ASSUME 0 \notin KillReturns, ~EntryKills
    PROVE  Spec => []NoDanglingDispatch
  <1> DEFINE Inv == TypeOK /\ Numbered /\ AtCallback /\ Entering /\ Live /\ ~badref
  <1>1. Init => Inv
    <2>1. Init => Entering /\ Live /\ ~badref
      BY DEF Init, Live, Entering
    <2> QED
      BY <2>1, InitInv DEF IInv
  <1>2. Inv /\ [Next]_vars => Inv'
    BY LiveStep, TypeStep, NumberedStep, CallbackStep, EnteringStep
  <1>3. Inv => NoDanglingDispatch
    BY DEF NoDanglingDispatch
  <1> QED
    BY <1>1, <1>2, <1>3, PTL DEF Spec
=============================================================================
