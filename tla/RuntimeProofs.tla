----------------------------- MODULE RuntimeProofs -----------------------------
(***************************************************************************)
(* Theorems of Runtime for every finite set of channels and of orders and   *)
(* every backlog.                                                           *)
(*                                                                          *)
(* The properties are not inductive: they need to know how far the parts    *)
(* have come when run_workflows is in a phase (Phases), why a connection or *)
(* a price stream is up (Up), where what raised was recorded (Accounted),   *)
(* and that a running order is awaited by a handler until another order of  *)
(* its notice raises (Held).                                                *)
(***************************************************************************)
EXTENDS Runtime, TLAPS

\* What has been started and stopped in each phase.
Phases ==
    /\ phase = "controller" =>
           controller = "new" /\ \A c \in Channels : channel[c] = "new"
    /\ phase \in {"channels", "running"} => controller = "open"
    /\ phase \in {"controller", "channels"} => transport = "new"
    /\ phase = "running" => transport \in {"running", "returned", "raised"}
    /\ controller = "new" =>
           \A c \in Channels : channel[c] \in {"new", "stopped"}
    /\ phase \in {"draining", "closing", "ended"} => transport = "ended"
    /\ phase \in {"closing", "ended"} => \A c \in Channels : Over(c)
    /\ (controller = "closed") <=> (phase = "ended")

\* What is up is there to be used, or its own stop failed.
Up ==
    /\ connected => transport = "running" \/ "disconnect" \in faults
    /\ streaming => controller = "open" \/ "stream" \in faults

\* A channel without a worker has no handler.
Staffed == \A c \in Channels : channel[c] \in {"new", "stopped"} => awaited[c] = {}

Placed == \A c \in Channels : \A o \in awaited[c] : order[o] # "none"

Held ==
    \A o \in Orders :
        order[o] = "running" =>
            \/ \E c \in Channels : o \in awaited[c]
            \/ \E p \in notice[o] : order[p] = "raised"

\* Whatever raised has left a trace in the state run_workflows decides on.
Accounted ==
    /\ "body" \in faults => failed
    /\ "cleanup" \in faults => errors
    /\ "stream" \in faults => failed \/ errors
    /\ "listener" \in faults => transport \in {"raised", "ended"}

IInv == TypeOK /\ Phases /\ Up /\ Accounted /\ Staffed /\ Placed /\ Held

-----------------------------------------------------------------------------
LEMMA InitInv == Init => IInv
<1>. SUFFICES ASSUME Init PROVE IInv
  OBVIOUS
<1>1. TypeOK
  <2>1. 0 \in 0..Backlog
    BY RuntimeAssumption
  <2>2. \A c \in Channels : awaited[c] = {}
    BY DEF Init
  <2>. QED
    BY <2>1, <2>2 DEF Init, TypeOK
<1>2. Phases /\ Up /\ Accounted
  BY DEF Init, Phases, Up, Accounted
<1>3. Staffed /\ Placed /\ Held
  BY DEF Init, Staffed, Placed, Held
<1>. QED
  BY <1>1, <1>2, <1>3 DEF IInv

\* What only concerns the orders is kept by the steps that leave them alone.
LEMMA TradingKept ==
    ASSUME IInv, UNCHANGED trading
    PROVE  Placed' /\ Held'
  BY DEF IInv, Placed, Held, trading

\* A running order of a handler that is over has a raised sibling.
LEMMA OverByRaising ==
    ASSUME IInv, NEW c \in Channels, HandlerOver(awaited[c]),
           NEW o \in awaited[c], order[o] = "running"
    PROVE  \E p \in notice[o] : order[p] = "raised"
<1>1. \E p \in awaited[c] : order[p] = "raised"
  BY DEF HandlerOver
<1>2. awaited[c] = notice[o]
  BY DEF IInv, TypeOK
<1>. QED
  BY <1>1, <1>2

-----------------------------------------------------------------------------
\* The steps of run_workflows up to the end of its try block.
LEMMA BodyKeepsInv ==
    ASSUME IInv, \/ Startup \/ RequestShutdown
                 \/ ConnectionChanges \/ TransportEnds
                 \/ WaitEnds \/ CancelWait
    PROVE  IInv'
<1>1. CASE StartController
  <2>1. TypeOK'
    BY <1>1 DEF StartController, IInv, TypeOK, trading
  <2>2. Phases' /\ Up'
    BY <1>1 DEF StartController, IInv, Phases, Up, Over
  <2>3. Accounted' /\ Staffed'
    BY <1>1 DEF StartController, IInv, Phases, Accounted, Staffed, trading
  <2>. QED
    BY <1>1, <2>1, <2>2, <2>3, TradingKept DEF StartController, IInv
<1>2. CASE StartTransport
  BY <1>2, TradingKept
  DEF StartTransport, IInv, TypeOK, Phases, Up, Accounted, Staffed, Over, trading
<1>3. ASSUME NEW c \in Channels, StartChannel(c) PROVE IInv'
  BY <1>3, TradingKept
  DEF StartChannel, BodyRaises, IInv, TypeOK, Phases, Up, Accounted, Staffed, Over,
      run, trading
<1>4. CASE RequestShutdown
  BY <1>4, TradingKept
  DEF RequestShutdown, IInv, TypeOK, Phases, Up, Accounted, Staffed, Over, parts,
      trading
<1>5. CASE TransportEnds
  BY <1>5, TradingKept
  DEF TransportEnds, ListenerDisconnects, IInv, TypeOK, Phases, Up, Accounted,
      Staffed, Over, run, trading
<1>6. CASE WaitEnds
  <2>1. /\ phase = "running" /\ phase' = "transport"
        /\ stop_event' = TRUE /\ UNCHANGED errors
        /\ UNCHANGED <<parts, trading>>
        /\ \/ failed' = TRUE /\ faults' = faults \cup {"body"}
           \/ failed' = failed /\ faults' = faults
    BY <1>6 DEF WaitEnds, BodyRaises
  <2>. QED
    BY <2>1, TradingKept
    DEF IInv, TypeOK, Phases, Up, Accounted, Staffed, Over, parts, trading
<1>7. CASE CancelWait
  BY <1>7, TradingKept
  DEF CancelWait, BodyRaises, IInv, TypeOK, Phases, Up, Accounted, Staffed, Over,
      parts, trading
<1>8. CASE ConnectionChanges
  BY <1>8, TradingKept
  DEF ConnectionChanges, IInv, TypeOK, Phases, Up, Accounted, Staffed, Over, run,
      trading
<1>. QED
  BY <1>1, <1>2, <1>3, <1>4, <1>5, <1>6, <1>7, <1>8 DEF Startup

\* The steps of the finally block.
LEMMA CleanupKeepsInv ==
    ASSUME IInv, Cleanup
    PROVE  IInv'
<1>1. CASE StopTransport
  BY <1>1, TradingKept
  DEF StopTransport, TransportStopped, StopRaises, IInv, TypeOK, Phases,
      Up, Accounted, Staffed, Over, trading
<1>2. CASE CancelTasks
  <2>1. TypeOK'
    BY <1>2 DEF CancelTasks, ListenerDisconnects, IInv, TypeOK, trading
  <2>2. Phases' /\ Up'
    BY <1>2 DEF CancelTasks, ListenerDisconnects, IInv, TypeOK, Phases, Up, Over
  <2>3. Accounted' /\ Staffed'
    BY <1>2 DEF CancelTasks, ListenerDisconnects, IInv, Accounted, Staffed, trading
  <2>. QED
    BY <1>2, <2>1, <2>2, <2>3, TradingKept DEF CancelTasks, IInv
<1>3. CASE ChannelsStopped
  BY <1>3, TradingKept
  DEF ChannelsStopped, ChannelsOver, IInv, TypeOK, Phases, Up, Accounted, Staffed,
      Over, parts, trading
<1>4. CASE CloseController
  <2>1. TypeOK'
    BY <1>4 DEF CloseController, IInv, TypeOK, trading
  <2>2. Phases' /\ Up'
    BY <1>4 DEF CloseController, IInv, TypeOK, Phases, Up, Over
  <2>3. Accounted' /\ Staffed'
    BY <1>4 DEF CloseController, IInv, Accounted, Staffed, trading
  <2>. QED
    BY <1>4, <2>1, <2>2, <2>3, TradingKept DEF CloseController, IInv
<1>5. ASSUME NEW c \in Channels, StopChannel(c) PROVE IInv'
  BY <1>5, TradingKept
  DEF StopChannel, StopRaises, IInv, TypeOK, Phases, Up, Accounted, Staffed, Over,
      trading
<1>6. ASSUME NEW c \in Channels, ChannelStopped(c) PROVE IInv'
  BY <1>6, TradingKept
  DEF ChannelStopped, IInv, TypeOK, Phases, Up, Accounted, Staffed, Over, run, trading
<1>. QED
  BY <1>1, <1>2, <1>3, <1>4, <1>5, <1>6 DEF Cleanup

\* A notice is taken: its orders are fresh, hence awaited by no other handler.
LEMMA HandleKeepsInv ==
    ASSUME IInv, NEW c \in Channels, Handle(c)
    PROVE  IInv'
<1>1. PICK placed \in SUBSET Fresh :
          /\ awaited' = [awaited EXCEPT ![c] = placed]
          /\ order' = [o \in Orders |->
                          IF o \in placed THEN "running" ELSE order[o]]
          /\ notice' = [o \in Orders |->
                           IF o \in placed THEN placed ELSE notice[o]]
  BY DEF Handle
<1>2. placed \subseteq Orders /\ \A o \in placed : order[o] = "none"
  BY DEF Fresh
<1>3. /\ Working(c) /\ queued[c] > 0 /\ awaited[c] = {}
      /\ queued' = [queued EXCEPT ![c] = @ - 1]
      /\ UNCHANGED <<run, parts, faults>>
  BY DEF Handle, Pending
<1>4. awaited \in [Channels -> SUBSET Orders]
  BY DEF IInv, TypeOK
<1>5. /\ awaited'[c] = placed
      /\ \A d \in Channels \ {c} : awaited'[d] = awaited[d]
  BY <1>1, <1>4
<1>6. TypeOK'
  <2>1. queued' \in [Channels -> 0..Backlog]
    BY <1>3, RuntimeAssumption DEF IInv, TypeOK
  <2>2. /\ awaited' \in [Channels -> SUBSET Orders]
        /\ order' \in [Orders -> {"none", "running", "ok", "raised", "cut"}]
        /\ notice' \in [Orders -> SUBSET Orders]
    BY <1>1, <1>2 DEF IInv, TypeOK
  <2>3. ASSUME NEW d \in Channels, NEW o \in awaited'[d]
        PROVE  awaited'[d] = notice'[o]
    <3>1. CASE d = c
      BY <1>1, <1>2, <1>5, <3>1
    <3>2. CASE d # c
      <4>1. o \in awaited[d] /\ awaited'[d] = awaited[d]
        BY <1>5, <3>2
      <4>2. o \in Orders /\ order[o] # "none" /\ awaited[d] = notice[o]
        BY <4>1 DEF IInv, TypeOK, Placed
      <4>3. notice'[o] = notice[o]
        BY <1>1, <1>2, <4>2
      <4>. QED
        BY <4>1, <4>2, <4>3
    <3>. QED
      BY <3>1, <3>2
  <2>. QED
    BY <1>3, <2>1, <2>2, <2>3 DEF IInv, TypeOK, run, parts
<1>7. Phases' /\ Up' /\ Accounted'
  BY <1>3 DEF IInv, Phases, Up, Accounted, Over, run, parts
<1>8. Staffed'
  BY <1>3, <1>5 DEF IInv, Staffed, Working, parts
<1>9. Placed'
  <2>. SUFFICES ASSUME NEW d \in Channels, NEW o \in awaited'[d]
                PROVE  order'[o] # "none"
    BY DEF Placed
  <2>1. CASE d = c
    BY <1>1, <1>2, <1>5, <2>1
  <2>2. CASE d # c
    BY <1>1, <1>4, <1>5, <2>2 DEF IInv, Placed
  <2>. QED
    BY <2>1, <2>2
<1>10. Held'
  <2>. SUFFICES ASSUME NEW o \in Orders, order'[o] = "running"
                PROVE  \/ \E d \in Channels : o \in awaited'[d]
                       \/ \E p \in notice'[o] : order'[p] = "raised"
    BY DEF Held
  <2>1. CASE o \in placed
    BY <1>5, <2>1
  <2>2. CASE o \notin placed
    <3>1. order[o] = "running" /\ notice'[o] = notice[o]
      BY <1>1, <2>2
    <3>2. CASE \E d \in Channels : o \in awaited[d]
      BY <1>3, <1>5, <3>2
    <3>3. ASSUME NEW p \in notice[o], order[p] = "raised"
          PROVE  order'[p] = "raised"
      <4>1. p \in Orders
        BY DEF IInv, TypeOK
      <4>. QED
        BY <1>1, <1>2, <3>3, <4>1
    <3>. QED
      BY <3>1, <3>2, <3>3 DEF IInv, Held
  <2>. QED
    BY <2>1, <2>2
<1>. QED
  BY <1>6, <1>7, <1>8, <1>9, <1>10 DEF IInv

\* The other steps of a channel, of an order and of the loop.
LEMMA TradingKeepsInv ==
    ASSUME IInv, \/ \E c \in Channels : Receive(c) \/ HandlerEnds(c)
                 \/ \E o \in Orders : OrderEnds(o)
                 \/ LoopCloses
    PROVE  IInv'
<1>1. ASSUME NEW c \in Channels, Receive(c) PROVE IInv'
  <2>1. queued' \in [Channels -> 0..Backlog]
    BY <1>1, RuntimeAssumption DEF Receive, IInv, TypeOK
  <2>. QED
    BY <1>1, <2>1
    DEF Receive, IInv, TypeOK, Phases, Up, Accounted, Staffed, Placed, Held, Over,
        run, parts
<1>2. ASSUME NEW c \in Channels, HandlerEnds(c) PROVE IInv'
  <2>1. awaited' = [awaited EXCEPT ![c] = {}]
        /\ UNCHANGED <<run, parts, queued, order, notice, faults>>
    BY <1>2 DEF HandlerEnds
  <2>2. TypeOK' /\ Phases' /\ Up' /\ Accounted' /\ Staffed' /\ Placed'
    BY <2>1 DEF IInv, TypeOK, Phases, Up, Accounted, Staffed, Placed, Over, run, parts
  <2>3. Held'
    <3>. SUFFICES ASSUME NEW o \in Orders, order[o] = "running"
                  PROVE  \/ \E d \in Channels : o \in awaited'[d]
                         \/ \E p \in notice[o] : order[p] = "raised"
      BY <2>1 DEF Held
    <3>1. CASE o \in awaited[c]
      BY <1>2, <3>1, OverByRaising DEF HandlerEnds
    <3>2. CASE \E d \in Channels : d # c /\ o \in awaited[d]
      BY <2>1, <3>2 DEF IInv, TypeOK
    <3>. QED
      BY <3>1, <3>2 DEF IInv, Held
  <2>. QED
    BY <2>2, <2>3 DEF IInv
<1>3. ASSUME NEW o \in Orders, OrderEnds(o) PROVE IInv'
  <2>1. PICK result \in {"ok", "raised"} : order' = [order EXCEPT ![o] = result]
    BY <1>3 DEF OrderEnds
  <2>2. /\ order[o] = "running"
        /\ UNCHANGED <<run, parts, queued, awaited, notice, faults>>
    BY <1>3 DEF OrderEnds
  <2>3. TypeOK' /\ Phases' /\ Up' /\ Accounted' /\ Staffed' /\ Placed'
    BY <2>1, <2>2 DEF IInv, TypeOK, Phases, Up, Accounted, Staffed, Placed, Over,
        run, parts
  <2>4. ASSUME NEW q \in Orders, order'[q] = "running"
        PROVE  \/ \E d \in Channels : q \in awaited[d]
               \/ \E p \in notice[q] : order'[p] = "raised"
    <3>1. order[q] = "running"
      BY <2>1, <2>4 DEF IInv, TypeOK
    <3>2. ASSUME NEW p \in notice[q], order[p] = "raised"
          PROVE  order'[p] = "raised"
      BY <2>1, <2>2, <3>2 DEF IInv, TypeOK
    <3>. QED
      BY <3>1, <3>2 DEF IInv, Held
  <2>. QED
    BY <2>2, <2>3, <2>4 DEF IInv, Held
<1>4. CASE LoopCloses
  <2>1. /\ phase = "ended"
        /\ order' = [o \in Orders |->
                        IF order[o] = "running" THEN "cut" ELSE order[o]]
        /\ awaited' = [c \in Channels |-> {}]
        /\ queued' = [c \in Channels |-> 0]
        /\ UNCHANGED <<run, parts, notice, faults>>
    BY <1>4 DEF LoopCloses
  <2>. QED
    BY <2>1, RuntimeAssumption
    DEF IInv, TypeOK, Phases, Up, Accounted, Staffed, Placed, Held, Over, run, parts
<1>. QED
  BY <1>1, <1>2, <1>3, <1>4

LEMMA Invariance == Spec => []IInv
<1>1. IInv /\ [Next]_vars => IInv'
  <2>. SUFFICES ASSUME IInv, [Next]_vars PROVE IInv'
    OBVIOUS
  <2>1. CASE Next
    BY <2>1, BodyKeepsInv, CleanupKeepsInv, HandleKeepsInv, TradingKeepsInv
    DEF Next
  <2>2. CASE UNCHANGED vars
    BY <2>2
    DEF vars, run, parts, trading, IInv, TypeOK, Phases, Up, Accounted, Staffed,
        Placed, Held, Over
  <2>. QED
    BY <2>1, <2>2
<1>. QED
  BY <1>1, InitInv, PTL DEF Spec

-----------------------------------------------------------------------------
\* Whatever raises and whenever, every variable keeps its type, and the orders
\* a handler awaits are those of one notice.
THEOREM TypeCorrect == Spec => []TypeOK
<1>1. IInv => TypeOK
  BY DEF IInv
<1>. QED
  BY <1>1, Invariance, PTL

\* The finally block of run_workflows leaves no task running and no stop out,
\* whatever raised before; a connection or a price stream that is still up then
\* is one whose own stop failed.
THEOREM CleanupAlwaysComplete == Spec => []CleanupComplete
<1>1. IInv => CleanupComplete
  BY DEF IInv, Phases, Up, Accounted, CleanupComplete
<1>. QED
  BY <1>1, Invariance, PTL

\* The drain of the channels holds the controller open for every order but
\* those gather abandoned, unless the stop of a channel raised.
THEOREM NothingElseOutlives == Spec => []OnlyAbandonedOutlive
<1>1. ASSUME IInv PROVE OnlyAbandonedOutlive
  <2>. SUFFICES ASSUME controller = "closed", NoStopBroken,
                       NEW o \in Orders, order[o] = "running"
                PROVE  \E p \in notice[o] : order[p] = "raised"
    BY DEF OnlyAbandonedOutlive
  <2>1. \A c \in Channels : channel[c] = "stopped"
    BY <1>1 DEF IInv, Phases, Over, NoStopBroken
  <2>2. \A c \in Channels : awaited[c] = {}
    BY <1>1, <2>1 DEF IInv, Staffed
  <2>. QED
    BY <1>1, <2>2 DEF IInv, Held
<1>. QED
  BY <1>1, Invariance, PTL

\* Startup and cleanup order the controller around the channels: no handler
\* places an order before it is open or after it is closed, unless the stop of
\* a channel raised.
THEOREM OrdersOnOpenController == Spec => OrdersFindControllerOpen
<1>. DEFINE Safe ==
         \A o \in Orders :
             NoStopBroken /\ order[o] = "none" /\ order'[o] = "running"
                 => controller = "open"
<1>1. ASSUME IInv, [Next]_vars PROVE Safe
  <2>. SUFFICES ASSUME NoStopBroken, NEW o \in Orders,
                       order[o] = "none", order'[o] = "running"
                PROVE  controller = "open"
    OBVIOUS
  <2>1. PICK c \in Channels : Handle(c)
    <3>1. order' # order
      OBVIOUS
    <3>2. ~LoopCloses
      BY DEF LoopCloses
    <3>3. \A q \in Orders : ~OrderEnds(q)
      BY <1>1 DEF OrderEnds, IInv, TypeOK
    <3>. QED
      BY <1>1, <3>1, <3>2, <3>3
      DEF Next, Startup, StartController, StartTransport, StartChannel,
          RequestShutdown, ConnectionChanges, TransportEnds, WaitEnds,
          CancelWait, Receive,
          HandlerEnds, Cleanup, StopTransport, CancelTasks, ChannelsStopped,
          CloseController, StopChannel, ChannelStopped, vars, trading
  <2>2. channel[c] \in {"open", "draining"}
    BY <2>1 DEF Handle, Working, NoStopBroken
  <2>3. controller # "new"
    BY <1>1, <2>2 DEF IInv, Phases
  <2>4. controller # "closed"
    BY <1>1, <2>2 DEF IInv, Phases, Over
  <2>. QED
    BY <1>1, <2>3, <2>4 DEF IInv, TypeOK
<1>2. IInv /\ [Next]_vars => [Safe]_vars
  BY <1>1
<1>. QED
  BY <1>2, Invariance, PTL DEF Spec, OrdersFindControllerOpen

\* A run that ends without an error had no failed start and no failed stop, and
\* a connection that was lost before the shutdown is reported.
THEOREM FailuresReported == Spec => SilentOnlyWhenClean
<1>. DEFINE Clean ==
         /\ Returned => faults \subseteq {"listener", "disconnect"}
         /\ WaitEnds /\ "listener" \in faults => failed'
<1>1. IInv => (Returned => faults \subseteq {"listener", "disconnect"})
  BY DEF IInv, TypeOK, Accounted, Returned
<1>2. ASSUME IInv, WaitEnds, "listener" \in faults PROVE failed'
  <2>1. phase = "running" /\ transport = "raised"
    BY <1>2 DEF WaitEnds, IInv, Accounted, Phases
  <2>. QED
    BY <1>2, <2>1 DEF WaitEnds, ListenerFailed, BodyRaises
<1>3. IInv /\ [Next]_vars => [Clean]_vars
  BY <1>1, <1>2
<1>. QED
  BY <1>3, Invariance, PTL DEF Spec, SilentOnlyWhenClean
=============================================================================
