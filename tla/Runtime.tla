-------------------------------- MODULE Runtime --------------------------------
(***************************************************************************)
(* run_workflows (interface/trade_interface.py) with the message handlers   *)
(* it keeps alive: start of the trading controller and of the channels, one *)
(* shared Telegram connection, and the cleanup of the finally block.        *)
(*                                                                          *)
(* A handler (event_to_trade.py) places the orders of one notice            *)
(* concurrently with asyncio.gather, which raises as soon as one of them    *)
(* raises and leaves the others running: they are then awaited by nobody.   *)
(*                                                                          *)
(* A channel is reduced to what ChannelPromise says of it: after stop() it  *)
(* takes nothing new, handles what is queued, and then stop() returns.  One *)
(* destination exists (BINANCE), hence one controller; trading is enabled.  *)
(***************************************************************************)
EXTENDS Naturals, FiniteSets

CONSTANTS
    Channels,
    Orders,       \* orders that can be placed during a run
    Backlog       \* bound: messages in a channel's queue

ASSUME RuntimeAssumption ==
    /\ IsFiniteSet(Channels) /\ Channels # {}
    /\ IsFiniteSet(Orders)
    /\ Backlog \in Nat

VARIABLES
    phase,        \* where run_workflows is
    stop_event,   \* the shutdown flag is set
    failed,       \* the body of the try raised
    errors,       \* an exception is among the results of the cleanup
    controller,   \* the trading controller
    streaming,    \* the price stream of the controller is up
    transport,    \* the task that runs the Telegram connection
    connected,    \* the connection is up
    channel,      \* each channel controller
    queued,       \* messages in the queue of each channel
    awaited,      \* the orders the handler of each channel awaits
    order,        \* each order workflow
    notice,       \* history: the orders placed for the same notice
    faults        \* history: what raised

run == <<phase, stop_event, failed, errors>>
parts == <<controller, streaming, transport, connected, channel>>
trading == <<queued, awaited, order, notice>>
vars == <<run, parts, trading, faults>>

Init ==
    /\ phase = "controller"
    /\ stop_event = FALSE /\ failed = FALSE /\ errors = FALSE
    /\ controller = "new" /\ streaming = FALSE
    /\ transport = "new" /\ connected = FALSE
    /\ channel = [c \in Channels |-> "new"]
    /\ queued = [c \in Channels |-> 0]
    /\ awaited = [c \in Channels |-> {}]
    /\ order = [o \in Orders |-> "none"]
    /\ notice = [o \in Orders |-> {}]
    /\ faults = {}

Over(c) == channel[c] \in {"stopped", "broken"}

Working(c) == channel[c] \in {"open", "draining", "broken"}

-----------------------------------------------------------------------------
(* Faulty variants of definitions below; see README, "Mutants". *)

ChannelsOver_First == \E c \in Channels : Over(c)

Pending_OffByOne(c) == queued[c] >= 0

HandlerOver_OnlySuccess(orders) == \A o \in orders : order[o] = "ok"

HandlerOver_First(orders) == \E o \in orders : order[o] \in {"ok", "raised"}

TransportStopped_SkipsRest ==
    \/ /\ phase' = "tasks" /\ connected' = FALSE
       /\ UNCHANGED <<errors, faults>>
    \/ /\ phase' = "ended" /\ connected /\ UNCHANGED connected
       /\ errors' = TRUE /\ faults' = faults \cup {"cleanup"}

ListenerFailed_UnlessAsked == transport = "raised" /\ ~stop_event

-----------------------------------------------------------------------------
(* Startup.  Cancellation of run_workflows is a way for a start to raise. *)

BodyRaises ==
    /\ failed' = TRUE
    /\ stop_event' = TRUE
    /\ phase' = "transport"
    /\ faults' = faults \cup {"body"}
    /\ UNCHANGED errors

\* A start that raises stops its price stream again, and that may raise too.
StartController ==
    /\ phase = "controller"
    /\ \/ /\ controller' = "open" /\ phase' = "channels" /\ streaming' = TRUE
          /\ UNCHANGED <<stop_event, failed, errors, faults>>
       \/ /\ UNCHANGED <<controller, errors>>
          /\ failed' = TRUE /\ stop_event' = TRUE /\ phase' = "transport"
          /\ \/ faults' = faults \cup {"body"} /\ UNCHANGED streaming
             \/ faults' = faults \cup {"body", "stream"} /\ streaming' = TRUE
    /\ UNCHANGED <<transport, connected, channel, trading>>

\* A channel whose subscription is refused has no worker; its stop() then
\* has nothing to wait for.
StartChannel(c) ==
    /\ phase = "channels"
    /\ channel[c] = "new"
    /\ \/ channel' = [channel EXCEPT ![c] = "open"] /\ UNCHANGED <<run, faults>>
       \/ BodyRaises /\ UNCHANGED channel
    /\ UNCHANGED <<controller, streaming, transport, connected, trading>>

StartTransport ==
    /\ phase = "channels"
    /\ \A c \in Channels : channel[c] = "open"
    /\ transport' = "running"
    /\ phase' = "running"
    /\ UNCHANGED <<stop_event, failed, errors, controller, streaming, connected,
                   channel, trading, faults>>

-----------------------------------------------------------------------------
(* Running *)

\* The signal handlers of main.py set the flag at any time.
RequestShutdown ==
    /\ phase # "ended"
    /\ stop_event' = TRUE
    /\ UNCHANGED <<phase, failed, errors, parts, trading, faults>>

\* run_forever connects, loses the connection and connects again, for a moment
\* also after a stop: a connection attempt under way is not taken back.
ConnectionChanges ==
    /\ transport = "running"
    /\ connected' = ~connected
    /\ UNCHANGED <<run, controller, streaming, transport, channel, trading, faults>>

\* The finally of run_forever disconnects; when that raises, or is cancelled,
\* the connection stays up.
ListenerDisconnects ==
    \/ connected' = FALSE /\ UNCHANGED faults
    \/ /\ connected /\ UNCHANGED connected
       /\ faults' = faults \cup {"listener", "disconnect"}

\* run_forever returns or raises on its own.
TransportEnds ==
    /\ transport = "running"
    /\ \/ /\ transport' = "returned" /\ connected' = FALSE
          /\ UNCHANGED faults
       \/ /\ transport' = "raised" /\ connected' = FALSE
          /\ faults' = faults \cup {"listener"}
       \/ /\ transport' = "raised" /\ connected
          /\ ListenerDisconnects /\ connected'
    /\ UNCHANGED <<run, controller, streaming, channel, trading>>

ListenerFailed == transport = "raised"

\* asyncio.wait returns; a listener that raised raises here.
WaitEnds ==
    /\ phase = "running"
    /\ stop_event \/ transport # "running"
    /\ \/ ListenerFailed /\ BodyRaises
       \/ /\ ~ListenerFailed
          /\ phase' = "transport" /\ stop_event' = TRUE
          /\ UNCHANGED <<failed, errors, faults>>
    /\ UNCHANGED <<parts, trading>>

CancelWait ==
    /\ phase = "running"
    /\ BodyRaises
    /\ UNCHANGED <<parts, trading>>

-----------------------------------------------------------------------------
(* Messages and orders *)

Receive(c) ==
    /\ transport = "running"
    /\ channel[c] = "open"
    /\ queued[c] < Backlog
    /\ queued' = [queued EXCEPT ![c] = @ + 1]
    /\ UNCHANGED <<run, parts, awaited, order, notice, faults>>

Fresh == {o \in Orders : order[o] = "none"}

\* _message_queue.get waits for a message.
Pending(c) == queued[c] > 0

\* The worker takes a notice; its assets, none if it is irrelevant, become
\* orders that run concurrently.
Handle(c) ==
    /\ Working(c)
    /\ Pending(c)
    /\ awaited[c] = {}
    /\ queued' = [queued EXCEPT ![c] = @ - 1]
    /\ \E placed \in SUBSET Fresh :
          /\ awaited' = [awaited EXCEPT ![c] = placed]
          /\ order' = [o \in Orders |->
                          IF o \in placed THEN "running" ELSE order[o]]
          /\ notice' = [o \in Orders |->
                           IF o \in placed THEN placed ELSE notice[o]]
    /\ UNCHANGED <<run, parts, faults>>

OrderEnds(o) ==
    /\ order[o] = "running"
    /\ \E result \in {"ok", "raised"} : order' = [order EXCEPT ![o] = result]
    /\ UNCHANGED <<run, parts, queued, awaited, notice, faults>>

\* gather: every order has returned, or one has raised.
HandlerOver(orders) ==
    \/ \A o \in orders : order[o] = "ok"
    \/ \E o \in orders : order[o] = "raised"

HandlerEnds(c) ==
    /\ awaited[c] # {}
    /\ HandlerOver(awaited[c])
    /\ awaited' = [awaited EXCEPT ![c] = {}]
    /\ UNCHANGED <<run, parts, queued, order, notice, faults>>

-----------------------------------------------------------------------------
(* Cleanup.  An exception of a stop is a result like any other. *)

StopRaises == errors' = TRUE /\ faults' = faults \cup {"cleanup"}

\* transport.stop() disconnects, and may raise doing so; without a connection
\* there is nothing that could raise.
TransportStopped ==
    /\ phase' = "tasks"
    /\ \/ connected' = FALSE /\ UNCHANGED <<errors, faults>>
       \/ connected /\ UNCHANGED connected /\ StopRaises

StopTransport ==
    /\ phase = "transport"
    /\ TransportStopped
    /\ UNCHANGED <<stop_event, failed, controller, streaming, transport, channel, trading>>

\* The tasks of the listener and of the shutdown flag are cancelled and
\* awaited; what they raise is dropped, a failed disconnect included.
CancelTasks ==
    /\ phase = "tasks"
    /\ phase' = "draining"
    /\ transport' = "ended"
    /\ \/ transport = "running" /\ ListenerDisconnects
       \/ transport # "running" /\ UNCHANGED <<connected, faults>>
    /\ UNCHANGED <<stop_event, failed, errors, controller, streaming, channel, trading>>

StopChannel(c) ==
    /\ phase = "draining"
    /\ \/ /\ channel[c] = "new"
          /\ channel' = [channel EXCEPT ![c] = "stopped"]
          /\ UNCHANGED <<errors, faults>>
       \/ /\ channel[c] = "open"
          /\ channel' = [channel EXCEPT ![c] = "draining"]
          /\ UNCHANGED <<errors, faults>>
       \/ /\ channel[c] = "open"
          /\ channel' = [channel EXCEPT ![c] = "broken"]
          /\ StopRaises
    /\ UNCHANGED <<phase, stop_event, failed, controller, streaming, transport,
                   connected, trading>>

\* The worker took the sentinel: nothing is queued, no handler is awaited.
ChannelStopped(c) ==
    /\ channel[c] = "draining"
    /\ queued[c] = 0 /\ awaited[c] = {}
    /\ channel' = [channel EXCEPT ![c] = "stopped"]
    /\ UNCHANGED <<run, controller, streaming, transport, connected, trading, faults>>

\* gather over the channels, with return_exceptions
ChannelsOver == \A c \in Channels : Over(c)

ChannelsStopped ==
    /\ phase = "draining"
    /\ ChannelsOver
    /\ phase' = "closing"
    /\ UNCHANGED <<stop_event, failed, errors, parts, trading, faults>>

\* stop() of a controller that did not start returns at once, and leaves a
\* stream its start could not stop; one whose stop_price_stream raises is closed
\* all the same, with the stream up or down.
CloseController ==
    /\ phase = "closing"
    /\ controller' = "closed"
    /\ phase' = "ended"
    /\ \/ controller = "new" /\ UNCHANGED <<streaming, errors, faults>>
       \/ controller = "open" /\ streaming' = FALSE /\ UNCHANGED <<errors, faults>>
       \/ /\ controller = "open" /\ streaming' \in BOOLEAN
          /\ errors' = TRUE /\ faults' = faults \cup {"cleanup", "stream"}
    /\ UNCHANGED <<stop_event, failed, transport, connected, channel, trading>>

\* asyncio.run cancels what is left on the loop (main.py).
LoopCloses ==
    /\ phase = "ended"
    /\ order' = [o \in Orders |-> IF order[o] = "running" THEN "cut" ELSE order[o]]
    /\ awaited' = [c \in Channels |-> {}]
    /\ queued' = [c \in Channels |-> 0]
    /\ UNCHANGED <<run, parts, notice, faults>>

-----------------------------------------------------------------------------
Startup == StartController \/ StartTransport \/ \E c \in Channels : StartChannel(c)

Cleanup ==
    \/ StopTransport \/ CancelTasks \/ ChannelsStopped \/ CloseController
    \/ \E c \in Channels : StopChannel(c) \/ ChannelStopped(c)

Next ==
    \/ Startup
    \/ RequestShutdown \/ ConnectionChanges \/ TransportEnds
    \/ WaitEnds \/ CancelWait
    \/ \E c \in Channels : Receive(c) \/ Handle(c) \/ HandlerEnds(c)
    \/ \E o \in Orders : OrderEnds(o)
    \/ Cleanup
    \/ LoopCloses

Spec == Init /\ [][Next]_vars

\* Each task of the loop is run; requests return or raise, so that a start, an
\* order and a stop end.  Nothing is assumed of Telegram or of the operator.
Fairness ==
    /\ WF_vars(Startup) /\ WF_vars(WaitEnds) /\ WF_vars(Cleanup)
    /\ \A c \in Channels : WF_vars(Handle(c)) /\ WF_vars(HandlerEnds(c))
    /\ \A o \in Orders : WF_vars(OrderEnds(o))

FairSpec == Spec /\ Fairness

-----------------------------------------------------------------------------
\* The types; an order awaited by a handler belongs to one notice.
TypeOK ==
    /\ phase \in {"controller", "channels", "running", "transport", "tasks",
                  "draining", "closing", "ended"}
    /\ {stop_event, failed, errors, streaming, connected} \subseteq BOOLEAN
    /\ controller \in {"new", "open", "closed"}
    /\ transport \in {"new", "running", "returned", "raised", "ended"}
    /\ channel \in [Channels -> {"new", "open", "draining", "stopped", "broken"}]
    /\ queued \in [Channels -> 0..Backlog]
    /\ awaited \in [Channels -> SUBSET Orders]
    /\ order \in [Orders -> {"none", "running", "ok", "raised", "cut"}]
    /\ notice \in [Orders -> SUBSET Orders]
    /\ \A c \in Channels : \A o \in awaited[c] : awaited[c] = notice[o]
    /\ faults \subseteq {"body", "listener", "disconnect", "stream", "cleanup"}

NoStopBroken == \A c \in Channels : channel[c] # "broken"

\* No order is placed on a controller that is not open, however startup,
\* shutdown and the notices interleave, unless the stop of a channel raised.
OrdersFindControllerOpen ==
    [][\A o \in Orders :
           NoStopBroken /\ order[o] = "none" /\ order'[o] = "running"
               => controller = "open"]_vars

\* An order still running when the controller is closed is one that gather
\* abandoned because another order of its notice raised.
OnlyAbandonedOutlive ==
    controller = "closed" /\ NoStopBroken =>
        \A o \in Orders :
            order[o] = "running" => \E p \in notice[o] : order[p] = "raised"

\* Whatever raised and wherever startup stopped, the run ends with the task of
\* the listener over and the stop of every channel and of the controller made.
\* The connection is then up only if the disconnect of the listener itself
\* failed; the price stream only if stop_price_stream raised, which the run
\* reports.
CleanupComplete ==
    phase = "ended" =>
        /\ transport = "ended" /\ controller = "closed"
        /\ \A c \in Channels : Over(c)
        /\ connected => "disconnect" \in faults
        /\ streaming => "stream" \in faults /\ (failed \/ errors)

\* run_workflows returns normally only if no start and no stop raised, and a
\* listener, or its disconnect, at most after the shutdown had begun.
Returned == phase = "ended" /\ ~failed /\ ~errors

SilentOnlyWhenClean ==
    [][/\ Returned => faults \subseteq {"listener", "disconnect"}
       /\ WaitEnds /\ "listener" \in faults => failed']_vars

\* A requested shutdown ends: no stop waits for ever, whatever is queued, running
\* or raising when it comes.
RunEnds == stop_event ~> phase = "ended"

-----------------------------------------------------------------------------
(* What a doc says and the code does not do; see README, "Findings". *)

\* The runtime drains accepted messages and then stops the trading controller
\* (architecture.md): no order is running once it is closed.
ClosedWhenDrained ==
    controller = "closed" /\ NoStopBroken => \A o \in Orders : order[o] # "running"
=============================================================================
