--------------------------- MODULE ChannelController ---------------------------
(***************************************************************************)
(* TelegramController (control/event): the bounded queue between the        *)
(* callbacks of Telethon and the worker that runs the trading handler, from *)
(* the end of start() to the end of stop().                                 *)
(*                                                                          *)
(* A callback converts its event (which may ask Telegram for the chat),     *)
(* looks at _accepting_messages, and puts the message.  Updates are         *)
(* dispatched one after the other (sequential_updates), so a connection has *)
(* one callback under way.  A callback may outlive its connection.          *)
(*                                                                          *)
(* asyncio.Queue is modelled as it is: a put on a full queue parks; each    *)
(* get wakes the first parked put, which looks again when it runs; until    *)
(* then a newcomer may take the room; a woken put that is cancelled passes  *)
(* its wake-up on.                                                          *)
(***************************************************************************)
EXTENDS Naturals, Sequences, FiniteSets, SequencesExt

CONSTANTS
    Messages,
    Sentinel,     \* the None that stop() puts
    Capacity      \* maxsize of the queue

Idle == "idle"
Ended == "ended"

Items == Messages \cup {Sentinel}

ASSUME ChannelAssumption ==
    /\ IsFiniteSet(Messages)
    /\ Sentinel \notin Messages
    /\ Idle \notin Items /\ Ended \notin Items
    /\ Capacity \in Nat \ {0}

VARIABLES
    connected,    \* the Telegram client has a connection
    updating,     \* the message whose callback the update loop runs, if any
    callback,     \* where the callback of each message is
    accepting,    \* _accepting_messages
    queue,        \* _message_queue
    putters,      \* parked puts, first come first
    woken,        \* puts that a get has woken and that have not run yet
    worker,       \* what the worker holds: nothing, a message, or it ended
    handled,      \* messages given to the handler, in order
    stopping,     \* how far the shutdown has come
    arrived,      \* history: messages in the order Telegram sent them
    outlived,     \* history: messages whose callback outlived its connection
    atStop        \* history: what stop() found when it was called

transport == <<connected, updating>>
history == <<arrived, outlived, atStop>>
vars == <<transport, callback, accepting, queue, putters, woken, worker,
          handled, stopping, history>>

Init ==
    /\ connected = TRUE /\ updating = {}
    /\ callback = [m \in Messages |-> "none"]
    /\ accepting = TRUE
    /\ queue = <<>> /\ putters = <<>> /\ woken = {}
    /\ worker = Idle /\ handled = <<>>
    /\ stopping = "no"
    /\ arrived = <<>> /\ outlived = {}
    /\ atStop = [queued |-> {}, parked |-> {}, converting |-> {}]

In(place) == {m \in Messages : callback[m] = place}

\* The callback of m goes on, or ends and lets the update loop go on.
At(m, place) ==
    /\ callback' = [callback EXCEPT ![m] = place]
    /\ updating' = IF place = "parked" THEN updating ELSE updating \ {m}

-----------------------------------------------------------------------------
(* Faulty variants of definitions below; see README, "Mutants". *)

Full_OneMore == Len(queue) > Capacity

Free_Always == TRUE

AfterFailure_Dies == Ended

PutSentinel_AtFront == queue' = <<Sentinel>> \o queue

Accepts_Always == TRUE

WorkerOver_NotAwaited == TRUE

-----------------------------------------------------------------------------
(* asyncio.Queue *)

Full == Len(queue) >= Capacity

Enqueue(item) == queue' = Append(queue, item)

Park(item) == putters' = Append(putters, item)

\* get_nowait: the first item leaves and the first parked put is woken.
Dequeue ==
    /\ queue' = Tail(queue)
    /\ \/ putters = <<>> /\ UNCHANGED <<putters, woken>>
       \/ putters # <<>> /\ woken' = woken \cup {Head(putters)}
                         /\ putters' = Tail(putters)

\* The put of a callback in M, of which there is at most one, is removed.
Without(M) ==
    IF \E k \in DOMAIN putters : putters[k] \in M
    THEN RemoveAt(putters, CHOOSE k \in DOMAIN putters : putters[k] \in M)
    ELSE putters

\* The put of a callback in M is cancelled; one that was woken wakes another.
CancelPuts(M) ==
    LET others == Without(M)
        passOn == M \cap woken # {} /\ ~Full /\ others # <<>>
    IN  /\ putters' = IF passOn THEN Tail(others) ELSE others
        /\ woken' = (woken \ M) \cup (IF passOn THEN {Head(others)} ELSE {})

-----------------------------------------------------------------------------
(* Callbacks: telethon_callback, _convert_message and _receive_message *)

\* The update loop awaits each callback before it dispatches the next update.
Free == updating = {}

Arrive(m) ==
    /\ connected /\ Free
    /\ stopping = "no"
    /\ callback[m] = "none"
    /\ callback' = [callback EXCEPT ![m] = "converting"]
    /\ updating' = {m}
    /\ arrived' = Append(arrived, m)
    /\ UNCHANGED <<connected, accepting, queue, putters, woken, worker, handled,
                   stopping, outlived, atStop>>

\* An exception is logged and the message is lost.
ConvertFails(m) ==
    /\ callback[m] = "converting"
    /\ At(m, "dropped")
    /\ UNCHANGED <<connected, accepting, queue, putters, woken, worker, handled,
                   stopping, history>>

Accepts == accepting

Receive(m) ==
    /\ callback[m] = "converting"
    /\ \/ ~Accepts /\ At(m, "dropped") /\ UNCHANGED <<queue, putters>>
       \/ Accepts /\ ~Full /\ Enqueue(m) /\ At(m, "queued") /\ UNCHANGED putters
       \/ Accepts /\ Full /\ Park(m) /\ At(m, "parked") /\ UNCHANGED queue
    /\ UNCHANGED <<connected, accepting, woken, worker, handled, stopping,
                   history>>

\* A woken put finds room, or parks again behind the others.
ResumePut(m) ==
    /\ m \in woken
    /\ woken' = woken \ {m}
    /\ \/ ~Full /\ Enqueue(m) /\ At(m, "queued") /\ UNCHANGED putters
       \/ Full /\ Park(m) /\ UNCHANGED <<queue, callback, updating>>
    /\ UNCHANGED <<connected, accepting, worker, handled, stopping, history>>

-----------------------------------------------------------------------------
(* _message_worker *)

\* A handler that raises is logged; the worker goes on.
AfterFailure == Idle

WorkerGets ==
    /\ worker = Idle
    /\ queue # <<>>
    /\ Dequeue
    /\ \/ Head(queue) = Sentinel /\ worker' = Ended /\ UNCHANGED handled
       \/ Head(queue) # Sentinel /\ worker' = Head(queue)
                                 /\ handled' = Append(handled, Head(queue))
    /\ UNCHANGED <<transport, callback, accepting, stopping, history>>

HandlerReturns ==
    /\ worker \in Messages
    /\ worker' = Idle
    /\ UNCHANGED <<transport, callback, accepting, queue, putters, woken,
                   handled, stopping, history>>

HandlerRaises ==
    /\ worker \in Messages
    /\ worker' = AfterFailure
    /\ UNCHANGED <<transport, callback, accepting, queue, putters, woken,
                   handled, stopping, history>>

-----------------------------------------------------------------------------
(* The connection, and the shutdown *)

CallbackCancelled ==
    /\ callback' = [m \in Messages |->
                        IF m \in updating THEN "dropped" ELSE callback[m]]
    /\ CancelPuts(updating)
    /\ UNCHANGED outlived

CallbackGoesOn ==
    /\ outlived' = outlived \cup updating
    /\ UNCHANGED <<callback, putters, woken>>

\* Telethon gives the connection up, also while a channel that is stopped alone
\* drains; src/ does not say what becomes of the callback under way, so either
\* may happen.
ConnectionLost ==
    /\ connected
    /\ connected' = FALSE /\ updating' = {}
    /\ CallbackCancelled \/ CallbackGoesOn
    /\ UNCHANGED <<accepting, queue, worker, handled, stopping, arrived, atStop>>

\* The supervisor reconnects; once the channel is stopping nothing arrives any
\* more, connected or not.
Reconnected ==
    /\ stopping = "no" /\ ~connected
    /\ connected' = TRUE
    /\ UNCHANGED <<updating, callback, accepting, queue, putters, woken, worker,
                   handled, stopping, history>>

\* TelegramIntegration.stop: a connected client is disconnected, which ends
\* the update loop with the callback it runs.  One without a connection is
\* left alone.
StopTransport ==
    /\ stopping = "no"
    /\ stopping' = "transport"
    /\ connected' = FALSE /\ updating' = {}
    /\ CallbackCancelled
    /\ UNCHANGED <<accepting, queue, worker, handled, arrived, atStop>>

PutSentinel == Enqueue(Sentinel)

\* stop() up to the sentinel: no suspension unless the queue is full.  The
\* runtime stops the transport first; a controller may also be stopped alone.
StopChannel ==
    /\ stopping \in {"no", "transport"}
    /\ accepting' = FALSE
    /\ atStop' = [queued |-> ToSet(queue), parked |-> In("parked"),
                  converting |-> In("converting")]
    /\ \/ ~Full /\ PutSentinel /\ stopping' = "joining" /\ UNCHANGED putters
       \/ Full /\ Park(Sentinel) /\ stopping' = "putting" /\ UNCHANGED queue
    /\ UNCHANGED <<transport, callback, woken, worker, handled, arrived, outlived>>

ResumeSentinel ==
    /\ Sentinel \in woken
    /\ woken' = woken \ {Sentinel}
    /\ \/ ~Full /\ PutSentinel /\ stopping' = "joining" /\ UNCHANGED putters
       \/ Full /\ Park(Sentinel) /\ UNCHANGED <<queue, stopping>>
    /\ UNCHANGED <<transport, callback, accepting, worker, handled, history>>

\* await worker_task
WorkerOver == worker = Ended

Join ==
    /\ stopping = "joining"
    /\ WorkerOver
    /\ stopping' = "done"
    /\ UNCHANGED <<transport, callback, accepting, queue, putters, woken, worker,
                   handled, history>>

-----------------------------------------------------------------------------
CallbackStep(m) == ConvertFails(m) \/ Receive(m) \/ ResumePut(m)

WorkerStep == WorkerGets \/ HandlerReturns \/ HandlerRaises

StopChannelStep == ResumeSentinel \/ Join

Next ==
    \/ \E m \in Messages : Arrive(m) \/ CallbackStep(m)
    \/ WorkerStep
    \/ ConnectionLost \/ Reconnected
    \/ StopTransport \/ StopChannel
    \/ StopChannelStep

Spec == Init /\ [][Next]_vars

\* Every task the event loop can run is run; a conversion and a handler end,
\* as they consist of requests that return or raise.  Nothing is assumed
\* about the arrival of messages, the connection, or that a stop is asked for.
Fairness ==
    /\ \A m \in Messages : WF_vars(CallbackStep(m))
    /\ WF_vars(WorkerStep)
    /\ WF_vars(StopChannelStep)

FairSpec == Spec /\ Fairness

-----------------------------------------------------------------------------
\* The types; the queue never holds more than queue_size items.
TypeOK ==
    /\ connected \in BOOLEAN /\ accepting \in BOOLEAN
    /\ updating \subseteq Messages
    /\ callback \in [Messages -> {"none", "converting", "parked", "queued",
                                  "dropped"}]
    /\ queue \in Seq(Items) /\ Len(queue) <= Capacity
    /\ putters \in Seq(Items)
    /\ woken \subseteq Items
    /\ worker \in Messages \cup {Idle, Ended}
    /\ handled \in Seq(Messages) /\ arrived \in Seq(Messages)
    /\ outlived \subseteq Messages
    /\ stopping \in {"no", "transport", "putting", "joining", "done"}
    /\ atStop \in [queued : SUBSET Messages, parked : SUBSET Messages,
                   converting : SUBSET Messages]

\* Telegram sent x, and y after it.
Before(x, y) ==
    \E k, l \in DOMAIN arrived : k < l /\ arrived[k] = x /\ arrived[l] = y

\* Messages are handled at most once and in the order Telegram sent them,
\* through any back-pressure and any failure of a handler, unless a callback
\* outlived its connection.
HandledInOrder ==
    \A i, j \in DOMAIN handled :
        i < j /\ {handled[i], handled[j]} \cap outlived = {}
            => Before(handled[i], handled[j])

\* When stop() returns, every message that was in the queue when it was
\* called has been handled, whatever the handlers raised, and what is left in
\* the queue had been accepted but was still waiting for room.
StopDrains ==
    stopping = "done" =>
        /\ atStop.queued \subseteq ToSet(handled)
        /\ ToSet(queue) \subseteq atStop.parked

\* A message whose callback had not yet been accepted when stop() was called
\* is never handled, even if it finds room before the sentinel does.
NobodyLate == atStop.converting \cap ToSet(handled) = {}

\* What the runtime sees of the channel, and of a message.
Stage == IF accepting THEN "open" ELSE IF stopping = "done" THEN "stopped" ELSE "draining"

Place ==
    [m \in Messages |->
        IF m \in ToSet(handled) THEN "handled"
        ELSE IF callback[m] \in {"none", "converting"} THEN "new" ELSE callback[m]]

Promise ==
    INSTANCE ChannelPromise WITH
        stage <- Stage,
        place <- Place,
        due <- atStop.queued,
        current <- {worker} \cap Messages

\* Every behaviour of the channel is one the runtime expects: no message is
\* handled twice, not even one whose callback outlived its connection; no
\* handler is running once stop() has returned, and none starts later, so that
\* from then on the trading controllers may be closed.
RefinesPromise == Promise!Spec

\* stop() returns, even on a full queue and with failing handlers.
StopReturns == stopping \in {"putting", "joining"} ~> stopping = "done"

\* A message in the queue is given to the handler, unless it came in after
\* stop() was called.
QueuedIsHandled ==
    \A m \in Messages :
        callback[m] = "queued" /\ accepting ~> m \in ToSet(handled)

=============================================================================
