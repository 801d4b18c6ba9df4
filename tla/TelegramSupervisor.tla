-------------------------- MODULE TelegramSupervisor --------------------------
(***************************************************************************)
(* TelegramIntegration.run_forever and its health heartbeat                 *)
(* (integration/telegram_integration.py), the heartbeat file and its probe  *)
(* (support/healthcheck.py), and the owner that stops them (run_workflows). *)
(*                                                                          *)
(* Three tasks on one event loop: the supervisor, the heartbeat and the     *)
(* owner.  Each action runs a task from one suspension to the next.  The    *)
(* loop is responsive: no time passes while a task has something to do.     *)
(* Telethon is external: its calls answer when and as they like, and        *)
(* `connected' stays TRUE while it reconnects by itself.                    *)
(*                                                                          *)
(* Ages and timers count ticks.  An age stops where no comparison can tell  *)
(* it from a greater one.  A missing heartbeat file and one that is too old *)
(* are alike to the probe.                                                  *)
(***************************************************************************)
EXTENDS Naturals, FiniteSets

CONSTANTS
    Channels,      \* subscriptions, numbered in the order they were made
    Numeric,       \* those that name the channel by its numeric ID
    Interval,      \* healthcheck_interval_seconds
    MaxAge,        \* healthcheck_max_age_seconds
    Allowance,     \* telegram_readiness_max_wait_seconds
    InitialDelay,  \* telegram_supervisor_initial_delay
    MaxDelay,      \* telegram_supervisor_max_delay
    FloodWaits,    \* waits that Telegram may ask for
    MaxFaults      \* bound: failures of Telegram, of the network and of writes

ASSUME SupervisorAssumption ==
    /\ Channels \subseteq Nat /\ IsFiniteSet(Channels)
    /\ Numeric \subseteq Channels
    /\ Interval \in Nat \ {0} /\ MaxAge \in Nat \ {0}
    /\ Interval <= MaxAge
    /\ Allowance \in Nat \ {0}
    /\ InitialDelay \in Nat \ {0} /\ MaxDelay \in Nat
    /\ InitialDelay <= MaxDelay
    /\ FloodWaits \subseteq Nat
    /\ MaxFaults \in Nat

VARIABLES
    pc,             \* what the supervisor awaits
    resolving,      \* the channel whose resolution it awaits
    listener,       \* _state
    since,          \* age of _state_changed_at
    delay,          \* reconnect_delay
    timer,          \* time left of the wait it is in
    reply,          \* answer of the Telethon call it awaits
    cancelling,     \* the owner cancelled the supervisor, which has not run since
    stop_event,
    subscribed,     \* keys of _subscriptions
    handlers,       \* channels with an event handler in the client
    connected,      \* client.is_connected()
    authenticated,  \* the session of the client is authorised
    beat,           \* the heartbeat task
    beat_timer,     \* time to its next refresh
    file_age,       \* age of the heartbeat file
    owner,          \* where run_workflows is
    offline,        \* history: time since the client was last connected
    unwritten,      \* history: the last write of the file failed
    unclosed,       \* history: a disconnect raised, or was cancelled
    faults          \* failures so far

task == <<pc, resolving, listener, since, delay, timer, reply, cancelling>>
client == <<connected, authenticated, offline>>
health == <<beat, beat_timer, file_age, unwritten>>
vars == <<task, client, health, handlers, stop_event, subscribed, owner, unclosed, faults>>

States ==
    {"DISCONNECTED", "CONNECTING", "RESOLVING", "READY", "FLOOD", "STOPPING"}

Stale == MaxAge + 1
Ancient == Allowance + MaxAge + 1

TypeOK ==
    /\ pc \in {"begin", "connecting", "resolving", "listening", "flooded",
               "backoff", "joining", "closing", "ended"}
    /\ resolving \in Channels \cup {0}
    /\ listener \in States
    /\ since \in 0..Ancient
    /\ delay \in InitialDelay..MaxDelay
    /\ timer \in Nat
    /\ reply \in {"none", "ok", "error", "flood", "cancelled"}
    /\ cancelling \in BOOLEAN
    /\ stop_event \in BOOLEAN
    /\ subscribed \subseteq Channels
    /\ handlers \subseteq Channels
    /\ connected \in BOOLEAN /\ authenticated \in BOOLEAN
    /\ beat \in {"none", "waiting", "cancelled", "over"}
    /\ beat_timer \in 0..Interval
    /\ file_age \in 0..Stale
    /\ owner \in {"waiting", "stopping", "stopped", "joining", "unsubscribing"}
    /\ offline \in 0..Stale
    /\ unwritten \in BOOLEAN /\ unclosed \in BOOLEAN
    /\ faults \in 0..MaxFaults

\* All subscriptions exist and the heartbeat file was removed before the
\* supervisor starts.
Init ==
    /\ pc = "begin" /\ resolving = 0
    /\ listener = "DISCONNECTED" /\ since = 0
    /\ delay = InitialDelay /\ timer = 0
    /\ reply = "none" /\ cancelling = FALSE /\ stop_event = FALSE
    /\ subscribed = Channels /\ handlers = {}
    /\ connected = FALSE /\ authenticated \in BOOLEAN
    /\ beat = "none" /\ beat_timer = 0 /\ file_age = Stale
    /\ owner = "waiting"
    /\ offline = Stale /\ unwritten = FALSE /\ unclosed = FALSE
    /\ faults = 0

Healthy == file_age <= MaxAge

-----------------------------------------------------------------------------
(* Faulty variants of definitions below; see README, "Mutants". *)

Doubled_Uncapped(d) == 2 * d

MustRaise_Always == TRUE

ListenerOver_Unawaited == TRUE

Eligible_Unbounded ==
    connected /\ listener \in {"READY", "CONNECTING", "RESOLVING", "FLOOD"}

Eligible_Recovering ==
    connected /\ since <= Allowance
              /\ listener \in {"READY", "CONNECTING", "RESOLVING", "FLOOD"}

LeftOpen_Never == FALSE

-----------------------------------------------------------------------------
(* Pieces of a supervisor step *)

Changed(from, to) ==
    /\ listener' = to
    /\ since' = IF from = to THEN since ELSE 0

\* record_health touches the file, or raises OSError.
Written == file_age' = 0 /\ unwritten' = FALSE /\ UNCHANGED faults

NotWritten ==
    /\ faults < MaxFaults
    /\ faults' = faults + 1
    /\ unwritten' = TRUE
    /\ UNCHANGED file_age

NothingWritten == UNCHANGED <<file_age, unwritten, faults>>

Least(a, b) == IF a <= b THEN a ELSE b

Doubled(d) == Least(2 * d, MaxDelay)

\* The finally block, up to the wait for the heartbeat it cancels.
Finish(from) ==
    /\ Changed(from, "STOPPING")
    /\ pc' = "joining"
    /\ beat' = IF beat = "waiting" THEN "cancelled" ELSE beat
    /\ UNCHANGED <<delay, timer>>

Disconnected(from, d) ==
    /\ Changed(from, "DISCONNECTED")
    /\ pc' = "backoff" /\ timer' = d /\ delay' = d
    /\ UNCHANGED beat

\* `except Exception'.
Fail(from, d) ==
    \/ stop_event /\ Finish(from)
    \/ ~stop_event /\ Disconnected(from, d)

Unresolved(done) == {c \in subscribed \ done : c \notin Numeric}

\* Subscriptions are taken in order: the first that needs an RPC suspends the
\* loop, the numeric ones before it have their handlers.
Resolve(done, d) ==
    /\ \E c \in Unresolved(done) :
          /\ \A e \in Unresolved(done) : c <= e
          /\ resolving' = c
          /\ handlers' = done \cup {e \in subscribed : e < c}
    /\ Changed(listener, "RESOLVING")
    /\ pc' = "resolving" /\ delay' = d
    /\ NothingWritten
    /\ UNCHANGED <<timer, beat>>

\* The file is written before the backoff is reset; if that raises, the
\* listener was READY for no time at all.
BecomeReady(done, d) ==
    /\ Unresolved(done) = {}
    /\ handlers' = done \cup subscribed
    /\ \/ /\ Written
          /\ Changed(listener, "READY")
          /\ pc' = "listening" /\ delay' = InitialDelay
          /\ UNCHANGED <<timer, beat>>
       \/ NotWritten /\ Fail("READY", d)
    /\ UNCHANGED resolving

Activate(done, d) == Resolve(done, d) \/ BecomeReady(done, d)

\* start() does nothing on a client that is connected.
Connecting(d) ==
    /\ Changed(listener, "CONNECTING")
    /\ pc' = "connecting" /\ delay' = d
    /\ NothingWritten
    /\ UNCHANGED <<handlers, resolving, timer, beat>>

Attempt(d) ==
    \/ stop_event /\ Finish(listener) /\ NothingWritten /\ UNCHANGED <<handlers, resolving>>
    \/ ~stop_event /\ connected /\ Activate(handlers, d)
    \/ ~stop_event /\ ~connected /\ Connecting(d)

Resumes ==
    /\ ~cancelling
    /\ reply' = "none"
    /\ UNCHANGED <<cancelling, client, beat_timer, stop_event, subscribed, owner, unclosed>>

KeepsHandlers == NothingWritten /\ UNCHANGED <<handlers, resolving>>

-----------------------------------------------------------------------------
(* The supervisor *)

Begin ==
    /\ pc = "begin"
    /\ Changed(listener, "CONNECTING")
    /\ pc' = "connecting"
    /\ beat' = "waiting"
    /\ KeepsHandlers
    /\ Resumes
    /\ UNCHANGED <<delay, timer>>

\* client.start(), get_input_entity and run_until_disconnected, whose first
\* step is a request of its own.
Calling == pc \in {"connecting", "resolving", "listening"}

Started ==
    /\ pc = "connecting" /\ reply = "ok"
    /\ Activate(handlers, delay)
    /\ Resumes

Resolved ==
    /\ pc = "resolving" /\ reply = "ok"
    /\ Activate(handlers \cup {resolving}, delay)
    /\ Resumes

CallRaised ==
    /\ Calling /\ reply = "error"
    /\ Fail(listener, delay)
    /\ KeepsHandlers
    /\ Resumes

FloodLimit ==
    /\ Calling /\ reply = "flood"
    /\ \/ stop_event /\ Finish(listener)
       \/ /\ ~stop_event
          /\ Changed(listener, "FLOOD")
          /\ pc' = "flooded" /\ timer' \in FloodWaits
          /\ UNCHANGED <<delay, beat>>
    /\ KeepsHandlers
    /\ Resumes

\* CancelledError that nobody in this process asked for.
MustRaise == stop_event \/ cancelling

CancelledInside ==
    /\ Calling /\ reply = "cancelled"
    /\ \/ MustRaise /\ Finish(listener)
       \/ ~MustRaise /\ Disconnected(listener, delay)
    /\ KeepsHandlers
    /\ Resumes

\* run_until_disconnected returns: the state stays READY.
Lost ==
    /\ pc = "listening" /\ reply = "ok"
    /\ \/ stop_event /\ Finish(listener)
       \/ /\ ~stop_event
          /\ pc' = "backoff" /\ timer' = delay
          /\ UNCHANGED <<listener, since, delay, beat>>
    /\ KeepsHandlers
    /\ Resumes

WaitOver ==
    /\ pc \in {"flooded", "backoff"}
    /\ timer = 0 \/ stop_event
    /\ Attempt(IF pc = "backoff" THEN Doubled(delay) ELSE delay)
    /\ Resumes

Cancelled ==
    /\ cancelling
    /\ pc \in {"connecting", "resolving", "listening", "flooded", "backoff"}
    /\ Finish(listener)
    /\ reply' = "none" /\ cancelling' = FALSE
    /\ KeepsHandlers
    /\ UNCHANGED <<client, beat_timer, stop_event, subscribed, owner, unclosed>>

LeftOpen == connected

\* A cancellation that arrives here is swallowed.
HeartbeatJoined ==
    /\ pc = "joining"
    /\ beat = "over" \/ cancelling
    /\ cancelling' = FALSE
    /\ \/ /\ LeftOpen /\ pc' = "closing"
          /\ UNCHANGED <<listener, since>>
       \/ ~LeftOpen /\ pc' = "ended" /\ Changed(listener, "DISCONNECTED")
    /\ UNCHANGED <<resolving, delay, timer, reply, client, health, handlers,
                   stop_event, subscribed, owner, unclosed, faults>>

Closed ==
    /\ pc = "closing"
    /\ cancelling \/ reply # "none"
    /\ pc' = "ended"
    /\ \/ (cancelling \/ reply = "error") /\ UNCHANGED <<listener, since>>
       \/ ~cancelling /\ reply = "ok" /\ Changed(listener, "DISCONNECTED")
    /\ reply' = "none" /\ cancelling' = FALSE
    /\ unclosed' = (unclosed \/ reply # "ok")
    /\ UNCHANGED <<resolving, delay, timer, client, health, handlers,
                   stop_event, subscribed, owner, faults>>

-----------------------------------------------------------------------------
(* The heartbeat *)

Eligible ==
    /\ connected
    /\ \/ listener = "READY"
       \/ listener \in {"CONNECTING", "RESOLVING", "FLOOD"} /\ since <= Allowance

Beat ==
    /\ beat = "waiting" /\ ~stop_event /\ beat_timer = 0
    /\ beat_timer' = Interval
    /\ \/ Eligible /\ (Written \/ NotWritten)
       \/ ~Eligible /\ NothingWritten
    /\ UNCHANGED <<task, client, handlers, beat, stop_event, subscribed, owner, unclosed>>

BeatEnds ==
    /\ beat = "cancelled" \/ (beat = "waiting" /\ stop_event)
    /\ beat' = "over"
    /\ UNCHANGED <<task, client, beat_timer, file_age, unwritten, handlers,
                   stop_event, subscribed, owner, unclosed, faults>>

-----------------------------------------------------------------------------
(* The owner: the finally block of run_workflows, entered at any time *)

StopBegins ==
    /\ owner = "waiting" /\ pc # "begin"
    /\ stop_event' = TRUE
    /\ Changed(listener, "STOPPING")
    /\ owner' = IF connected THEN "stopping" ELSE "stopped"
    /\ UNCHANGED <<pc, resolving, delay, timer, reply, cancelling, client, health,
                   handlers, subscribed, unclosed, faults>>

\* The disconnect of stop() returns or raises.
StopReturns ==
    /\ owner = "stopping"
    /\ owner' = "stopped"
    /\ \/ connected' = FALSE /\ UNCHANGED <<unclosed, faults>>
       \/ /\ faults < MaxFaults /\ faults' = faults + 1
          /\ unclosed' = TRUE /\ UNCHANGED connected
    /\ UNCHANGED <<task, authenticated, offline, health, handlers, stop_event, subscribed>>

CancelTask ==
    /\ owner = "stopped"
    /\ \/ pc = "ended" /\ owner' = "unsubscribing" /\ UNCHANGED cancelling
       \/ pc # "ended" /\ owner' = "joining" /\ cancelling' = TRUE
    /\ UNCHANGED <<pc, resolving, listener, since, delay, timer, reply, client, health,
                   handlers, stop_event, subscribed, unclosed, faults>>

ListenerOver == pc = "ended"

Joined ==
    /\ owner = "joining" /\ ListenerOver
    /\ owner' = "unsubscribing"
    /\ UNCHANGED <<task, client, health, handlers, stop_event, subscribed, unclosed, faults>>

Unsubscribe(c) ==
    /\ owner = "unsubscribing" /\ c \in subscribed
    /\ subscribed' = subscribed \ {c}
    /\ handlers' = handlers \ {c}
    /\ UNCHANGED <<task, client, health, stop_event, owner, unclosed, faults>>

-----------------------------------------------------------------------------
(* Telethon, the network and time *)

\* The connection of client.start() is up, authentication is not over.
Connect ==
    /\ pc = "connecting" /\ reply = "none" /\ ~connected
    /\ connected' = TRUE /\ offline' = 0
    /\ UNCHANGED <<task, authenticated, health, handlers, stop_event, subscribed,
                   owner, unclosed, faults>>

Drop ==
    /\ connected
    /\ faults < MaxFaults /\ faults' = faults + 1
    /\ connected' = FALSE
    /\ UNCHANGED <<task, authenticated, offline, health, handlers, stop_event,
                   subscribed, owner, unclosed>>

Succeeds ==
    /\ reply' = "ok"
    /\ \/ pc = "connecting" /\ connected /\ authenticated' = TRUE /\ UNCHANGED connected
       \/ pc = "resolving" /\ connected /\ authenticated /\ UNCHANGED <<connected, authenticated>>
       \/ pc = "listening" /\ ~connected /\ UNCHANGED <<connected, authenticated>>
       \/ pc = "closing" /\ connected' = FALSE /\ UNCHANGED authenticated
    /\ UNCHANGED <<unclosed, faults>>

\* A call on a lost connection, and a resolution without authorisation, fail
\* for that reason: it is not another fault.
Explained ==
    \/ pc \in {"resolving", "listening"} /\ ~connected
    \/ pc = "resolving" /\ ~authenticated

Raises ==
    /\ \/ Calling /\ reply' \in {"error", "cancelled"}
       \/ Calling /\ connected /\ reply' = "flood"
       \/ pc = "closing" /\ reply' = "error"
    /\ \/ Explained /\ UNCHANGED faults
       \/ ~Explained /\ faults < MaxFaults /\ faults' = faults + 1
    /\ UNCHANGED <<connected, authenticated, unclosed>>

Answer ==
    /\ reply = "none"
    /\ Succeeds \/ Raises
    /\ UNCHANGED <<pc, resolving, listener, since, delay, timer, cancelling, offline,
                   health, handlers, stop_event, subscribed, owner>>

TaskDue ==
    \/ pc = "begin"
    \/ reply # "none" \/ cancelling
    \/ pc = "listening" /\ ~connected
    \/ pc \in {"flooded", "backoff"} /\ (timer = 0 \/ stop_event)
    \/ pc = "joining" /\ beat = "over"

BeatDue ==
    \/ beat = "cancelled"
    \/ beat = "waiting" /\ (beat_timer = 0 \/ stop_event)

OwnerDue ==
    \/ owner = "stopped"
    \/ owner = "joining" /\ ListenerOver
    \/ owner = "unsubscribing" /\ subscribed # {}

Due == TaskDue \/ BeatDue \/ OwnerDue

Aged(age, limit) == IF age < limit THEN age + 1 ELSE age

Left(time) == IF time > 0 THEN time - 1 ELSE 0

Tick ==
    /\ ~Due
    /\ since' = Aged(since, Ancient)
    /\ file_age' = Aged(file_age, Stale)
    /\ offline' = IF connected THEN 0 ELSE Aged(offline, Stale)
    /\ timer' = Left(timer)
    /\ beat_timer' = Left(beat_timer)
    /\ UNCHANGED <<pc, resolving, listener, delay, reply, cancelling, connected,
                   authenticated, beat, unwritten, handlers, stop_event, subscribed,
                   owner, unclosed, faults>>

-----------------------------------------------------------------------------
Supervise ==
    \/ Begin \/ Started \/ Resolved \/ CallRaised \/ FloodLimit \/ CancelledInside
    \/ Lost \/ WaitOver \/ Cancelled \/ HeartbeatJoined \/ Closed

Heartbeat == Beat \/ BeatEnds

CleanUp ==
    \/ StopReturns \/ CancelTask \/ Joined
    \/ \E c \in Channels : Unsubscribe(c)

Environment == Connect \/ Drop \/ Answer \/ Tick

Next == Supervise \/ Heartbeat \/ StopBegins \/ CleanUp \/ Environment

Spec == Init /\ [][Next]_vars

\* The loop runs every ready task, time passes, and Telethon answers every
\* call.  A stop is never required to happen, nor a failure.
FairSpec ==
    /\ Spec
    /\ WF_vars(Supervise) /\ WF_vars(Heartbeat) /\ WF_vars(CleanUp)
    /\ WF_vars(Connect) /\ WF_vars(Answer) /\ WF_vars(Tick)

-----------------------------------------------------------------------------
(* Properties *)

Promise == INSTANCE ListenerPromise WITH
    stage <- IF pc = "ended" THEN "ended" ELSE IF stop_event THEN "asked" ELSE "running",
    up <- listener = "READY",
    wanted <- subscribed,
    served <- handlers

\* The supervisor keeps the promise run_workflows relies on: READY means that
\* every subscription has its handler (_activate_subscriptions comes before
\* READY), it ends only after stop(), and it does end, also when stop() finds
\* client.start() under way and no connection to close; no handler is
\* registered for a channel that was unsubscribed.
RefinesPromise == Promise!FairSpec

\* The probe notices trouble in time.  A client that has been disconnected for
\* longer than the maximum age, or a listener that has been in one state other
\* than READY for longer than the allowance and the maximum age together, is
\* reported unhealthy: neither the heartbeat nor record_health after READY
\* may refresh the file meanwhile.
TroubleIsNoticed ==
    /\ ~connected /\ offline > MaxAge => ~Healthy
    /\ listener # "READY" /\ since > Allowance + MaxAge => ~Healthy

\* A listener that is READY and connected is healthy, however long it stays so
\* and whatever came before, as long as the file can be written.
NoFalseAlarm ==
    listener = "READY" /\ pc = "listening" /\ connected /\ ~stop_event /\ ~unwritten
        => Healthy

\* When the subscriptions are withdrawn the connection is closed, unless a
\* disconnect raised or was cancelled: also after a stop() that came during client.start(), when
\* only the finally block of run_forever can close what start() opens.
ClosedAtEnd == owner = "unsubscribing" /\ ~unclosed => ~connected

\* With an authorised session and finitely many failures the listener comes
\* back and stays, unless it is stopped: flood waits, internal cancellations
\* and lost connections all lead to another attempt.
Recovers ==
    authenticated => \/ <>(owner # "waiting")
                     \/ <>[](pc = "listening" /\ connected /\ handlers = subscribed)

\* spec/architecture.md:43: "Telegram subscription readiness is established
\* explicitly after authentication and before the listener is declared ready."
ReadyAuthenticated == listener = "READY" => authenticated
=============================================================================
