----------------------- MODULE TelegramSupervisorProofs -----------------------
(***************************************************************************)
(* Safety of TelegramSupervisor for every set of subscriptions, every       *)
(* interval, age, allowance and delay, and any number of failures: its      *)
(* types, the probe that notices trouble and raises no false alarm, the     *)
(* connection closed at the end, and the safety part of ListenerPromise.    *)
(***************************************************************************)
EXTENDS TelegramSupervisor, TLAPS

\* The types, in three groups.
Flags ==
    /\ cancelling \in BOOLEAN /\ stop_event \in BOOLEAN
    /\ connected \in BOOLEAN /\ authenticated \in BOOLEAN
    /\ unwritten \in BOOLEAN /\ unclosed \in BOOLEAN

Places ==
    /\ pc \in {"begin", "connecting", "resolving", "listening", "flooded",
               "backoff", "joining", "closing", "ended"}
    /\ resolving \in Channels \cup {0}
    /\ listener \in States
    /\ reply \in {"none", "ok", "error", "flood", "cancelled"}
    /\ subscribed \subseteq Channels
    /\ handlers \subseteq Channels
    /\ beat \in {"none", "waiting", "cancelled", "over"}
    /\ owner \in {"waiting", "stopping", "stopped", "joining", "unsubscribing"}

Times ==
    /\ since \in 0..Ancient
    /\ delay \in InitialDelay..MaxDelay
    /\ timer \in Nat
    /\ beat_timer \in 0..Interval
    /\ file_age \in 0..Stale
    /\ offline \in 0..Stale
    /\ faults \in 0..MaxFaults

Active == {"connecting", "resolving", "listening", "flooded", "backoff"}
Leaving == {"joining", "closing", "ended"}

\* The owner asks, then cancels, then waits; the supervisor leaves its loop only
\* once it was asked.
Asked ==
    /\ stop_event <=> owner # "waiting"
    /\ cancelling => stop_event
    /\ pc \in Leaving => stop_event /\ listener # "READY"
    /\ owner = "unsubscribing" => pc = "ended"

\* Calls that need a connection return only while it is up, and nothing is
\* awaited while the heartbeat is joined.
Answered ==
    /\ pc = "joining" => reply = "none"
    /\ pc = "closing" /\ reply = "ok" => ~connected
    /\ pc = "ended" /\ ~unclosed => ~connected

\* The file is never younger than the last connection, nor, unless the listener
\* is READY, much younger than its state.
Aging ==
    /\ connected => offline = 0
    /\ pc \in {"connecting", "resolving"} /\ reply = "ok" => offline = 0
    /\ offline <= file_age
    /\ listener # "READY" => since <= file_age + Allowance

\* The heartbeat lives as long as the supervisor is in its loop, and each beat
\* comes before the file is one interval old.
Beating ==
    /\ pc \in Active /\ ~stop_event => beat = "waiting"
    /\ pc = "listening" /\ connected /\ listener = "READY" /\ ~stop_event /\ ~unwritten
          => file_age + beat_timer <= Interval

\* READY stands for handlers of all subscriptions.
Serving ==
    /\ handlers \subseteq subscribed
    /\ listener = "READY" => handlers = subscribed
    /\ pc = "resolving" => resolving \in subscribed

IInv == Flags /\ Places /\ Times /\ Asked /\ Answered /\ Aging /\ Beating /\ Serving

-----------------------------------------------------------------------------
\* The backoff stays between its limits.
LEMMA DoubledInRange ==
    ASSUME NEW d \in InitialDelay..MaxDelay
    PROVE  Doubled(d) \in InitialDelay..MaxDelay
  BY SupervisorAssumption DEF Doubled, Least

LEMMA Typed == Flags /\ Places /\ Times => TypeOK
  BY DEF TypeOK, Flags, Places, Times

LEMMA InitInv == Init => IInv
<1>. SUFFICES ASSUME Init PROVE IInv
  OBVIOUS
<1>1. Flags /\ Places
  BY DEF Init, Flags, Places, States
<1>2. Times
  BY SupervisorAssumption DEF Init, Times, Stale, Ancient
<1>3. Asked /\ Answered /\ Serving
  BY DEF Init, Asked, Answered, Serving, Leaving
<1>4. Aging /\ Beating
  BY SupervisorAssumption DEF Init, Aging, Beating, Active, Stale
<1>. QED
  BY <1>1, <1>2, <1>3, <1>4 DEF IInv

\* Each step keeps the types of the flags.
LEMMA FlagsStep == Flags /\ [Next]_vars => Flags'
<1>. SUFFICES ASSUME Flags, [Next]_vars PROVE Flags'
  OBVIOUS
<1>1. CASE Supervise
  BY <1>1
  DEF Flags, Supervise, Begin, Started, Resolved, CallRaised, FloodLimit,
      CancelledInside, Lost, WaitOver, Cancelled, HeartbeatJoined, Closed,
      KeepsHandlers, NothingWritten, Resumes, client, Activate, Resolve,
      BecomeReady, Fail, Finish, Disconnected, Written, NotWritten, Attempt,
      Connecting, health
<1>2. CASE Heartbeat
  BY <1>2
  DEF Flags, Heartbeat, Beat, BeatEnds, Written, NotWritten, NothingWritten,
      task, client
<1>3. CASE StopBegins
  BY <1>3
  DEF Flags, StopBegins, Changed, client, health
<1>4. CASE CleanUp
  BY <1>4
  DEF Flags, CleanUp, StopReturns, CancelTask, Joined, Unsubscribe, task,
      client, health
<1>5. CASE Environment
  BY <1>5
  DEF Flags, Environment, Connect, Drop, Answer, Succeeds, Raises, Tick, task,
      health
<1>6. CASE UNCHANGED vars
  BY <1>6
  DEF Flags, vars, task, client, health
<1>. QED
  BY <1>1, <1>2, <1>3, <1>4, <1>5, <1>6 DEF Next

\* Each step keeps the types of places and sets; a resolved channel is a subscribed one.
LEMMA PlacesStep == Places /\ Serving /\ [Next]_vars => Places'
<1>. SUFFICES ASSUME Places, Serving, [Next]_vars PROVE Places'
  OBVIOUS
<1>1. CASE Supervise
  <2>1. CASE Begin
    BY <2>1
    DEF Places, Begin, Changed, KeepsHandlers, Resumes, States
  <2>2. CASE Started
    BY <2>2
    DEF Places, Started, Activate, Resolve, BecomeReady, Unresolved, Fail,
        Finish, Disconnected, Changed, Resumes, States
  <2>3. CASE Resolved
    BY <2>3
    DEF Places, Serving, Resolved, Activate, Resolve, BecomeReady, Unresolved,
        Fail, Finish, Disconnected, Changed, Resumes, States
  <2>4. CASE CallRaised
    BY <2>4
    DEF Places, CallRaised, Fail, Finish, Disconnected, Changed, KeepsHandlers,
        Resumes, States
  <2>5. CASE FloodLimit
    BY <2>5
    DEF Places, FloodLimit, Finish, Changed, KeepsHandlers, Resumes, States
  <2>6. CASE CancelledInside
    BY <2>6
    DEF Places, CancelledInside, Finish, Disconnected, Changed, KeepsHandlers,
        Resumes, States
  <2>7. CASE Lost
    BY <2>7
    DEF Places, Lost, Finish, Changed, KeepsHandlers, Resumes, States
  <2>8. CASE WaitOver
    BY <2>8
    DEF Places, WaitOver, Attempt, Connecting, KeepsHandlers, Activate, Resolve,
        BecomeReady, Unresolved, Fail, Finish, Disconnected, Changed, Resumes,
        States
  <2>9. CASE Cancelled
    BY <2>9
    DEF Places, Cancelled, Finish, Changed, KeepsHandlers, States
  <2>10. CASE HeartbeatJoined
    BY <2>10
    DEF Places, HeartbeatJoined, Changed, health, States
  <2>11. CASE Closed
    BY <2>11
    DEF Places, Closed, Changed, health, States
  <2>. QED
    BY <1>1, <2>1, <2>2, <2>3, <2>4, <2>5, <2>6, <2>7, <2>8, <2>9, <2>10, <2>11 DEF Supervise
<1>2. CASE Heartbeat
  BY <1>2
  DEF Places, Heartbeat, Beat, BeatEnds, task, States
<1>3. CASE StopBegins
  BY <1>3
  DEF Places, StopBegins, Changed, health, States
<1>4. CASE CleanUp
  BY <1>4
  DEF Places, CleanUp, StopReturns, CancelTask, Joined, Unsubscribe, task,
      health, States
<1>5. CASE Environment
  BY <1>5
  DEF Places, Environment, Connect, Drop, Answer, Succeeds, Raises, Tick, task,
      health, States
<1>6. CASE UNCHANGED vars
  BY <1>6
  DEF Places, vars, task, health, States
<1>. QED
  BY <1>1, <1>2, <1>3, <1>4, <1>5, <1>6 DEF Next

\* Each step keeps ages, timers and counters in their ranges.
LEMMA TimesStep == Times /\ [Next]_vars => Times'
<1>. SUFFICES ASSUME Times, [Next]_vars PROVE Times'
  OBVIOUS
<1>1. CASE Supervise
  <2>1. CASE Begin
    BY <2>1, SupervisorAssumption
    DEF Times, Begin, Changed, KeepsHandlers, NothingWritten, Resumes, client,
        Stale, Ancient
  <2>2. CASE Started
    BY <2>2, SupervisorAssumption
    DEF Times, Started, Activate, Resolve, BecomeReady, Fail, Finish,
        Disconnected, Changed, Written, NotWritten, NothingWritten, Resumes,
        client, Stale, Ancient
  <2>3. CASE Resolved
    BY <2>3, SupervisorAssumption
    DEF Times, Resolved, Activate, Resolve, BecomeReady, Fail, Finish,
        Disconnected, Changed, Written, NotWritten, NothingWritten, Resumes,
        client, Stale, Ancient
  <2>4. CASE CallRaised
    BY <2>4, SupervisorAssumption
    DEF Times, CallRaised, Fail, Finish, Disconnected, Changed, KeepsHandlers,
        NothingWritten, Resumes, client, Stale, Ancient
  <2>5. CASE FloodLimit
    <3>1. timer' \in Nat
      <4>1. timer' = timer \/ timer' \in FloodWaits
        BY <2>5 DEF FloodLimit, Finish
      <4>. QED
        BY <4>1, SupervisorAssumption DEF Times
    <3>2. delay' = delay /\ beat_timer' = beat_timer /\ file_age' = file_age
            /\ offline' = offline /\ faults' = faults
      BY <2>5 DEF FloodLimit, Finish, KeepsHandlers, NothingWritten, Resumes, client
    <3>3. since' \in 0..Ancient
      BY <2>5, SupervisorAssumption DEF FloodLimit, Finish, Changed, Times, Ancient
    <3>. QED
      BY <3>1, <3>2, <3>3 DEF Times
  <2>6. CASE CancelledInside
    BY <2>6, SupervisorAssumption
    DEF Times, CancelledInside, Finish, Disconnected, Changed, KeepsHandlers,
        NothingWritten, Resumes, client, Stale, Ancient
  <2>7. CASE Lost
    BY <2>7, SupervisorAssumption
    DEF Times, Lost, Finish, Changed, KeepsHandlers, NothingWritten, Resumes,
        client, Stale, Ancient
  <2>8. CASE WaitOver
    BY <2>8, SupervisorAssumption, DoubledInRange
    DEF Times, WaitOver, Attempt, Connecting, KeepsHandlers, Activate, Resolve,
        BecomeReady, Fail, Finish, Disconnected, Changed, Written, NotWritten,
        NothingWritten, Resumes, client, Stale, Ancient
  <2>9. CASE Cancelled
    BY <2>9, SupervisorAssumption
    DEF Times, Cancelled, Finish, Changed, KeepsHandlers, NothingWritten,
        client, Stale, Ancient
  <2>10. CASE HeartbeatJoined
    BY <2>10, SupervisorAssumption
    DEF Times, HeartbeatJoined, Changed, client, health, Stale, Ancient
  <2>11. CASE Closed
    BY <2>11, SupervisorAssumption
    DEF Times, Closed, Changed, client, health, Stale, Ancient
  <2>. QED
    BY <1>1, <2>1, <2>2, <2>3, <2>4, <2>5, <2>6, <2>7, <2>8, <2>9, <2>10, <2>11 DEF Supervise
<1>2. CASE Heartbeat
  BY <1>2, SupervisorAssumption
  DEF Times, Heartbeat, Beat, BeatEnds, Written, NotWritten, NothingWritten,
      task, client, Stale, Ancient
<1>3. CASE StopBegins
  BY <1>3, SupervisorAssumption
  DEF Times, StopBegins, Changed, client, health, Stale, Ancient
<1>4. CASE CleanUp
  BY <1>4, SupervisorAssumption
  DEF Times, CleanUp, StopReturns, CancelTask, Joined, Unsubscribe, task,
      client, health, Stale, Ancient
<1>5. CASE Environment
  BY <1>5, SupervisorAssumption
  DEF Times, Environment, Connect, Drop, Answer, Succeeds, Raises, Tick, Aged,
      Left, task, health, Stale, Ancient
<1>6. CASE UNCHANGED vars
  BY <1>6, SupervisorAssumption
  DEF Times, vars, task, client, health, Stale, Ancient
<1>. QED
  BY <1>1, <1>2, <1>3, <1>4, <1>5, <1>6 DEF Next

\* The supervisor leaves its loop only when it was asked to.
LEMMA AskedStep == IInv /\ [Next]_vars => Asked'
<1>. SUFFICES ASSUME IInv, [Next]_vars PROVE Asked'
  OBVIOUS
<1>1. CASE Supervise
  BY <1>1
  DEF Asked, Calling, Supervise, Begin, Started, Resolved, CallRaised, FloodLimit,
      CancelledInside, Lost, WaitOver, Cancelled, HeartbeatJoined, Closed,
      Changed, Resumes, Activate, Resolve, BecomeReady, Fail, Finish,
      Disconnected, MustRaise, Attempt, Connecting, IInv, Leaving, Flags, Places
<1>2. CASE Heartbeat
  BY <1>2
  DEF Asked, Heartbeat, Beat, BeatEnds, task, IInv, Leaving, Flags, Places
<1>3. CASE StopBegins
  BY <1>3
  DEF Asked, StopBegins, Changed, IInv, Leaving, Flags, Places
<1>4. CASE CleanUp
  BY <1>4
  DEF Asked, CleanUp, StopReturns, CancelTask, ListenerOver, Joined,
      Unsubscribe, task, IInv, Leaving, Flags, Places
<1>5. CASE Environment
  BY <1>5
  DEF Asked, Environment, Connect, Drop, Answer, Tick, task, IInv, Leaving,
      Flags, Places
<1>6. CASE UNCHANGED vars
  BY <1>6
  DEF Asked, vars, task, IInv, Leaving, Flags, Places
<1>. QED
  BY <1>1, <1>2, <1>3, <1>4, <1>5, <1>6 DEF Next

\* What a closing supervisor leaves behind is closed.
LEMMA AnsweredStep == IInv /\ [Next]_vars => Answered'
<1>. SUFFICES ASSUME IInv, [Next]_vars PROVE Answered'
  OBVIOUS
<1>1. CASE Supervise
  BY <1>1
  DEF Answered, Supervise, Begin, Started, Resolved, CallRaised, FloodLimit,
      CancelledInside, Lost, WaitOver, Cancelled, HeartbeatJoined, Closed,
      Changed, Resumes, client, Activate, Resolve, BecomeReady, Fail, Finish,
      Disconnected, Attempt, Connecting, LeftOpen, IInv, Flags, Places
<1>2. CASE Heartbeat
  BY <1>2
  DEF Answered, Heartbeat, Beat, BeatEnds, task, client, IInv, Flags, Places
<1>3. CASE StopBegins
  BY <1>3
  DEF Answered, StopBegins, Changed, client, IInv, Flags, Places
<1>4. CASE CleanUp
  BY <1>4
  DEF Answered, CleanUp, StopReturns, CancelTask, Joined, Unsubscribe, task,
      client, IInv, Flags, Places
<1>5. CASE Environment
  BY <1>5
  DEF Answered, Calling, Environment, Connect, Drop, Answer, Succeeds, Raises, Tick,
      task, IInv, Flags, Places
<1>6. CASE UNCHANGED vars
  BY <1>6
  DEF Answered, vars, task, client, IInv, Flags, Places
<1>. QED
  BY <1>1, <1>2, <1>3, <1>4, <1>5, <1>6 DEF Next

\* The file is refreshed only for a connected client, and never for a state
\* that has lasted longer than the allowance.
LEMMA AgingStep == IInv /\ [Next]_vars => Aging'
<1>. SUFFICES ASSUME IInv, [Next]_vars PROVE Aging'
  OBVIOUS
<1>1. CASE Supervise
  <2>1. CASE Begin
    BY <2>1, SupervisorAssumption
    DEF Aging, Begin, Changed, KeepsHandlers, NothingWritten, Resumes, client,
        IInv, Flags, Places, Times, Stale, Ancient
  <2>2. CASE Started
    BY <2>2, SupervisorAssumption
    DEF Aging, Started, Activate, Resolve, BecomeReady, Fail, Finish,
        Disconnected, Changed, Written, NotWritten, NothingWritten, Resumes,
        client, IInv, Flags, Places, Times, Stale, Ancient
  <2>3. CASE Resolved
    BY <2>3, SupervisorAssumption
    DEF Aging, Resolved, Activate, Resolve, BecomeReady, Fail, Finish,
        Disconnected, Changed, Written, NotWritten, NothingWritten, Resumes,
        client, IInv, Flags, Places, Times, Stale, Ancient
  <2>4. CASE CallRaised
    BY <2>4, SupervisorAssumption
    DEF Aging, CallRaised, Fail, Finish, Disconnected, Changed, KeepsHandlers,
        NothingWritten, Resumes, client, IInv, Flags, Places, Times, Stale,
        Ancient
  <2>5. CASE FloodLimit
    BY <2>5, SupervisorAssumption
    DEF Aging, FloodLimit, Finish, Changed, KeepsHandlers, NothingWritten,
        Resumes, client, IInv, Flags, Places, Times, Stale, Ancient
  <2>6. CASE CancelledInside
    BY <2>6, SupervisorAssumption
    DEF Aging, CancelledInside, Finish, Disconnected, Changed, KeepsHandlers,
        NothingWritten, Resumes, client, IInv, Flags, Places, Times, Stale,
        Ancient
  <2>7. CASE Lost
    BY <2>7, SupervisorAssumption
    DEF Aging, Lost, Finish, Changed, KeepsHandlers, NothingWritten, Resumes,
        client, IInv, Flags, Places, Times, Stale, Ancient
  <2>8. CASE WaitOver
    BY <2>8, SupervisorAssumption
    DEF Aging, WaitOver, Attempt, Connecting, KeepsHandlers, Activate, Resolve,
        BecomeReady, Fail, Finish, Disconnected, Changed, Written, NotWritten,
        NothingWritten, Resumes, client, IInv, Flags, Places, Times, Stale,
        Ancient
  <2>9. CASE Cancelled
    BY <2>9, SupervisorAssumption
    DEF Aging, Cancelled, Finish, Changed, KeepsHandlers, NothingWritten,
        client, IInv, Flags, Places, Times, Stale, Ancient
  <2>10. CASE HeartbeatJoined
    BY <2>10, SupervisorAssumption
    DEF Aging, HeartbeatJoined, Changed, client, health, IInv, Flags, Places,
        Times, Stale, Ancient
  <2>11. CASE Closed
    BY <2>11, SupervisorAssumption
    DEF Aging, Closed, Changed, client, health, IInv, Flags, Places, Times,
        Stale, Ancient
  <2>. QED
    BY <1>1, <2>1, <2>2, <2>3, <2>4, <2>5, <2>6, <2>7, <2>8, <2>9, <2>10, <2>11 DEF Supervise
<1>2. CASE Heartbeat
  BY <1>2, SupervisorAssumption
  DEF Aging, Heartbeat, Beat, BeatEnds, Eligible, Written, NotWritten,
      NothingWritten, task, client, IInv, Flags, Places, Times, Stale, Ancient
<1>3. CASE StopBegins
  BY <1>3, SupervisorAssumption
  DEF Aging, StopBegins, Changed, client, health, IInv, Flags, Places, Times,
      Stale, Ancient
<1>4. CASE CleanUp
  BY <1>4, SupervisorAssumption
  DEF Aging, CleanUp, StopReturns, CancelTask, Joined, Unsubscribe, task,
      client, health, IInv, Flags, Places, Times, Stale, Ancient
<1>5. CASE Environment
  BY <1>5, SupervisorAssumption
  DEF Aging, Environment, Connect, Drop, Answer, Succeeds, Raises, Tick, Due,
      TaskDue, Aged, task, health, IInv, Flags, Places, Times, Stale, Ancient
<1>6. CASE UNCHANGED vars
  BY <1>6, SupervisorAssumption
  DEF Aging, vars, task, client, health, IInv, Flags, Places, Times, Stale,
      Ancient
<1>. QED
  BY <1>1, <1>2, <1>3, <1>4, <1>5, <1>6 DEF Next

\* The heartbeat of a READY listener is on time.
LEMMA BeatingStep == IInv /\ [Next]_vars => Beating'
<1>. SUFFICES ASSUME IInv, [Next]_vars PROVE Beating'
  OBVIOUS
<1>1. CASE Supervise
  <2>1. CASE Begin
    BY <2>1, SupervisorAssumption
    DEF Beating, Begin, Changed, KeepsHandlers, NothingWritten, Resumes, client,
        IInv, Flags, Places, Times, Active, Asked
  <2>2. CASE Started
    BY <2>2, SupervisorAssumption
    DEF Beating, Started, Activate, Resolve, BecomeReady, Fail, Finish,
        Disconnected, Changed, Written, NotWritten, NothingWritten, Resumes,
        client, IInv, Flags, Places, Times, Active, Asked
  <2>3. CASE Resolved
    BY <2>3, SupervisorAssumption
    DEF Beating, Resolved, Activate, Resolve, BecomeReady, Fail, Finish,
        Disconnected, Changed, Written, NotWritten, NothingWritten, Resumes,
        client, IInv, Flags, Places, Times, Active, Asked
  <2>4. CASE CallRaised
    BY <2>4, SupervisorAssumption
    DEF Beating, Calling, CallRaised, Fail, Finish, Disconnected, Changed, KeepsHandlers,
        NothingWritten, Resumes, client, IInv, Flags, Places, Times, Active,
        Asked
  <2>5. CASE FloodLimit
    BY <2>5, SupervisorAssumption
    DEF Beating, Calling, FloodLimit, Finish, Changed, KeepsHandlers, NothingWritten,
        Resumes, client, IInv, Flags, Places, Times, Active, Asked
  <2>6. CASE CancelledInside
    BY <2>6, SupervisorAssumption
    DEF Beating, Calling, CancelledInside, Finish, Disconnected, Changed, KeepsHandlers,
        NothingWritten, Resumes, client, IInv, Flags, Places, Times, Active,
        Asked
  <2>7. CASE Lost
    BY <2>7, SupervisorAssumption
    DEF Beating, Lost, Finish, Changed, KeepsHandlers, NothingWritten, Resumes,
        client, IInv, Flags, Places, Times, Active, Asked
  <2>8. CASE WaitOver
    BY <2>8, SupervisorAssumption
    DEF Beating, WaitOver, Attempt, Connecting, KeepsHandlers, Activate,
        Resolve, BecomeReady, Fail, Finish, Disconnected, Changed, Written,
        NotWritten, NothingWritten, Resumes, client, IInv, Flags, Places, Times,
        Active, Asked
  <2>9. CASE Cancelled
    BY <2>9, SupervisorAssumption
    DEF Beating, Cancelled, Finish, Changed, KeepsHandlers, NothingWritten,
        client, IInv, Flags, Places, Times, Active, Asked
  <2>10. CASE HeartbeatJoined
    BY <2>10, SupervisorAssumption
    DEF Beating, HeartbeatJoined, Changed, client, health, IInv, Flags, Places,
        Times, Active, Asked
  <2>11. CASE Closed
    BY <2>11, SupervisorAssumption
    DEF Beating, Closed, Changed, client, health, IInv, Flags, Places, Times,
        Active, Asked
  <2>. QED
    BY <1>1, <2>1, <2>2, <2>3, <2>4, <2>5, <2>6, <2>7, <2>8, <2>9, <2>10, <2>11 DEF Supervise
<1>2. CASE Heartbeat
  BY <1>2, SupervisorAssumption
  DEF Beating, Heartbeat, Beat, BeatEnds, Eligible, Written, NotWritten,
      NothingWritten, task, client, IInv, Flags, Places, Times, Active, Asked
<1>3. CASE StopBegins
  BY <1>3, SupervisorAssumption
  DEF Beating, StopBegins, Changed, client, health, IInv, Flags, Places, Times,
      Active, Asked
<1>4. CASE CleanUp
  BY <1>4, SupervisorAssumption
  DEF Beating, CleanUp, StopReturns, CancelTask, Joined, Unsubscribe, task,
      client, health, IInv, Flags, Places, Times, Active, Asked
<1>5. CASE Environment
  BY <1>5, SupervisorAssumption
  DEF Beating, Environment, Connect, Drop, Answer, Succeeds, Raises, Tick, Due,
      BeatDue, Aged, Left, task, health, IInv, Flags, Places, Times, Active,
      Asked
<1>6. CASE UNCHANGED vars
  BY <1>6, SupervisorAssumption
  DEF Beating, vars, task, client, health, IInv, Flags, Places, Times, Active,
      Asked
<1>. QED
  BY <1>1, <1>2, <1>3, <1>4, <1>5, <1>6 DEF Next

\* Handlers are complete whenever the state is READY.
LEMMA ServingStep == IInv /\ [Next]_vars => Serving'
<1>. SUFFICES ASSUME IInv, [Next]_vars PROVE Serving'
  OBVIOUS
<1>1. CASE Supervise
  <2>1. CASE Begin
    BY <2>1
    DEF Serving, Begin, Changed, KeepsHandlers, Resumes, IInv, Asked, Places,
        Leaving
  <2>2. CASE Started
    BY <2>2
    DEF Serving, Started, Activate, Resolve, BecomeReady, Unresolved, Fail,
        Finish, Disconnected, Changed, Resumes, IInv, Asked, Places, Leaving
  <2>3. CASE Resolved
    BY <2>3
    DEF Serving, Resolved, Activate, Resolve, BecomeReady, Unresolved, Fail,
        Finish, Disconnected, Changed, Resumes, IInv, Asked, Places, Leaving
  <2>4. CASE CallRaised
    BY <2>4
    DEF Serving, CallRaised, Fail, Finish, Disconnected, Changed, KeepsHandlers,
        Resumes, IInv, Asked, Places, Leaving
  <2>5. CASE FloodLimit
    BY <2>5
    DEF Serving, FloodLimit, Finish, Changed, KeepsHandlers, Resumes, IInv,
        Asked, Places, Leaving
  <2>6. CASE CancelledInside
    BY <2>6
    DEF Serving, CancelledInside, Finish, Disconnected, Changed, KeepsHandlers,
        Resumes, IInv, Asked, Places, Leaving
  <2>7. CASE Lost
    BY <2>7
    DEF Serving, Lost, Finish, Changed, KeepsHandlers, Resumes, IInv, Asked,
        Places, Leaving
  <2>8. CASE WaitOver
    BY <2>8
    DEF Serving, WaitOver, Attempt, Connecting, KeepsHandlers, Activate,
        Resolve, BecomeReady, Unresolved, Fail, Finish, Disconnected, Changed,
        Resumes, IInv, Asked, Places, Leaving
  <2>9. CASE Cancelled
    BY <2>9
    DEF Serving, Cancelled, Finish, Changed, KeepsHandlers, IInv, Asked, Places,
        Leaving
  <2>10. CASE HeartbeatJoined
    BY <2>10
    DEF Serving, HeartbeatJoined, Changed, IInv, Asked, Places, Leaving
  <2>11. CASE Closed
    BY <2>11
    DEF Serving, Closed, Changed, IInv, Asked, Places, Leaving
  <2>. QED
    BY <1>1, <2>1, <2>2, <2>3, <2>4, <2>5, <2>6, <2>7, <2>8, <2>9, <2>10, <2>11 DEF Supervise
<1>2. CASE Heartbeat
  BY <1>2
  DEF Serving, Heartbeat, Beat, BeatEnds, task, IInv, Asked, Places, Leaving
<1>3. CASE StopBegins
  BY <1>3
  DEF Serving, StopBegins, Changed, IInv, Asked, Places, Leaving
<1>4. CASE CleanUp
  BY <1>4
  DEF Serving, CleanUp, StopReturns, CancelTask, Joined, Unsubscribe, task,
      IInv, Asked, Places, Leaving
<1>5. CASE Environment
  BY <1>5
  DEF Serving, Environment, Connect, Drop, Answer, Tick, task, IInv, Asked,
      Places, Leaving
<1>6. CASE UNCHANGED vars
  BY <1>6
  DEF Serving, vars, task, IInv, Asked, Places, Leaving
<1>. QED
  BY <1>1, <1>2, <1>3, <1>4, <1>5, <1>6 DEF Next

LEMMA StepInv == IInv /\ [Next]_vars => IInv'
  BY FlagsStep, PlacesStep, TimesStep, AskedStep, AnsweredStep, AgingStep, BeatingStep,
     ServingStep DEF IInv

\* The inductive invariant holds in every reachable state.
THEOREM Invariance == Spec => []IInv
  BY InitInv, StepInv, PTL DEF Spec

-----------------------------------------------------------------------------
\* Every variable keeps its type.
THEOREM TypeCorrect == Spec => []TypeOK
<1>1. IInv => TypeOK
  BY Typed DEF IInv
<1>. QED
  BY <1>1, Invariance, PTL

\* A client that is gone for longer than the maximum age, and a listener that
\* stays in one state other than READY for longer than the allowance and the
\* maximum age, are reported unhealthy by the probe.
THEOREM ProbeNoticesTrouble == Spec => []TroubleIsNoticed
<1>1. IInv => TroubleIsNoticed
  BY SupervisorAssumption DEF IInv, Aging, Times, TroubleIsNoticed, Healthy, Stale, Ancient
<1>. QED
  BY <1>1, Invariance, PTL

\* A listener that is READY and connected is reported healthy, if the file
\* can be written: each beat comes before the file is one interval old.
THEOREM ProbeRaisesNoFalseAlarm == Spec => []NoFalseAlarm
<1>1. IInv => NoFalseAlarm
  BY SupervisorAssumption DEF IInv, Beating, Times, NoFalseAlarm, Healthy, Stale
<1>. QED
  BY <1>1, Invariance, PTL

\* When subscriptions are withdrawn the connection is closed, unless closing
\* it raised or was cancelled.
THEOREM ConnectionClosed == Spec => []ClosedAtEnd
<1>1. IInv => ClosedAtEnd
  BY DEF IInv, Asked, Answered, ClosedAtEnd
<1>. QED
  BY <1>1, Invariance, PTL

-----------------------------------------------------------------------------
(* The safety part of ListenerPromise *)

\* Steps of the listener that do not end it.
LEMMA ProgressMaps ==
    ASSUME IInv', pc # "ended", pc' # "ended", handlers \subseteq handlers',
           UNCHANGED <<stop_event, subscribed>>
    PROVE  Promise!Progress
  BY DEF IInv, Serving, Promise!Progress

LEMMA EndMaps ==
    ASSUME IInv, IInv', pc \in {"joining", "closing"}, pc' = "ended",
           UNCHANGED <<stop_event, subscribed, handlers>>
    PROVE  Promise!End
  BY DEF IInv, Asked, Leaving, Promise!End

\* Each step is one of ListenerPromise or a stutter.
LEMMA StepMaps == IInv /\ IInv' /\ [Next]_vars => [Promise!Next]_(Promise!vars)
<1>. SUFFICES ASSUME IInv, IInv', [Next]_vars PROVE [Promise!Next]_(Promise!vars)
  OBVIOUS
<1>1. CASE Supervise
  <2>1. UNCHANGED <<stop_event, subscribed>>
    BY <1>1
    DEF Supervise, Begin, Started, Resolved, CallRaised, FloodLimit, CancelledInside,
        Lost, WaitOver, Cancelled, HeartbeatJoined, Closed, Resumes
  <2>2. handlers \subseteq handlers'
    BY <1>1
    DEF IInv, Serving, Supervise, Begin, Started, Resolved, CallRaised, FloodLimit,
        CancelledInside, Lost, WaitOver, Cancelled, HeartbeatJoined, Closed, Attempt,
        Connecting, Activate, Resolve, BecomeReady, KeepsHandlers
  <2>3. pc # "ended"
    BY <1>1
    DEF Calling, Supervise, Begin, Started, Resolved, CallRaised, FloodLimit, CancelledInside,
        Lost, WaitOver, Cancelled, HeartbeatJoined, Closed
  <2>4. CASE pc' # "ended"
    BY <2>1, <2>2, <2>3, <2>4, ProgressMaps DEF Promise!Next
  <2>5. CASE pc' = "ended"
    <3>1. HeartbeatJoined \/ Closed
      BY <1>1, <2>5
      DEF Supervise, Begin, Started, Resolved, CallRaised, FloodLimit, CancelledInside,
          Lost, WaitOver, Cancelled, Attempt, Connecting, Activate, Resolve, BecomeReady,
          Fail, Finish, Disconnected
    <3>2. pc \in {"joining", "closing"} /\ handlers' = handlers
      BY <3>1 DEF HeartbeatJoined, Closed
    <3>. QED
      BY <2>1, <2>5, <3>2, EndMaps DEF Promise!Next
  <2>. QED
    BY <2>4, <2>5
<1>2. CASE StopBegins
  BY <1>2
  DEF IInv, Asked, Leaving, StopBegins, Changed, Promise!Next, Promise!Ask
<1>3. CASE \E c \in Channels : Unsubscribe(c)
  <2>1. PICK c \in Channels : Unsubscribe(c)
    BY <1>3
  <2>2. Promise!Withdraw(c)
    BY <2>1 DEF IInv, Asked, Unsubscribe, task, Promise!Withdraw
  <2>. QED
    BY <2>2 DEF Promise!Next
<1>4. CASE StopReturns \/ CancelTask \/ Joined
  BY <1>4 DEF StopReturns, CancelTask, Joined, task, Promise!vars
<1>5. CASE Heartbeat
  BY <1>5 DEF Heartbeat, Beat, BeatEnds, task, Promise!vars
<1>6. CASE Environment
  BY <1>6 DEF Environment, Connect, Drop, Answer, Tick, task, Promise!vars
<1>7. CASE UNCHANGED vars
  BY <1>7 DEF vars, task, Promise!vars
<1>. QED
  BY <1>1, <1>2, <1>3, <1>4, <1>5, <1>6, <1>7 DEF Next, CleanUp

\* The listener keeps the safety part of what run_workflows relies on: READY
\* means that all subscriptions have their handlers, it ends only after stop(),
\* and subscriptions are withdrawn only when it has ended.
THEOREM Implements == Spec => Promise!Spec
<1>1. Init => Promise!Init
  BY DEF Init, Promise!Init
<1>. QED
  BY <1>1, InitInv, StepInv, StepMaps, PTL DEF Spec, Promise!Spec

=============================================================================
