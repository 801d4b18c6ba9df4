# Listing-Pulse: a verification development

Listing-Pulse listens to the Telegram channels of two Korean exchanges, reads
listing notices, and places a leveraged market order with a trailing stop on
Binance futures for every asset a notice lists. This directory holds TLA+
models of its concurrent core, TLC configurations that check them on small
instances, and proofs that TLAPS checks for every value of the constants.

    tlc -config MCAccessGate.cfg MCAccessGate      one run (PROJECT.json lists all)
    tlapm AccessGateProofs.tla                     one proof module

Source paths below are relative to the repository.

## 1. The system

One process, one asyncio event loop. Tasks interleave only where they suspend:
in a REST call (`asyncio.to_thread`), in a condition, a lock, a queue or a timer.
That rule decides the grain of every action below: what happens between two
suspensions is one step.

| Component | State | Operations | Interacts with | Hard behaviour |
|---|---|---|---|---|
| Access gate (`binance_controller.py` 373-405) | two counters, a flag, one condition | enter and leave as a trade or as a refresh, wait, be cancelled | every order, the maintenance loop | wake-ups lost or overtaken, cancellation of a notified waiter, starvation |
| Order workflow (`binance_controller.py` 62-224, 331-371) | metadata snapshot and its age, confirmed leverage and its age, one lock per symbol | `place_market_order`, refresh, periodic loop, stop | gate, price cache, Binance | concurrent orders for one symbol share an account-wide leverage; every answer can be lost; values age while a call waits |
| Order sizing (`binance_controller.py` 275-329) | none | choose leverage, round, clamp, filter | brackets and lot rules of Binance | strict and half-open comparisons, rounding into another bracket |
| Channel controller (`telegram_controller.py`) | bounded queue, worker, accepting flag | receive, handle, start, stop | Telegram callbacks, dispatch | full queue, sentinel among waiting puts, failing handlers |
| Telegram supervisor (`telegram_integration.py`) | connection, subscriptions, listener state, backoff | connect, activate, reconnect, stop, unsubscribe | runtime, channel controllers, heartbeat | stop during start, flood waits, cancellations from inside Telethon, failures in any order |
| Heartbeat and health check (`telegram_integration.py` 397-460, `healthcheck.py`) | age of one file | refresh while eligible, probe | supervisor, container runtime | a fresh file that hides trouble, a stale one that raises a false alarm |
| Dispatch (`event_to_trade.py`) | none | parse, one order per asset, gather | workflow | one order of several fails |
| Runtime (`trade_interface.py`, `main.py`) | what was started | start all, wait, clean up | everything | partial startup, order of the cleanup, failures in the cleanup |
| Price cache (`binance_price_cache.py`) | newest price per symbol | update by batch, require | workflow, price stream | a batch that fails half-way |
| Parsers, factory, settings, logger, profiler, entry points | none | pure functions and wiring | | |
| Research replay (`binance_tick_feed.py`, `exit_strategy.py`, `helper.py`) | archive cache on disk | read a range of trades, simulate two exits, find the maximum | Binance; nothing in the service | pages and windows that cut equal times, trades made meanwhile, interrupted downloads, checks hit exactly, comparisons of floats |
| Plots and notebooks (`research/`) | none | drawing, one-off analysis | the replay | |

What makes each correct: a refresh never runs beside an order, and nobody waits
at the gate for ever; an order executes at the leverage and with the metadata it
was sized for, and a caller told of success has a protected position; a sized
order respects budget, safety distance and the limits of its lot; messages are
handled in order, and a stop drains them and returns; startup and shutdown keep
their order through every failure; the listener reconnects after any failure, ends
when asked, and the health check tells its state in time; a simulation computes the
same however its trades were fetched. `PROJECT.json` lists the hazards by source
line with the properties that would catch them.

## 2. Modules

    TradeGate          what the gate promises          <- implemented by AccessGate
    AccessGate         counters, flag, condition
    AccessGateProofs     its invariants and the refinement, proved
    OrderPromise       what a caller of an order gets  <- implemented by OrderWorkflow
    OrderWorkflow      calls, loop, leverage; instantiates AccessGate
    OrderWorkflowProofs  its safety properties and OrderPromise, proved
    OrderSizing        leverage and quantity
    OrderSizingProofs    its properties, proved
    ChannelPromise     what the runtime gets from a channel
                                            <- implemented by ChannelController
    ChannelController  queue, callbacks, worker, stop
    ChannelControllerProofs  its safety properties and the refinement, proved
    ListenerPromise    what the runtime gets from the listener
                                            <- implemented by TelegramSupervisor
    TelegramSupervisor supervisor, heartbeat, probe, and the owner that stops them
    TelegramSupervisorProofs its safety properties and the refinement, proved
    Runtime            startup, handlers, cleanup; relies on the channel's promises
    RuntimeProofs        its safety properties, proved
    BinanceTickFeed    pages, windows, daily archives and their cache
    ExitStrategy       trailing stop, volume exit, maximum, as loops over trades
    BinanceTickFeedProofs  the invariant of the feed, step by step
    Replay             a simulation drawing from the feed; composes the two
    ReplayProofs         the properties of the replay, proved
    MC...              those with a specification, for TLC

**AccessGate.** `at[t]` says where a task is; `notified` are the parked tasks
whose future a `notify_all` (or the notification a cancelled waiter hands on) has
set. The lock of the condition is never held across an `await`, so each
`async with self._condition` block is one action. A notified task re-evaluates
its predicate in a later step (`TradeWake`, `MaintWake`) or parks again
(`WaitAgain`); in between anyone may take the place. `Cancel` is the path through
`Condition.wait` and the `finally` of `_trade_access`.

**TradeGate** is the same promise with three sets and no mechanism: a refresh
begins only when nobody is inside or queued, a trade queues only behind a
running refresh. `AccessGate` implements it under the mapping `Contract`.

**OrderWorkflow.** `pc` is the suspension point of each call; `running` names the
task that has not suspended since its last step, so that the chain from the
metadata check through the gate to the sizing cannot be interleaved, exactly as
on the event loop. The gate is instantiated, not abstracted. Sizing is reduced
to the leverage it selects. Ages (`price_fresh`, `metadata_fresh`,
`confirmation_fresh`) are lowered by the environment. Every REST call can succeed,
fail without effect, or fail after the exchange acted; `account` and `position`
are the exchange's side. A leverage request takes two steps: the exchange applies it
while `asyncio.to_thread` is suspended (`LeverageApplied`, noted in `answer`), and the
controller learns of it later (`LeverageAccepted`) or never (`LeverageFails`).
`uncertain` and `suspect` are history: `uncertain[s]` begins when the exchange changes
the leverage and ends when an answer arrives.

**OrderPromise** is what the caller may rely on: a call opens at most one
position, asks for a stop only for a position it opened, and returns a result
only when that stop is in place. An exception promises nothing of the position.

**OrderSizing** computes in integers (thousandths for rates), exact as `Decimal` is
for these operations. One step sizes one request. A quantity above the maximum of its lot
is cut to it and not rounded again, as in the code.

**ChannelController.** Telethon dispatches updates one at a time
(`sequential_updates`), so a connection has one callback under way (`updating`).
`asyncio.Queue` is external and modelled as it behaves: `putters` are the parked
puts, `woken` those a get has woken and that have not run. What becomes of a
callback whose connection is lost is not visible in the source, so both outcomes
are allowed (`CallbackCancelled`, `CallbackGoesOn`), also while the channel drains. `stop()`
may come after the connection was stopped, as the runtime does it, or alone, as
`tests/integration/test_shared_telegram_lifecycle.py` does it.

**ChannelPromise** is what `run_workflows` relies on when it stops a channel: a message is
handled at most once and alone, `stop()` closes the channel to new ones, and when it has
returned, what was queued at the call has been handled and nothing is handled any
more. `Place` and `Stage` map the channel's state to it. A message that waits for room
may be lost with its connection, or be left behind `stop()`; one in the queue may not.

**TelegramSupervisor.** Three tasks: `pc` is the suspension point of `run_forever`,
`beat` that of the heartbeat, `owner` that of the cleanup in `run_workflows`. One
action runs a task to its next suspension, so an action such as `Resolved` contains
the rest of the loop over the subscriptions, the change of state, `record_health`
and the reset of the backoff. Telethon's calls answer as they like (`Answer`): they
return, raise, raise a flood wait (from `run_until_disconnected` too), or raise a
`CancelledError` nobody asked for.
`cancelling` is the owner's cancellation until the task has run. `since`,
`file_age`, `timer` and `beat_timer` count ticks; `Tick` is blocked while a task has
something to do, that is, the event loop is responsive. The heartbeat file is its
age; the probe of `check_health` is `Healthy`. `offline`, `unwritten` and `unclosed`
are history, and `faults` bounds the failures.

**ListenerPromise** is what `run_workflows` relies on: readiness is claimed only while
every subscription has its handler, the listener ends only when asked, then does
end, and a handler never outlives its subscription.

**BinanceTickFeed, ExitStrategy, Replay.** The feed is a generator, so an action asks
for one page, or gets or reads one archive, and its consumer or a kill may stop it
between any two. The exchange goes on trading while pages are read. The answers of
Binance are sets of trade ids, handed out in their order (`Matching`, `Page`,
`Ascending`); prices and quantities are natural numbers, they count the steps of the
exchange. `ExitStrategy` has the loops of the simulations as recursive functions over
a sequence of trades; `Replay` compares what they find page by page with definitions
over the whole range. The code compares binary floats where the model has whole units,
and 2 is not `<= 10 * (1 - 80/100)`, nor 0.1 + 0.1 + 0.1 `<= 0.6 * 0.5`. Where the two
sides are equal, or for the sums of the volume exit within `SumError` of each other,
either answer is therefore allowed: the exits take the set of the `ties` that exit, and
the properties hold for every such set. For prices below 10^11 units one product of
floats can turn an exact tie only.

**Runtime.** `phase` follows `run_workflows` through its `try` and `finally`. A
channel is reduced to what ChannelPromise says: `channel[c]` goes from
`open` over `draining` to `stopped`, or to `broken` when its stop raises before the
sentinel and leaves a live worker behind. `awaited[c]` are the orders the current
handler gathers; `HandlerOver` is the rule of `asyncio.gather`. What a stop is called on
and what it achieves are kept apart: `transport` and `controller` are the task and the
object, `connected` and `streaming` whether the connection and the price stream are up.
`TransportStopped` may raise and leave the connection up; the `finally` of the listener
disconnects once more, and may raise or be cancelled in it (`ListenerDisconnects`);
`stop_price_stream` may raise with the stream up, in a stop or in a start that failed
(`CloseController`, `StartController`). Cancellation
of `run_workflows` itself is one of the ways `BodyRaises`. All workflows of a
runtime share one transport and one controller, since `start_trader` passes them on.

## 3. Runs

| Run | Instance | Shows |
|---|---|---|
| `gate` | 5 tasks, fair | types, exact counters, exclusion, no lost wake-up, the contract with its liveness |
| `workflow_safety` | 3 calls and the loop, 2 leverages, one symbol | metadata and leverage an order runs with, no skip after a failed entry, the promise to the caller |
| `workflow_live` | 2 calls and the loop, fair | every call ends |
| `sizing` | 6048 requests | budget, safety where the order lands, limits of the lot (and its step, unless cut), justified refusals |
| `channel` | 3 messages, queue of 2, fair | order, drain, nobody late, the promise to the runtime, stop returns, queued is handled |
| `runtime` | 2 channels, 3 orders, backlog 1, fair | controller open for orders, abandoned orders only, every stop made and what is still up explained by a failed one, reported failures, shutdown ends |
| `supervisor` | 2 channels, 3 failures, fair | the probe notices trouble in time and raises no false alarm, the connection is closed at the end, the promise to the runtime with its liveness, recovery |
| `replay` | 5 trades of 2 kinds, 2 readings | the range is handed out without gap or repetition, the cache stays whole, simulations find what their definitions find, however floats round |
| `finding_*` | as above | four statements of the documents that the code does not keep (section 5) |

Why the bounds are enough. *Gate:* five tasks give two kinds of waiters, each
with a notified and an unnotified member, beside one inside. *Workflow:* all
calls use one symbol, where they contend; symbols share only the gate, which
does not tell them apart. Three calls make a lock holder and two waiters, the
loop adds the refresh. Two leverages suffice because only equality matters.
*Channel:* the queue fills with two, the third parks or is with the worker, and
the sentinel may be third or fourth. *Runtime:* three orders make a notice of
two beside one of the other channel. *Sizing:* the margins and prices lie on and
around the bracket limits and lots; its properties are proved for all values.
*Supervisor:* one channel by number and one by username make an activation with and
one without a suspension; `Interval` 2, `MaxAge` 3 and `Allowance` 2 are the smallest
values that tell the three limits apart, delays 1 to 3 cap the backoff after one
doubling, a flood wait is none or longer than the allowance. Three failures put
one into a recovery from another and a third into the cleanup; its safety
properties are proved for all values. *Replay:* windows and pages of two, days and
a REST history of one, four points of time: equal times, a full page that ends in
the middle of a window, empty windows and a range across the archive limit all
occur, and the second reading meets what the first left on disk; a stop rate of 25
makes a price of 3 tie with a high of 4, `SumError` 50 makes every sum at most half a unit
from its threshold too close to tell; its invariants are proved for all values.
`MCOrderWorkflow_*` use symmetry over calls in safety runs only; runs with liveness
have none. `CHECK_DEADLOCK FALSE` is used for the sizing step, the channel, the
runtime, the supervisor and the replay, which stop when their work is done.

### Fairness

The event loop runs every ready task, and every REST call returns or raises
(`asyncio.to_thread` over an HTTP client with timeouts): weak fairness on each
task's steps. A task notified by the gate is queued ahead of a timer that fires
later, so the periodic loop cannot overtake a waiting refresh for ever: strong
fairness on the wake of a refresh in OrderWorkflow, needed because its predicate
becomes true and false again as others pass. In TelegramSupervisor a call of Telethon
eventually answers (`WF` on `Connect` and `Answer`: its connection and request retries
are bounded) and time passes (`WF` on `Tick`); `Recovers` further assumes an authorised
session, as the session file provides it, and finitely many failures. The timing
properties assume `Interval <= MaxAge` (spec/architecture.md:41). Nothing else is
assumed of Telegram, of Binance, of operators, or that a shutdown is requested.

### Mutants

Each module has a section of faulty variants: a guard dropped, a counter
forgotten, a notification not passed on. `PROJECT.json` pairs every property with
one that breaks it: substituted for the definition it varies, TLC finds the
property violated on the same instance.

## 4. Proofs

| Module | Theorem | For every value of the constants |
|---|---|---|
| AccessGateProofs | `TypeCorrect`, `CountersCorrect`, `RefreshRunsAlone`, `WaitersAreWoken` | the safety invariants of the gate |
| | `Implements` | each behaviour of AccessGate is one of TradeGate |
| OrderSizingProofs | `BudgetHolds`, `FiltersPass`, `SafeAfterRounding`, `RefusalJustified` | the four properties of sizing |
| OrderWorkflowProofs | `TypeCorrect`, `SnapshotKept`, `Confirmed`, `EntryAtItsLeverage`, `AsksAfterFailedEntry` | the safety properties of the calls of an order |
| | `KeepsPromise` | each behaviour of OrderWorkflow is one of OrderPromise |
| ChannelControllerProofs | `TypeCorrect`, `InOrder`, `Drains`, `LateOnesShutOut` | the safety properties of the channel |
| | `KeepsPromise` | each behaviour of ChannelController is one of ChannelPromise |
| TelegramSupervisorProofs | `TypeCorrect`, `ProbeNoticesTrouble`, `ProbeRaisesNoFalseAlarm`, `ConnectionClosed` | the safety properties of the supervisor and its probe |
| | `Implements` | each behaviour of TelegramSupervisor is one of ListenerPromise |
| RuntimeProofs | `TypeCorrect`, `CleanupAlwaysComplete`, `NothingElseOutlives`, `OrdersOnOpenController`, `FailuresReported` | the safety properties of a run from startup to cleanup |
| ReplayProofs | `TypeCorrect`, `FeedReadsAll`, `ArchivesComplete` | the promises of the tick feed (its steps are in BinanceTickFeedProofs) |
| | `SimulationsCorrect` | the simulations find what their definitions over all trades say |

*Gate.* From `TasksAssumption` (the tasks are finitely many) alone. Exclusion is
not inductive: the predicates read the counters, so the counters must first be
tied to the sets they count (`CountersExact`, with cardinalities of finite sets),
and a counter can be trusted after a wake-up only if just parked tasks are
notified (`NotifiedParked`). `IInv` is the conjunction of these with the no-lost-wake-up
property; `StepInv` has one step per action. The refinement maps each action to an
action of the contract or to a stutter.

*Sizing.* From `SizingAssumption`: positive margins and prices, bracket tables
whose ranges are increasing and whose maintenance rates do not fall. The invariant
says how outcome, leverage and quantity relate to the request; `FiltersPass` says
on the step or cut to the maximum, since the code does not round after the cut;
`SafeAfterRounding` needs that rounding only moves a notional down, into a bracket
with a rate no higher.

*Workflow.* From `WorkflowAssumption`: finitely many calls, a maintenance loop that is
none of them, marks that are no leverages. The calls, symbols and leverages are
arbitrary, where the runs have three calls for one symbol. The gate's invariant is
proved again for its instance (`GateHeld`), because tlapm cannot cite a theorem of an
instantiated module. On it stands that a call past the gate is inside it (`Admitted`),
so that a refresh ends with nobody sized (`SnapshotStable`). `EntryLeverageInForce` is
inductive only with it: a second call that changes the account's leverage has been sized
with the same metadata, so it asks for the same leverage. `Suspected` with `Sized` gives
`AsksAfterFailedEntry`: nothing is confirmed after a failed entry, and a sized order has a
leverage to compare with that nothing. `Answered` says that a leverage applied for a
pending request is the one in force, so that what an answer confirms is true when it
arrives. `Locks` places whoever waits for a lock in its
line and whoever asks the exchange at the front, without which a release could take the
wrong call out of it. `Positions` (a call has opened a position exactly when it goes on
to its stop) is what the refinement of OrderPromise needs.

*Channel.* From `ChannelAssumption`: finitely many messages, a sentinel and two worker
states that are no messages, a positive capacity. The order of what was handled is not
inductive: it needs the order of the queue and between the two (`Ordered`), and a
message may join the queue only because the update loop runs the callback of the
newest arrival alone (`Dispatched`), because each put waits once, parked or woken
(`Waiting`), and because a message in the queue is past its callback (`Passed`). A
cancelled put that hands its wake-up on keeps `Waiting` (`CancelPutsProperties`).
`Draining` says what is before and behind the sentinel; `Stopping` where the
sentinel may be and that a put waiting after `stop()` was waiting before. Sequences
enter through two shapes, `Extends` and `Follows`, so that the steps reason about
positions only. The refinement of ChannelPromise needs that a message whose callback is
over is in exactly one place (`Once`); it then holds for callbacks that outlive their
connection too, of which the order says nothing.

*Supervisor.* From `SupervisorAssumption`: `Interval <= MaxAge`, delays in order, all
limits positive. Time is the difficulty: that the probe notices trouble is inductive
only as `Aging` (the file is not younger than the last connection, nor, unless READY,
younger than the state less the allowance), that it raises no false alarm only as
`Beating` (age of the file plus time to the next beat within one interval). `Asked`
orders the owner's steps, `Answered` says what a call can have returned, `Serving`
ties READY to the handlers. The refinement shows only the safety part; that the
listener does end (`Promise!FairSpec`) is checked by TLC.

*Runtime.* From `RuntimeAssumption` (finite sets, a natural backlog). `IInv` says
which parts are up in each phase (`Phases`), that a connection or stream that is up
after its stop has a failed stop to blame (`Up`), that what raised is recorded
(`Accounted`), that a channel without a worker awaits nothing (`Staffed`), that
awaited orders were placed (`Placed`), and that a running order is awaited until
a sibling raises (`Held`). The last is the heart of `NothingElseOutlives`: once the
controller is closed no handler awaits anything, so only the raised sibling is left.
A channel appears as what ChannelPromise says of it; that ChannelController keeps it
is proved (`KeepsPromise`).

*Feed.* From `FeedAssumption` (sizes positive, bounds natural) and `TickAssumption`
(prices and quantities natural). That the range is handed out without a gap says
nothing in the middle of a page, so it is not inductive. `FeedInv` adds: between pages
the trades before the window, and in it before `next_id`, are handed out and no others
(`Paging`); between archives those of the days before `date`, all of them over
(`Archives`, `Files`); a trade made behind the reader is late and lies before the
window (`LateOnes`); ids follow the times (`Chronological`). A page is what needs the
ids of a set in order (`Listing`), and that a page which is not full leaves nothing
behind in its window while a full one ends with its largest id (`OldestOnes`). TLC
checked `FeedInv` on the instance of `replay` before it was proved.

*Simulations.* From `ExitAssumption` too. A loop is a recursive function, which must
first be shown to exist and to be what its rounds say. Induction over the natural
numbers is the lemma `Induction`: it speaks of a set of numbers, and follows from the
well-foundedness of finite sets under strict inclusion. `Recursion` and `Chains` make
the rounds of a loop, `HighestSoFar` says that the high watermark is the greatest price so
far, and `Tracks` is the invariant of the volume loop: which interval it watches and
that its volume is the sum over the trades counted there. The sum is that of the
community module, a fold whose order of choice is arbitrary; `VolumeIsSum` relates it
to a sum along the sequence. Which side a tie falls on is a parameter of both loop and
definition, so the proof holds for every rounding.
`TakenBegins` says that what a simulation has drawn is a
beginning of the whole range, `TrailingFinal` that an exit found there is final.

With TLC only: the liveness properties (`CallsEnd`, `StopReturns`, `QueuedIsHandled`,
`RunEnds`, `Recovers`) and the refinements with fairness (`RefinesFairContract`, the
end of a listener), which need fairness and ENABLED. Every safety invariant and every
action property that a passing run checks is proved.

## 5. Findings

Each is a run that TLC must find violated; `PROJECT.json` quotes the lines.

* `finding_skip`, `SkipOnlyWhenSet`: a leverage request that raised after it was
  applied leaves the previous confirmation in place (`binance_controller.py` 357); a
  later call skips its request and enters at another leverage than it was sized for.
* `finding_price`, `EntryPriceFresh`: the price is checked before the leverage is
  confirmed (235, 243), and that may wait for a lock and a REST call.
* `finding_auth`, `ReadyAuthenticated`: `start()` takes a connected client for a started
  one (`telegram_integration.py` 239). If authentication raised after the connection
  was up, the next attempt skips it, and a listener with numeric channels only is
  READY, and healthy, without an authorised session.
* `finding_abandoned`, `ClosedWhenDrained`: `asyncio.gather` abandons the other orders
  of a notice when one raises (`event_to_trade.py` 138); the shutdown drains without
  them and closes the controller while they run. `OnlyAbandonedOutlive` shows that
  nothing else outlives the drain.

Noted without a run:

* A put that had been accepted but was still waiting for room may enqueue its message
  behind the sentinel, and the message is then never handled (`StopDrains` states
  that this is all that can be left behind).
* A quantity above the maximum is cut to it (`binance_controller.py` 288), where
  spec/architecture.md:51 asks for a rejection. The cut is not rounded to the step, so
  a maximum that is off the step is sent as it is (`PassesFilters` says so).
* One leverage per symbol and metadata snapshot, on which `EntryLeverageInForce` rests,
  holds because `event_to_trade.py` 72 passes the same configured callback rate for
  every call: sizing itself is per call (`binance_controller.py` 238).
* What the cancelled listener raises, a failed disconnect included, is dropped by the
  cleanup (`trade_interface.py` 103): a run may end silently with the connection up.
* The exits of the research simulations compare floats, so a trade exactly on the limit
  may or may not exit (section 2). "Drops under" in the docstring of the volume exit is
  `<=` in the code (`exit_strategy.py` 117).
* Each change of state restarts the readiness allowance (`telegram_integration.py` 481):
  a listener that alternates between channel resolution and flood waits keeps its
  heartbeat fresh for longer than the allowance that spec/architecture.md:47 and
  `settings.py` 43 bound. `TroubleIsNoticed` bounds each stay in one state.
* When `run_until_disconnected` returns normally the state stays READY during the
  backoff (316-321); the heartbeat is not refreshed meanwhile, as the client is not
  connected.
* READY may be reported once more after `stop()` was called during `client.start()`; the
  owner's cancellation then ends the listener.
* With a username channel and a session that lost its authorisation, resolution fails
  for ever: `start()` is skipped while the client is connected.
* The disconnect in the `finally` of `run_forever` is itself cancelled if the owner's
  cancellation arrives there (`unclosed`).
* `_iter_rest_ticks` runs ahead of the clock: trades made after their window was read
  are missed when the requested end is in the future (`late`).
* The volume exit counts the trade that ends the benchmark interval nowhere, its
  checks fall behind after an interval without trades, and a feed without a trade
  in the first interval lets `StopIteration` escape.
* A transfer that the server ends early without an error leaves a truncated archive,
  which is renamed into the cache; later replays fail on it (`cut_short`).
* A range older than the REST history that reaches into the present asks for an
  archive that is not published yet, and raises.

## 6. Not modelled

* `BinanceController.start` when it fails half-way; `start_trader`'s checks of the
  pairs; a second cancellation that hits the cleanup itself.
* A callback that outlives its connection inside Runtime (ChannelController has it).
* Parsers, settings, logging, latency profiling, the session script: pure functions,
  configuration, or I/O. The parsers' result, a set of assets, is an input.
* Argument checks of the research utilities, plots and notebooks. Exit rates are whole
  percents. Archives are well formed: a row that does not parse is skipped silently
  (`binance_tick_feed.py` 124).
* A leverage request that the exchange applies only after its call has raised.
* Time in which the event loop is blocked: ages advance only while every task waits.
* The price stream and the parsing of REST responses: I/O on types of the SDK.
* Trading disabled: every call then returns None at once (`binance_controller.py` 152),
  which `Refuse` counts with the calls that raise; no order comes of either.
* Leverage changed on the account by somebody else while a confirmation is fresh.

## 7. Plan

Done: gate, workflow, sizing, channel, supervisor with heartbeat and probe, runtime,
replay; proofs of the safety properties of all of them. Left:

1. **PriceCache**: batches that fail half-way (`binance_price_cache.py` 26).
2. `BinanceController.start` when it fails half-way, composed with Runtime.
3. Runtime over ListenerPromise and ChannelPromise, instead of the reduced states
   it has now.
