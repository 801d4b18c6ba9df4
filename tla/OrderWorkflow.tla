----------------------------- MODULE OrderWorkflow -----------------------------
(***************************************************************************)
(* BinanceController.place_market_order for any number of concurrent calls, *)
(* with the periodic maintenance loop, over the access gate.                *)
(*                                                                          *)
(* The controller runs on one asyncio event loop: a task runs until it      *)
(* suspends, and it suspends only in a REST call (asyncio.to_thread), in    *)
(* the condition of the gate, on a contended leverage lock, or in the loop's*)
(* timed wait.  "running" is the task that has not suspended yet; every     *)
(* other step needs Free, so a chain of calls without a suspension cannot   *)
(* be interleaved.                                                          *)
(*                                                                          *)
(* Decimal sizing is abstracted to the leverage it selects: a snapshot maps *)
(* a symbol to that leverage, to Unusable (not TRADING, no safe leverage,   *)
(* below a minimum: the call raises), or to Absent (not in the rules or not *)
(* in the brackets).  OrderSizing models the arithmetic.  Ages are Booleans *)
(* that the environment lowers: fresh or older than the configured maximum. *)
(***************************************************************************)
EXTENDS Naturals, Sequences, FiniteSets

CONSTANTS
    Trades,          \* calls of place_market_order, each made at most once
    Loop,            \* the task of _create_maintenance_loop
    Symbols,
    SymbolOf,        \* the symbol each call trades
    Leverages,
    Absent,
    Unusable,
    Nobody

Tasks == Trades \cup {Loop}

Listing == Leverages \cup {Absent, Unusable}

ASSUME WorkflowAssumption ==
    /\ IsFiniteSet(Trades)
    /\ Loop \notin Trades
    /\ Nobody \notin Tasks
    /\ SymbolOf \in [Trades -> Symbols]
    /\ Absent \notin Leverages /\ Unusable \notin Leverages
    /\ Absent # Unusable

VARIABLES
    (* the gate *)
    at, notified, active_trades, waiting_trades, maintenance_active,
    (* the controller *)
    running,              \* the task holding the event loop
    pc,                   \* where each task is
    snapshot,             \* market_rules and leverage_brackets
    metadata_fresh,       \* age of _metadata_refreshed_at
    confirmed_leverage,   \* per symbol, Absent when there is no entry
    confirmation_fresh,   \* age of _leverage_confirmed_at
    leverage_lock,        \* per symbol, holder first, then the waiters
    price_fresh,          \* age of the symbol's entry in the price cache
    order,                \* leverage the order of a call was sized for
    priced_fresh,         \* age of the price the order was sized with
    (* the exchange *)
    listing,              \* what a metadata request would return
    account,              \* leverage in force per symbol
    answer,               \* per call: leverage applied for its pending request
    position,             \* per call: none, open or protected
    (* history *)
    uncertain,            \* account changed, and no answer told the controller
    suspect               \* an entry failed since the last confirmation

gateVars == <<at, notified, active_trades, waiting_trades, maintenance_active>>
metadataVars == <<snapshot, metadata_fresh>>
leverageVars == <<confirmed_leverage, confirmation_fresh, leverage_lock>>
orderVars == <<order, priced_fresh>>
exchangeVars == <<account, answer, position>>
historyVars == <<uncertain, suspect>>
vars == <<gateVars, running, pc, metadataVars, leverageVars, price_fresh,
          orderVars, listing, exchangeVars, historyVars>>

Gate == INSTANCE AccessGate

Free == running = Nobody

Goto(u, place) == pc' = [pc EXCEPT ![u] = place]

Suspend == running' = Nobody

KeepRunning(u) == running' = u

Ended == {"done", "failed"}

Inside == {t \in Trades :
              pc[t] \in {"prepare", "confirm", "lockWait", "setting", "entry", "stop"}}

\* A started controller: start() has refreshed the metadata once.
Init ==
    /\ Gate!Init
    /\ running = Nobody
    /\ pc = [u \in Tasks |-> IF u = Loop THEN "sleeping" ELSE "idle"]
    /\ listing \in [Symbols -> Listing]
    /\ snapshot = listing
    /\ metadata_fresh = TRUE
    /\ confirmed_leverage = [s \in Symbols |-> Absent]
    /\ confirmation_fresh = [s \in Symbols |-> FALSE]
    /\ leverage_lock = [s \in Symbols |-> <<>>]
    /\ price_fresh = [s \in Symbols |-> FALSE]
    /\ order = [t \in Trades |-> Absent]
    /\ priced_fresh = [t \in Trades |-> FALSE]
    /\ account \in [Symbols -> Leverages]
    /\ answer = [t \in Trades |-> Absent]
    /\ position = [t \in Trades |-> "none"]
    /\ uncertain = [s \in Symbols |-> FALSE]
    /\ suspect = [s \in Symbols |-> FALSE]

-----------------------------------------------------------------------------
(* Faulty variants of definitions below; see README, "Mutants". *)

ConfirmationHolds_AnyLeverage(t) == confirmation_fresh[SymbolOf[t]]

Invalidate_Nothing(s) == UNCHANGED <<confirmed_leverage, confirmation_fresh>>

RecordConfirmation_KeepsOld(s, leverage) ==
    /\ confirmed_leverage' =
           [confirmed_leverage EXCEPT ![s] = IF @ = Absent THEN leverage ELSE @]
    /\ confirmation_fresh' = [confirmation_fresh EXCEPT ![s] = TRUE]

NotFilled_OffByOne(executed_quantity) == executed_quantity < 0

-----------------------------------------------------------------------------
(* maintain_trading_env, called by the loop and by a trade *)

RequestRefresh(u) ==
    /\ \/ Gate!MaintEnter(u) /\ Goto(u, "refreshing")
       \/ Gate!MaintQueue(u) /\ Goto(u, "refreshWait")
    /\ Suspend
    /\ UNCHANGED <<metadataVars, leverageVars, price_fresh, orderVars, listing,
                   exchangeVars, historyVars>>

EnterRefresh(u) ==
    /\ Free
    /\ pc[u] = "refreshWait"
    /\ Gate!MaintWake(u)
    /\ Goto(u, "refreshing")
    /\ UNCHANGED <<running, metadataVars, leverageVars, price_fresh, orderVars,
                   listing, exchangeVars, historyVars>>

\* A notified task, of either kind, finds its predicate false again.
ParkAgain(u) ==
    /\ Free
    /\ pc[u] \in {"refreshWait", "accessWait"}
    /\ Gate!WaitAgain(u)
    /\ UNCHANGED <<running, pc, metadataVars, leverageVars, price_fresh,
                   orderVars, listing, exchangeVars, historyVars>>

\* A trade whose refresh succeeded goes on to _trade_access without
\* suspending, or raises because its symbol is still missing.
RefreshSucceeds(u) ==
    /\ Free
    /\ pc[u] = "refreshing"
    /\ Gate!MaintExit(u)
    /\ snapshot' = listing
    /\ metadata_fresh' = TRUE
    /\ \/ u = Loop /\ Goto(u, "sleeping") /\ Suspend
       \/ u # Loop /\ listing[SymbolOf[u]] = Absent /\ Goto(u, "failed") /\ Suspend
       \/ u # Loop /\ listing[SymbolOf[u]] # Absent /\ Goto(u, "access")
                   /\ KeepRunning(u)
    /\ UNCHANGED <<leverageVars, price_fresh, orderVars, listing, exchangeVars,
                   historyVars>>

\* Either request raises or returns nothing: the old snapshot stays.  The
\* loop logs the exception and sleeps again.
RefreshFails(u) ==
    /\ Free
    /\ pc[u] = "refreshing"
    /\ Gate!MaintExit(u)
    /\ Goto(u, IF u = Loop THEN "sleeping" ELSE "failed")
    /\ UNCHANGED <<running, metadataVars, leverageVars, price_fresh, orderVars,
                   listing, exchangeVars, historyVars>>

LoopTimeout ==
    /\ Free
    /\ pc[Loop] = "sleeping"
    /\ RequestRefresh(Loop)

\* stop() cancels the loop wherever it is; calls still under way go on.
Stop ==
    /\ Free
    /\ \/ pc[Loop] = "sleeping" /\ UNCHANGED gateVars
       \/ pc[Loop] = "refreshWait" /\ Gate!Cancel(Loop)
       \/ pc[Loop] = "refreshing" /\ Gate!MaintExit(Loop)
    /\ Goto(Loop, "stopped")
    /\ UNCHANGED <<running, metadataVars, leverageVars, price_fresh, orderVars,
                   listing, exchangeVars, historyVars>>

-----------------------------------------------------------------------------
(* place_market_order *)

\* Trading is disabled (the call returns None), or the request does not
\* validate (it raises): the caller gets no order either way.
Refuse(t) ==
    /\ Free
    /\ pc[t] = "idle"
    /\ Goto(t, "failed")
    /\ UNCHANGED <<gateVars, running, metadataVars, leverageVars, price_fresh,
                   orderVars, listing, exchangeVars, historyVars>>

MetadataUsable(s) == metadata_fresh /\ snapshot[s] # Absent

\* _ensure_symbol_metadata
Call(t) ==
    /\ Free
    /\ pc[t] = "idle"
    /\ \/ /\ MetadataUsable(SymbolOf[t])
          /\ Goto(t, "access")
          /\ KeepRunning(t)
          /\ UNCHANGED <<gateVars, metadataVars, leverageVars, price_fresh,
                         orderVars, listing, exchangeVars, historyVars>>
       \/ ~MetadataUsable(SymbolOf[t]) /\ RequestRefresh(t)

Access(t) ==
    /\ running = t
    /\ pc[t] = "access"
    /\ \/ Gate!TradeEnter(t) /\ Goto(t, "prepare") /\ KeepRunning(t)
       \/ Gate!TradeQueue(t) /\ Goto(t, "accessWait") /\ Suspend
    /\ UNCHANGED <<metadataVars, leverageVars, price_fresh, orderVars, listing,
                   exchangeVars, historyVars>>

ResumeAccess(t) ==
    /\ Free
    /\ pc[t] = "accessWait"
    /\ Gate!TradeWake(t)
    /\ Goto(t, "prepare")
    /\ KeepRunning(t)
    /\ UNCHANGED <<metadataVars, leverageVars, price_fresh, orderVars, listing,
                   exchangeVars, historyVars>>

\* The call ends, with a result or an exception, and leaves the gate.
Finish(t, outcome) ==
    /\ Gate!TradeExit(t)
    /\ Goto(t, outcome)
    /\ Suspend

\* _prepare_market_order up to _confirm_leverage.  Even with usable metadata
\* and a fresh price it may raise: at that price the budget may buy less than a
\* minimum.
Prepare(t) ==
    /\ running = t
    /\ pc[t] = "prepare"
    /\ LET s == SymbolOf[t]
       IN  \/ /\ snapshot[s] \in Leverages
              /\ price_fresh[s]
              /\ order' = [order EXCEPT ![t] = snapshot[s]]
              /\ priced_fresh' = [priced_fresh EXCEPT ![t] = TRUE]
              /\ Goto(t, "confirm")
              /\ UNCHANGED <<gateVars, running>>
           \/ Finish(t, "failed") /\ UNCHANGED orderVars
    /\ UNCHANGED <<metadataVars, leverageVars, price_fresh, listing,
                   exchangeVars, historyVars>>

-----------------------------------------------------------------------------
(* _confirm_leverage *)

\* asyncio.Lock lets a newcomer in only when nobody holds it or waits for it.
LockFree(s) == leverage_lock[s] = <<>>

ConfirmationHolds(t) ==
    /\ confirmed_leverage[SymbolOf[t]] = order[t]
    /\ confirmation_fresh[SymbolOf[t]]

\* With the lock free and the confirmation valid the call takes and releases
\* the lock and submits its entry, all without suspending.
Confirm(t) ==
    /\ running = t
    /\ pc[t] = "confirm"
    /\ LET s == SymbolOf[t]
       IN  \/ /\ LockFree(s)
              /\ ConfirmationHolds(t)
              /\ Goto(t, "entry")
              /\ UNCHANGED leverage_lock
           \/ /\ LockFree(s)
              /\ ~ConfirmationHolds(t)
              /\ Goto(t, "setting")
              /\ leverage_lock' = [leverage_lock EXCEPT ![s] = <<t>> \o @]
           \/ /\ ~LockFree(s)
              /\ Goto(t, "lockWait")
              /\ leverage_lock' = [leverage_lock EXCEPT ![s] = Append(@, t)]
    /\ Suspend
    /\ UNCHANGED <<gateVars, metadataVars, confirmed_leverage,
                   confirmation_fresh, price_fresh, orderVars, listing,
                   exchangeVars, historyVars>>

Release(s) == leverage_lock' = [leverage_lock EXCEPT ![s] = Tail(@)]

\* The lock was handed over: the confirmation is looked at again.
ResumeLock(t) ==
    /\ Free
    /\ pc[t] = "lockWait"
    /\ Head(leverage_lock[SymbolOf[t]]) = t
    /\ \/ /\ ConfirmationHolds(t)
          /\ Release(SymbolOf[t])
          /\ Goto(t, "entry")
       \/ /\ ~ConfirmationHolds(t)
          /\ Goto(t, "setting")
          /\ UNCHANGED leverage_lock
    /\ UNCHANGED <<gateVars, running, metadataVars, confirmed_leverage,
                   confirmation_fresh, price_fresh, orderVars, listing,
                   exchangeVars, historyVars>>

RecordConfirmation(s, leverage) ==
    /\ confirmed_leverage' = [confirmed_leverage EXCEPT ![s] = leverage]
    /\ confirmation_fresh' = [confirmation_fresh EXCEPT ![s] = TRUE]

\* The exchange applies a leverage for a request under way, the one asked for
\* or another: asyncio.to_thread is suspended, the controller learns it later.
LeverageApplied(t) ==
    LET s == SymbolOf[t]
    IN  /\ pc[t] = "setting"
        /\ answer[t] = Absent
        /\ \E applied \in Leverages :
               /\ account' = [account EXCEPT ![s] = applied]
               /\ answer' = [answer EXCEPT ![t] = applied]
               /\ uncertain' = [uncertain EXCEPT ![s] = @ \/ applied # account[s]]
        /\ UNCHANGED <<gateVars, running, pc, metadataVars, leverageVars,
                       price_fresh, orderVars, listing, position, suspect>>

\* set_initial_leverage returns: the answer names the leverage asked for.
LeverageAccepted(t) ==
    LET s == SymbolOf[t]
    IN  /\ Free
        /\ pc[t] = "setting"
        /\ answer[t] = order[t]
        /\ answer' = [answer EXCEPT ![t] = Absent]
        /\ uncertain' = [uncertain EXCEPT ![s] = FALSE]
        /\ suspect' = [suspect EXCEPT ![s] = FALSE]
        /\ RecordConfirmation(s, order[t])
        /\ Release(s)
        /\ Goto(t, "entry")
        /\ UNCHANGED <<gateVars, running, metadataVars, price_fresh, orderVars,
                       listing, account, position>>

\* set_initial_leverage raises: the request was refused, its answer was lost
\* before or after the exchange applied it, or the answer names another
\* leverage than the one asked for.
LeverageFails(t) ==
    /\ Free
    /\ pc[t] = "setting"
    /\ answer' = [answer EXCEPT ![t] = Absent]
    /\ Release(SymbolOf[t])
    /\ Finish(t, "failed")
    /\ UNCHANGED <<metadataVars, confirmed_leverage, confirmation_fresh,
                   price_fresh, orderVars, listing, account, position,
                   historyVars>>

-----------------------------------------------------------------------------
(* The entry and the trailing stop *)

\* _invalidate_leverage
Invalidate(s) ==
    /\ confirmed_leverage' = [confirmed_leverage EXCEPT ![s] = Absent]
    /\ confirmation_fresh' = [confirmation_fresh EXCEPT ![s] = FALSE]

NotFilled(executed_quantity) == executed_quantity <= 0

\* The exchange answers the entry with the quantity it executed, in units of
\* the step.  A stop is submitted at once for a filled entry; otherwise the
\* call raises and keeps the confirmed leverage.
EntryAnswered(t) ==
    /\ Free
    /\ pc[t] = "entry"
    /\ \E executed_quantity \in 0..1 :
           /\ position' = IF executed_quantity > 0
                          THEN [position EXCEPT ![t] = "open"] ELSE position
           /\ \/ NotFilled(executed_quantity) /\ Finish(t, "failed")
              \/ ~NotFilled(executed_quantity) /\ Goto(t, "stop")
                                               /\ UNCHANGED <<gateVars, running>>
    /\ UNCHANGED <<metadataVars, leverageVars, price_fresh, orderVars, listing,
                   account, answer, historyVars>>

\* The request raised, before or after the exchange executed it.
EntryFails(t) ==
    LET s == SymbolOf[t]
    IN  /\ Free
        /\ pc[t] = "entry"
        /\ Invalidate(s)
        /\ suspect' = [suspect EXCEPT ![s] = TRUE]
        /\ \E outcome \in {"none", "open"} :
               position' = [position EXCEPT ![t] = outcome]
        /\ Finish(t, "failed")
        /\ UNCHANGED <<metadataVars, leverage_lock, price_fresh, orderVars,
                       listing, account, answer, uncertain>>

StopAccepted(t) ==
    /\ Free
    /\ pc[t] = "stop"
    /\ position' = [position EXCEPT ![t] = "protected"]
    /\ Finish(t, "done")
    /\ UNCHANGED <<metadataVars, leverageVars, price_fresh, orderVars, listing,
                   account, answer, historyVars>>

\* The request raised, before or after the exchange accepted the stop.
StopFails(t) ==
    /\ Free
    /\ pc[t] = "stop"
    /\ \E outcome \in {"open", "protected"} :
           position' = [position EXCEPT ![t] = outcome]
    /\ Finish(t, "failed")
    /\ UNCHANGED <<metadataVars, leverageVars, price_fresh, orderVars, listing,
                   account, answer, historyVars>>

-----------------------------------------------------------------------------
(* The environment *)

\* The all-market ticker stream, independent of the gate, until stop().
PriceTick(s) ==
    /\ Free
    /\ pc[Loop] # "stopped"
    /\ price_fresh' = [price_fresh EXCEPT ![s] = TRUE]
    /\ UNCHANGED <<gateVars, running, pc, metadataVars, leverageVars, orderVars,
                   listing, exchangeVars, historyVars>>

\* The newest price of a symbol passes its maximum age, and with it every
\* older one an order was sized with.
PriceExpires(s) ==
    /\ Free
    /\ price_fresh[s]
    /\ price_fresh' = [price_fresh EXCEPT ![s] = FALSE]
    /\ priced_fresh' = [t \in Trades |-> priced_fresh[t] /\ SymbolOf[t] # s]
    /\ UNCHANGED <<gateVars, running, pc, metadataVars, leverageVars, order,
                   listing, exchangeVars, historyVars>>

MetadataExpires ==
    /\ Free
    /\ metadata_fresh
    /\ metadata_fresh' = FALSE
    /\ UNCHANGED <<gateVars, running, pc, snapshot, leverageVars, price_fresh,
                   orderVars, listing, exchangeVars, historyVars>>

ConfirmationExpires(s) ==
    /\ Free
    /\ confirmation_fresh[s]
    /\ confirmation_fresh' = [confirmation_fresh EXCEPT ![s] = FALSE]
    /\ UNCHANGED <<gateVars, running, pc, metadataVars, confirmed_leverage,
                   leverage_lock, price_fresh, orderVars, listing, exchangeVars,
                   historyVars>>

\* The exchange lists, suspends or removes a symbol, or changes a bracket.
ListingChanges(s) ==
    /\ Free
    /\ \E value \in Listing \ {listing[s]} :
           listing' = [listing EXCEPT ![s] = value]
    /\ UNCHANGED <<gateVars, running, pc, metadataVars, leverageVars,
                   price_fresh, orderVars, exchangeVars, historyVars>>

-----------------------------------------------------------------------------
\* A step that a refreshing task can take.
RefreshStep(u) ==
    \/ EnterRefresh(u)
    \/ ParkAgain(u)
    \/ RefreshSucceeds(u)
    \/ RefreshFails(u)

\* A step that a call takes inside place_market_order.
TradeStep(t) ==
    \/ Access(t)
    \/ ResumeAccess(t)
    \/ Prepare(t)
    \/ Confirm(t)
    \/ ResumeLock(t)
    \/ LeverageAccepted(t)
    \/ LeverageFails(t)
    \/ EntryAnswered(t)
    \/ EntryFails(t)
    \/ StopAccepted(t)
    \/ StopFails(t)

Environment ==
    \/ MetadataExpires
    \/ \E s \in Symbols :
           \/ PriceTick(s)
           \/ PriceExpires(s)
           \/ ConfirmationExpires(s)
           \/ ListingChanges(s)

Next ==
    \/ LoopTimeout
    \/ Stop
    \/ \E t \in Trades :
           Refuse(t) \/ Call(t) \/ TradeStep(t) \/ LeverageApplied(t)
    \/ \E u \in Tasks : RefreshStep(u)
    \/ Environment

Spec == Init /\ [][Next]_vars

\* The event loop runs every ready task, and every REST call ends.  A task
\* notified by the gate is queued ahead of a timer that fires later, so the
\* loop cannot overtake a waiting trade for ever: strong fairness on its wake.
Fairness ==
    /\ \A t \in Trades : WF_vars(TradeStep(t))
    /\ \A u \in Tasks : WF_vars(ParkAgain(u))
    /\ \A u \in Tasks : WF_vars(RefreshSucceeds(u) \/ RefreshFails(u))
    /\ \A u \in Tasks : SF_vars(EnterRefresh(u))

FairSpec == Spec /\ Fairness

-----------------------------------------------------------------------------
TypeOK ==
    /\ Gate!TypeOK
    /\ running \in Tasks \cup {Nobody}
    /\ pc \in [Tasks -> {"idle", "sleeping", "stopped", "refreshWait",
                         "refreshing", "access", "accessWait", "prepare",
                         "confirm", "lockWait", "setting", "entry",
                         "stop"} \cup Ended]
    /\ snapshot \in [Symbols -> Listing] /\ listing \in [Symbols -> Listing]
    /\ metadata_fresh \in BOOLEAN
    /\ confirmed_leverage \in [Symbols -> Leverages \cup {Absent}]
    /\ confirmation_fresh \in [Symbols -> BOOLEAN]
    /\ leverage_lock \in [Symbols -> Seq(Trades)]
    /\ price_fresh \in [Symbols -> BOOLEAN]
    /\ order \in [Trades -> Leverages \cup {Absent}]
    /\ priced_fresh \in [Trades -> BOOLEAN]
    /\ account \in [Symbols -> Leverages]
    /\ answer \in [Trades -> Leverages \cup {Absent}]
    /\ position \in [Trades -> {"none", "open", "protected"}]
    /\ uncertain \in [Symbols -> BOOLEAN] /\ suspect \in [Symbols -> BOOLEAN]

\* The metadata a call was sized with is the controller's metadata until the
\* call has left the gate: no refresh replaces it between sizing and stop,
\* whatever trades and refreshes are queued meanwhile.
SnapshotStable ==
    \A t \in Inside : pc[t] # "prepare" => snapshot[SymbolOf[t]] = order[t]

\* What the controller recorded as confirmed is in force, unless the leverage
\* of the account moved and no answer has told the controller: a request under
\* way that the exchange applied already, or one that failed after that.
ConfirmedInForce ==
    \A s \in Symbols :
        confirmed_leverage[s] # Absent /\ ~uncertain[s]
            => account[s] = confirmed_leverage[s]

\* With the same proviso an entry waiting at the exchange executes at the
\* leverage it was sized for, although other calls for the symbol confirm,
\* fail and refresh concurrently.  It rests on all calls of a symbol being
\* sized alike by one snapshot: event_to_trade.py passes the same callback
\* rate with every order.
EntryLeverageInForce ==
    \A t \in Trades :
        pc[t] = "entry" /\ ~uncertain[SymbolOf[t]]
            => account[SymbolOf[t]] = order[t]

\* A call goes on to its entry without asking the exchange.
SkipsRequest(t) ==
    /\ pc[t] \in {"confirm", "lockWait"}
    /\ pc'[t] = "entry"

\* After a failed entry no call for the symbol skips the leverage request
\* before one has been accepted again.
NoSkipAfterFailedEntry ==
    [][\A t \in Trades : SkipsRequest(t) => ~suspect[SymbolOf[t]]]_vars

\* Each call keeps the promise of place_market_order to its caller.
Promise ==
    INSTANCE OrderPromise WITH
        status <- [t \in Trades |->
                      CASE pc[t] = "done"   -> "result"
                        [] pc[t] = "failed" -> "exception"
                        [] OTHER            -> "active"]

RefinesPromise == Promise!Spec

\* Every call that was made ends, whatever fails around it.
CallsEnd ==
    \A t \in Trades : pc[t] # "idle" ~> pc[t] \in Ended

-----------------------------------------------------------------------------
(* What the documents say and the code does not do; see README, "Findings". *)

\* A leverage request is skipped only when the desired leverage is already
\* set (spec/architecture.md).
SkipOnlyWhenSet ==
    [][\A t \in Trades :
           SkipsRequest(t) => account[SymbolOf[t]] = order[t]]_vars

\* An entry is submitted with a price within its maximum age
\* (spec/architecture.md, spec/latency_optimization.md).
EntryPriceFresh ==
    [][\A t \in Trades :
           pc[t] # "entry" /\ pc'[t] = "entry" => priced_fresh[t]]_vars
=============================================================================
