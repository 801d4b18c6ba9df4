------------------------------ MODULE AccessGate ------------------------------
(***************************************************************************)
(* The mechanism behind BinanceController._trade_access and                 *)
(* ._maintenance_access: two counters, a flag and one asyncio.Condition.    *)
(*                                                                          *)
(* The lock of the condition is never held across an await, so everything a *)
(* task does under "async with self._condition" is one step.  A task parked *)
(* in wait_for resumes in a later step, only after it was notified, and     *)
(* evaluates its predicate again when it resumes: between the notification  *)
(* and that step any other task may run and take the place.                 *)
(***************************************************************************)
EXTENDS Naturals, FiniteSets

CONSTANT Tasks

ASSUME TasksAssumption == IsFiniteSet(Tasks)

VARIABLES
    at,                  \* where each task is with respect to the gate
    notified,            \* parked tasks whose future has been set by a notify
    active_trades,       \* self._active_trades
    waiting_trades,      \* self._waiting_trades
    maintenance_active   \* self._maintenance_active

vars == <<at, notified, active_trades, waiting_trades, maintenance_active>>

Places == {"out", "waitTrade", "trading", "waitMaint", "maintaining"}

In(place) == {t \in Tasks : at[t] = place}

Parked == In("waitTrade") \cup In("waitMaint")

Move(t, place) == at' = [at EXCEPT ![t] = place]

Init ==
    /\ at = [t \in Tasks |-> "out"]
    /\ notified = {}
    /\ active_trades = 0
    /\ waiting_trades = 0
    /\ maintenance_active = FALSE

-----------------------------------------------------------------------------
(* Faulty variants of definitions below; see README, "Mutants". *)

MaintenanceMayEnter_IgnoresActive ==
    /\ ~maintenance_active
    /\ waiting_trades = 0

MaintenanceMayEnter_IgnoresWaiting ==
    /\ active_trades = 0
    /\ ~maintenance_active

NotifyAll_OnlyOne ==
    \/ Parked = {} /\ UNCHANGED notified
    \/ \E u \in Parked : notified' = notified \cup {u}

StopWaiting_Forgotten(t) ==
    /\ at[t] \in {"waitTrade", "waitMaint"}
    /\ UNCHANGED waiting_trades

StopWaiting_AnyWaiter(t) ==
    /\ at[t] \in {"waitTrade", "waitMaint"}
    /\ waiting_trades' = waiting_trades - 1

NotifyOther_None(t) == notified' = notified \ {t}

-----------------------------------------------------------------------------
(* The two predicates given to wait_for, and the notifications. *)

TradesMayEnter == ~maintenance_active

MaintenanceMayEnter ==
    /\ active_trades = 0
    /\ ~maintenance_active
    /\ waiting_trades = 0

NotifyAll == notified' = Parked

\* Condition.wait passes one notification on when it is cancelled.
NotifyOther(t) ==
    LET others == Parked \ (notified \cup {t})
    IN  IF others = {}
        THEN notified' = notified \ {t}
        ELSE \E u \in others : notified' = (notified \ {t}) \cup {u}

StopWaiting(t) ==
    /\ at[t] \in {"waitTrade", "waitMaint"}
    /\ waiting_trades' =
           IF at[t] = "waitTrade" THEN waiting_trades - 1 ELSE waiting_trades

-----------------------------------------------------------------------------
(* _trade_access *)

\* wait_for finds its predicate true at once; the counter of waiting trades
\* goes up and down again without a suspension.
TradeEnter(t) ==
    /\ at[t] = "out"
    /\ TradesMayEnter
    /\ active_trades' = active_trades + 1
    /\ Move(t, "trading")
    /\ UNCHANGED <<notified, waiting_trades, maintenance_active>>

TradeQueue(t) ==
    /\ at[t] = "out"
    /\ ~TradesMayEnter
    /\ waiting_trades' = waiting_trades + 1
    /\ Move(t, "waitTrade")
    /\ UNCHANGED <<notified, active_trades, maintenance_active>>

TradeWake(t) ==
    /\ at[t] = "waitTrade"
    /\ t \in notified
    /\ TradesMayEnter
    /\ StopWaiting(t)
    /\ active_trades' = active_trades + 1
    /\ notified' = notified \ {t}
    /\ Move(t, "trading")
    /\ UNCHANGED maintenance_active

TradeExit(t) ==
    /\ at[t] = "trading"
    /\ active_trades' = active_trades - 1
    /\ NotifyAll
    /\ Move(t, "out")
    /\ UNCHANGED <<waiting_trades, maintenance_active>>

-----------------------------------------------------------------------------
(* _maintenance_access *)

MaintEnter(t) ==
    /\ at[t] = "out"
    /\ MaintenanceMayEnter
    /\ maintenance_active' = TRUE
    /\ Move(t, "maintaining")
    /\ UNCHANGED <<notified, active_trades, waiting_trades>>

MaintQueue(t) ==
    /\ at[t] = "out"
    /\ ~MaintenanceMayEnter
    /\ Move(t, "waitMaint")
    /\ UNCHANGED <<notified, active_trades, waiting_trades, maintenance_active>>

MaintWake(t) ==
    /\ at[t] = "waitMaint"
    /\ t \in notified
    /\ MaintenanceMayEnter
    /\ maintenance_active' = TRUE
    /\ notified' = notified \ {t}
    /\ Move(t, "maintaining")
    /\ UNCHANGED <<active_trades, waiting_trades>>

MaintExit(t) ==
    /\ at[t] = "maintaining"
    /\ maintenance_active' = FALSE
    /\ NotifyAll
    /\ Move(t, "out")
    /\ UNCHANGED <<active_trades, waiting_trades>>

-----------------------------------------------------------------------------
(* Both *)

\* A notified task finds its predicate false again and parks anew.
WaitAgain(t) ==
    /\ t \in notified
    /\ \/ at[t] = "waitTrade" /\ ~TradesMayEnter
       \/ at[t] = "waitMaint" /\ ~MaintenanceMayEnter
    /\ notified' = notified \ {t}
    /\ UNCHANGED <<at, active_trades, waiting_trades, maintenance_active>>

\* A parked task is cancelled, notified or not: Condition.wait hands one
\* notification on and the finally clause of _trade_access runs.
Cancel(t) ==
    /\ StopWaiting(t)
    /\ NotifyOther(t)
    /\ Move(t, "out")
    /\ UNCHANGED <<active_trades, maintenance_active>>

Resume(t) == TradeWake(t) \/ MaintWake(t) \/ WaitAgain(t)

Next ==
    \E t \in Tasks :
        \/ TradeEnter(t)
        \/ TradeQueue(t)
        \/ TradeWake(t)
        \/ TradeExit(t)
        \/ MaintEnter(t)
        \/ MaintQueue(t)
        \/ MaintWake(t)
        \/ MaintExit(t)
        \/ WaitAgain(t)
        \/ Cancel(t)

Spec == Init /\ [][Next]_vars

\* The event loop resumes a notified task, and no one stays inside for ever:
\* every REST call made inside the gate returns or raises.
Fairness ==
    \A t \in Tasks :
        /\ WF_vars(Resume(t))
        /\ WF_vars(TradeExit(t))
        /\ WF_vars(MaintExit(t))

FairSpec == Spec /\ Fairness

-----------------------------------------------------------------------------
TypeOK ==
    /\ at \in [Tasks -> Places]
    /\ notified \subseteq Tasks
    /\ active_trades \in Nat
    /\ waiting_trades \in Nat
    /\ maintenance_active \in BOOLEAN

\* The counters the predicates rely on equal what they stand for, through
\* every path out of a wait, cancellation included.
CountersExact ==
    /\ active_trades = Cardinality(In("trading"))
    /\ waiting_trades = Cardinality(In("waitTrade"))
    /\ maintenance_active <=> In("maintaining") # {}

\* A refresh never runs beside a trade or beside another refresh.
Exclusion ==
    /\ In("maintaining") # {} => In("trading") = {}
    /\ \A t, u \in In("maintaining") : t = u

\* No one is parked with nothing left that would notify it: a parked trade
\* not yet notified has a refresh to wait for, a parked refresh has a trade,
\* a refresh or a notified waiter ahead of it.
NoLostWakeup ==
    /\ \A t \in In("waitTrade") \ notified : maintenance_active
    /\ \A t \in In("waitMaint") \ notified :
           \/ active_trades > 0
           \/ maintenance_active
           \/ notified # {}

\* The mechanism implements the contract.
Contract ==
    INSTANCE TradeGate WITH
        queued <- In("waitTrade"),
        trading <- In("trading"),
        maintaining <- In("maintaining")

RefinesContract == Contract!Spec

\* With fair wake-ups it also keeps the promise that a queued trade is
\* admitted.
RefinesFairContract == Contract!FairSpec
=============================================================================
