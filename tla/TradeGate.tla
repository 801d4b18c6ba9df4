------------------------------ MODULE TradeGate ------------------------------
(***************************************************************************)
(* What BinanceController promises about who may use the exchange when: any *)
(* number of trades run together, a refresh of the trading environment runs *)
(* alone, and no refresh begins while a trade is running or queued.         *)
(*                                                                          *)
(* This is the contract of the context managers _trade_access and           *)
(* _maintenance_access.  It has no counters, no condition variable and no   *)
(* wake-ups; AccessGate is the mechanism that implements it.                *)
(***************************************************************************)
EXTENDS FiniteSets

CONSTANT Tasks

VARIABLES
    queued,       \* trades waiting for a refresh to end
    trading,      \* trades inside "async with self._trade_access()"
    maintaining   \* tasks inside "async with self._maintenance_access()"

vars == <<queued, trading, maintaining>>

Present == queued \cup trading \cup maintaining

Init ==
    /\ queued = {}
    /\ trading = {}
    /\ maintaining = {}

\* A trade has to wait only for a refresh that is running.
Queue(t) ==
    /\ t \notin Present
    /\ maintaining # {}
    /\ queued' = queued \cup {t}
    /\ UNCHANGED <<trading, maintaining>>

\* A trade, queued or just arrived, is admitted whenever no refresh runs.
Admit(t) ==
    /\ t \notin trading \cup maintaining
    /\ maintaining = {}
    /\ queued' = queued \ {t}
    /\ trading' = trading \cup {t}
    /\ UNCHANGED maintaining

AdmitQueued(t) == t \in queued /\ Admit(t)

Leave(t) ==
    /\ t \in trading
    /\ trading' = trading \ {t}
    /\ UNCHANGED <<queued, maintaining>>

\* A queued trade may be cancelled before it was admitted.
Abandon(t) ==
    /\ t \in queued
    /\ queued' = queued \ {t}
    /\ UNCHANGED <<trading, maintaining>>

BeginMaintenance(t) ==
    /\ Present = {}
    /\ maintaining' = {t}
    /\ UNCHANGED <<queued, trading>>

EndMaintenance(t) ==
    /\ t \in maintaining
    /\ maintaining' = maintaining \ {t}
    /\ UNCHANGED <<queued, trading>>

Next ==
    \E t \in Tasks :
        \/ Queue(t)
        \/ Admit(t)
        \/ Leave(t)
        \/ Abandon(t)
        \/ BeginMaintenance(t)
        \/ EndMaintenance(t)

Spec == Init /\ [][Next]_vars

\* A queued trade is admitted, and whoever is inside leaves.
Fairness ==
    \A t \in Tasks :
        /\ WF_vars(AdmitQueued(t))
        /\ WF_vars(Leave(t))
        /\ WF_vars(EndMaintenance(t))

FairSpec == Spec /\ Fairness

-----------------------------------------------------------------------------
TypeOK ==
    /\ queued \subseteq Tasks
    /\ trading \subseteq Tasks
    /\ maintaining \subseteq Tasks

\* A refresh runs alone: neither beside a trade nor beside another refresh.
Exclusion ==
    /\ maintaining # {} => trading = {}
    /\ \A t, u \in maintaining : t = u
=============================================================================
