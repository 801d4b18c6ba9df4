--------------------------- MODULE AccessGateProofs ---------------------------
(***************************************************************************)
(* Theorems of AccessGate for every finite set of tasks.                    *)
(*                                                                          *)
(* The counters are proved exact first, because every other argument reads  *)
(* them: exclusion holds of the sets of tasks only because the predicates,  *)
(* which see the counters alone, say what they mean of the sets.            *)
(***************************************************************************)
EXTENDS AccessGate, FiniteSetTheorems, TLAPS

\* Only a parked task has a future that a notification can set.
NotifiedParked == notified \subseteq Parked

IInv ==
    /\ TypeOK
    /\ NotifiedParked
    /\ CountersExact
    /\ Exclusion
    /\ NoLostWakeup

-----------------------------------------------------------------------------
(* Lemmas about the sets of tasks *)

\* In(place) is a finite set, and its size is a number that is zero exactly
\* when no task is there: what lets a counter stand for a set.
LEMMA InFinite ==
    ASSUME NEW place
    PROVE  /\ IsFiniteSet(In(place))
           /\ Cardinality(In(place)) \in Nat
           /\ Cardinality(In(place)) = 0 <=> In(place) = {}
<1>1. In(place) \in SUBSET Tasks
  BY DEF In
<1>2. IsFiniteSet(In(place))
  BY <1>1, TasksAssumption, FS_Subset
<1>. QED
  BY <1>2, FS_CardinalityType, FS_EmptySet

\* A task that moves leaves the set of its old place and joins that of the
\* new one; no other set changes.
LEMMA MoveIn ==
    ASSUME TypeOK, NEW t \in Tasks, NEW new \in Places, Move(t, new)
    PROVE  /\ \A place \in Places :
                 In(place)' = IF place = new THEN In(place) \cup {t}
                                             ELSE In(place) \ {t}
           /\ at' \in [Tasks -> Places]
  BY DEF TypeOK, Move, In

\* The sizes of the sets a move changes.
LEMMA MoveCardinality ==
    ASSUME TypeOK, NEW t \in Tasks, NEW new \in Places, Move(t, new),
           at[t] # new
    PROVE  \A place \in Places :
               Cardinality(In(place)') =
                   CASE place = new   -> Cardinality(In(place)) + 1
                     [] place = at[t] -> Cardinality(In(place)) - 1
                     [] OTHER         -> Cardinality(In(place))
<1>. TAKE place \in Places
<1>1. IsFiniteSet(In(place))
  BY InFinite
<1>2. t \in In(place) <=> place = at[t]
  BY DEF In
<1>3. CASE place = new
  <2>1. In(place)' = In(place) \cup {t}
    BY <1>3, MoveIn
  <2>. QED
    BY <1>1, <1>2, <1>3, <2>1, FS_AddElement
<1>4. CASE place # new
  <2>1. In(place)' = In(place) \ {t}
    BY <1>4, MoveIn
  <2>. QED
    BY <1>1, <1>2, <1>4, <2>1, FS_RemoveElement
<1>. QED
  BY <1>3, <1>4

-----------------------------------------------------------------------------
(* Type correctness and the counters *)

LEMMA InitInv == Init => IInv
<1>. SUFFICES ASSUME Init PROVE IInv
  OBVIOUS
<1>1. /\ In("waitTrade") = {} /\ In("trading") = {}
      /\ In("waitMaint") = {} /\ In("maintaining") = {}
  BY DEF Init, In
<1>2. TypeOK
  BY DEF Init, TypeOK, Places
<1>3. CountersExact
  BY <1>1, FS_EmptySet DEF Init, CountersExact
<1>4. NotifiedParked /\ Exclusion /\ NoLostWakeup
  BY <1>1 DEF Init, NotifiedParked, Exclusion, NoLostWakeup
<1>. QED
  BY <1>2, <1>3, <1>4 DEF IInv

\* Each counter, and the flag, follows its set through every action: the
\* counters are also numbers, since sizes of sets are.
LEMMA CountersStep ==
    ASSUME TypeOK, CountersExact, Exclusion, NEW t \in Tasks,
           \/ TradeEnter(t) \/ TradeQueue(t) \/ TradeWake(t) \/ TradeExit(t)
           \/ MaintEnter(t) \/ MaintQueue(t) \/ MaintWake(t) \/ MaintExit(t)
           \/ Cancel(t)
    PROVE  CountersExact' /\ at' \in [Tasks -> Places]
<1>. USE DEF Places
<1>c. /\ Cardinality(In("trading")) \in Nat
      /\ Cardinality(In("waitTrade")) \in Nat
  BY InFinite
<1>p. \A place \in Places : t \in In(place) <=> place = at[t]
  BY DEF In
<1>1. CASE TradeEnter(t)
  <2>1. Move(t, "trading") /\ at[t] = "out"
    BY <1>1 DEF TradeEnter
  <2>2. /\ Cardinality(In("trading")') = Cardinality(In("trading")) + 1
        /\ Cardinality(In("waitTrade")') = Cardinality(In("waitTrade"))
    BY <2>1, MoveCardinality
  <2>3. In("maintaining")' = In("maintaining")
    BY <1>p, <2>1, MoveIn
  <2>. QED
    BY <1>1, <2>1, <2>2, <2>3, MoveIn DEF TradeEnter, CountersExact
<1>2. CASE TradeQueue(t)
  <2>1. Move(t, "waitTrade") /\ at[t] = "out"
    BY <1>2 DEF TradeQueue
  <2>2. /\ Cardinality(In("trading")') = Cardinality(In("trading"))
        /\ Cardinality(In("waitTrade")') = Cardinality(In("waitTrade")) + 1
    BY <2>1, MoveCardinality
  <2>3. In("maintaining")' = In("maintaining")
    BY <1>p, <2>1, MoveIn
  <2>. QED
    BY <1>2, <2>1, <2>2, <2>3, MoveIn DEF TradeQueue, CountersExact
<1>3. CASE TradeWake(t)
  <2>1. Move(t, "trading") /\ at[t] = "waitTrade"
    BY <1>3 DEF TradeWake
  <2>2. /\ Cardinality(In("trading")') = Cardinality(In("trading")) + 1
        /\ Cardinality(In("waitTrade")') = Cardinality(In("waitTrade")) - 1
    BY <2>1, MoveCardinality
  <2>3. In("maintaining")' = In("maintaining")
    BY <1>p, <2>1, MoveIn
  <2>. QED
    BY <1>3, <2>1, <2>2, <2>3, MoveIn
       DEF TradeWake, StopWaiting, CountersExact
<1>4. CASE TradeExit(t)
  <2>1. Move(t, "out") /\ at[t] = "trading"
    BY <1>4 DEF TradeExit
  <2>2. /\ Cardinality(In("trading")') = Cardinality(In("trading")) - 1
        /\ Cardinality(In("waitTrade")') = Cardinality(In("waitTrade"))
    BY <2>1, MoveCardinality
  <2>3. In("maintaining")' = In("maintaining")
    BY <1>p, <2>1, MoveIn
  <2>. QED
    BY <1>4, <2>1, <2>2, <2>3, MoveIn DEF TradeExit, CountersExact
<1>5. CASE MaintEnter(t) \/ MaintWake(t)
  <2>1. Move(t, "maintaining") /\ at[t] \in {"out", "waitMaint"}
    BY <1>5 DEF MaintEnter, MaintWake
  <2>2. /\ Cardinality(In("trading")') = Cardinality(In("trading"))
        /\ Cardinality(In("waitTrade")') = Cardinality(In("waitTrade"))
    BY <2>1, MoveCardinality
  <2>3. In("maintaining")' # {}
    BY <2>1, MoveIn
  <2>. QED
    BY <1>5, <2>1, <2>2, <2>3, MoveIn DEF MaintEnter, MaintWake, CountersExact
<1>6. CASE MaintQueue(t)
  <2>1. Move(t, "waitMaint") /\ at[t] = "out"
    BY <1>6 DEF MaintQueue
  <2>2. /\ Cardinality(In("trading")') = Cardinality(In("trading"))
        /\ Cardinality(In("waitTrade")') = Cardinality(In("waitTrade"))
    BY <2>1, MoveCardinality
  <2>3. In("maintaining")' = In("maintaining")
    BY <1>p, <2>1, MoveIn
  <2>. QED
    BY <1>6, <2>1, <2>2, <2>3, MoveIn DEF MaintQueue, CountersExact
<1>7. CASE MaintExit(t)
  <2>1. Move(t, "out") /\ at[t] = "maintaining"
    BY <1>7 DEF MaintExit
  <2>2. /\ Cardinality(In("trading")') = Cardinality(In("trading"))
        /\ Cardinality(In("waitTrade")') = Cardinality(In("waitTrade"))
    BY <2>1, MoveCardinality
  \* The flag may go down because no second refresh is inside.
  <2>3. In("maintaining")' = {}
    <3>1. In("maintaining") = {t}
      BY <1>p, <2>1 DEF Exclusion
    <3>. QED
      BY <2>1, <3>1, MoveIn
  <2>. QED
    BY <1>7, <2>1, <2>2, <2>3, MoveIn DEF MaintExit, CountersExact
<1>8. CASE Cancel(t)
  <2>1. Move(t, "out") /\ at[t] \in {"waitTrade", "waitMaint"}
    BY <1>8 DEF Cancel, StopWaiting
  <2>2. /\ Cardinality(In("trading")') = Cardinality(In("trading"))
        /\ Cardinality(In("waitTrade")') =
               IF at[t] = "waitTrade" THEN Cardinality(In("waitTrade")) - 1
                                      ELSE Cardinality(In("waitTrade"))
    BY <2>1, MoveCardinality
  <2>3. In("maintaining")' = In("maintaining")
    BY <1>p, <2>1, MoveIn
  <2>. QED
    BY <1>8, <2>1, <2>2, <2>3, MoveIn DEF Cancel, StopWaiting, CountersExact
<1>. QED
  BY <1>1, <1>2, <1>3, <1>4, <1>5, <1>6, <1>7, <1>8

-----------------------------------------------------------------------------
(* The inductive step *)

\* What the invariant says of a state in which no refresh runs and a task is
\* parked: every parked trade has been notified.
LEMMA QueuedAreNotified ==
    ASSUME IInv, ~maintenance_active
    PROVE  In("waitTrade") \subseteq notified
  BY DEF IInv, NoLostWakeup

\* The predicate of _maintenance_access in terms of the sets.
LEMMA MayEnterMeans ==
    ASSUME IInv
    PROVE  /\ MaintenanceMayEnter <=>
                  /\ In("trading") = {}
                  /\ In("waitTrade") = {}
                  /\ In("maintaining") = {}
           /\ TradesMayEnter <=> In("maintaining") = {}
           /\ active_trades > 0 <=> In("trading") # {}
<1>1. /\ Cardinality(In("trading")) \in Nat
      /\ Cardinality(In("trading")) = 0 <=> In("trading") = {}
      /\ Cardinality(In("waitTrade")) = 0 <=> In("waitTrade") = {}
  BY InFinite
<1>. QED
  BY <1>1 DEF IInv, CountersExact, MaintenanceMayEnter, TradesMayEnter

\* WaitAgain moves no task and touches no counter.
LEMMA WaitAgainStep ==
    ASSUME IInv, NEW t \in Tasks, WaitAgain(t)
    PROVE  IInv'
<1>1. UNCHANGED <<at, active_trades, waiting_trades, maintenance_active>>
  BY DEF WaitAgain
<1>2. \A place : In(place)' = In(place)
  BY <1>1 DEF In
<1>3. TypeOK' /\ NotifiedParked'
  BY <1>1, <1>2 DEF WaitAgain, IInv, TypeOK, NotifiedParked, Parked
<1>4. CountersExact' /\ Exclusion'
  BY <1>1, <1>2 DEF IInv, CountersExact, Exclusion
<1>5. NoLostWakeup'
  <2>1. CASE at[t] = "waitTrade"
    <3>1. maintenance_active
      BY <2>1 DEF WaitAgain, TradesMayEnter
    <3>2. maintenance_active'
      BY <1>1, <3>1
    <3>. QED
      BY <3>2 DEF NoLostWakeup
  \* A refresh that must wait again without a trade or a refresh inside has
  \* a parked trade ahead of it, and that one has been notified.
  <2>2. CASE at[t] = "waitMaint" /\ ~MaintenanceMayEnter
    <3>1. \/ maintenance_active
          \/ active_trades > 0
          \/ ~maintenance_active /\ \E u \in In("waitTrade") : TRUE
      BY <2>2, MayEnterMeans DEF TradesMayEnter
    <3>2. CASE maintenance_active \/ active_trades > 0
      BY <1>1, <1>2, <2>2, <3>2 DEF IInv, NoLostWakeup, WaitAgain, In
    <3>3. CASE ~maintenance_active /\ \E u \in In("waitTrade") : TRUE
      <4>1. PICK u \in In("waitTrade") : TRUE
        BY <3>3
      <4>2. u \in notified /\ u # t
        BY <2>2, <3>3, <4>1, QueuedAreNotified DEF In
      <4>3. u \in notified' /\ In("waitTrade") \ notified' = {}
        BY <2>2, <3>3, <4>2, QueuedAreNotified DEF WaitAgain, In
      <4>. QED
        BY <1>1, <1>2, <4>3 DEF NoLostWakeup
    <3>. QED
      BY <3>1, <3>2, <3>3
  <2>. QED
    BY <2>1, <2>2 DEF WaitAgain
<1>. QED
  BY <1>3, <1>4, <1>5 DEF IInv

\* A cancelled waiter hands its notification on, so that no other waiter is
\* left without one.
LEMMA CancelStep ==
    ASSUME IInv, NEW t \in Tasks, Cancel(t)
    PROVE  NotifiedParked' /\ NoLostWakeup' /\ Exclusion'
<1>1. Move(t, "out") /\ at[t] \in {"waitTrade", "waitMaint"} /\ NotifyOther(t)
  BY DEF Cancel, StopWaiting
<1>2. /\ In("waitTrade")' = In("waitTrade") \ {t}
      /\ In("waitMaint")' = In("waitMaint") \ {t}
      /\ In("trading")' = In("trading") \ {t}
      /\ In("maintaining")' = In("maintaining") \ {t}
  BY <1>1, MoveIn DEF IInv, Places
<1>3. /\ notified' \subseteq (Parked \ {t})
      /\ notified \ {t} \subseteq notified'
      /\ notified' # {} \/ Parked \ {t} \subseteq notified'
  BY <1>1 DEF NotifyOther, IInv, NotifiedParked
<1>4. UNCHANGED <<active_trades, maintenance_active>>
  BY DEF Cancel
<1>5. NotifiedParked'
  BY <1>2, <1>3 DEF NotifiedParked, Parked
<1>6. NoLostWakeup'
  BY <1>2, <1>3, <1>4 DEF IInv, NoLostWakeup, Parked
<1>7. Exclusion'
  BY <1>2 DEF IInv, Exclusion
<1>. QED
  BY <1>5, <1>6, <1>7

\* Every action keeps the invariant.
LEMMA StepInv ==
    ASSUME IInv, [Next]_vars
    PROVE  IInv'
<1>. USE DEF Places
<1>u. CASE UNCHANGED vars
  <2>1. \A place : In(place)' = In(place)
    BY <1>u DEF vars, In
  <2>2. TypeOK' /\ NotifiedParked'
    BY <1>u, <2>1 DEF vars, IInv, TypeOK, NotifiedParked, Parked
  <2>3. CountersExact' /\ Exclusion' /\ NoLostWakeup'
    BY <1>u, <2>1 DEF vars, IInv, CountersExact, Exclusion, NoLostWakeup
  <2>. QED
    BY <2>2, <2>3 DEF IInv
<1>n. CASE Next
  <2>. PICK t \in Tasks :
           \/ TradeEnter(t) \/ TradeQueue(t) \/ TradeWake(t) \/ TradeExit(t)
           \/ MaintEnter(t) \/ MaintQueue(t) \/ MaintWake(t) \/ MaintExit(t)
           \/ WaitAgain(t) \/ Cancel(t)
    BY <1>n DEF Next
  <2>w. CASE WaitAgain(t)
    BY <2>w, WaitAgainStep
  <2>m. CASE ~WaitAgain(t)
    <3>1. CountersExact' /\ at' \in [Tasks -> Places]
      BY <2>m, CountersStep DEF IInv
    <3>2. TypeOK'
      <4>1. active_trades' \in Nat /\ waiting_trades' \in Nat
        <5>1. /\ Cardinality(In("trading")') \in Nat
              /\ Cardinality(In("waitTrade")') \in Nat
          <6>1. In("trading")' \in SUBSET Tasks /\ In("waitTrade")' \in SUBSET Tasks
            BY DEF In
          <6>. QED
            BY <6>1, TasksAssumption, FS_Subset, FS_CardinalityType
        <5>. QED
          BY <3>1, <5>1 DEF CountersExact
      <4>2. notified' \subseteq Tasks
        BY <2>m DEF IInv, TypeOK, TradeEnter, TradeQueue, TradeWake,
           TradeExit, MaintEnter, MaintQueue, MaintWake, MaintExit, Cancel,
           NotifyAll, NotifyOther, Parked, In
      <4>3. maintenance_active' \in BOOLEAN
        BY <2>m DEF IInv, TypeOK, TradeEnter, TradeQueue, TradeWake,
           TradeExit, MaintEnter, MaintQueue, MaintWake, MaintExit, Cancel
      <4>. QED
        BY <3>1, <4>1, <4>2, <4>3 DEF TypeOK
    <3>3. NotifiedParked' /\ NoLostWakeup' /\ Exclusion'
      <4>. t \in In(at[t]) /\ \A p \in Places : t \in In(p) <=> p = at[t]
        BY DEF IInv, TypeOK, In
      <4>1. CASE TradeEnter(t) \/ TradeWake(t)
        <5>1. /\ Move(t, "trading") /\ In("maintaining") = {}
              /\ at[t] \in {"out", "waitTrade"}
              /\ notified' = notified \ {t} \/ notified' = notified
          BY <4>1, MayEnterMeans DEF TradeEnter, TradeWake
        <5>2. /\ In("trading")' = In("trading") \cup {t}
              /\ In("maintaining")' = {}
              /\ In("waitTrade")' = In("waitTrade") \ {t}
              /\ In("waitMaint")' = In("waitMaint")
          BY <5>1, MoveIn DEF IInv
        <5>3. NotifiedParked'
          BY <4>1, <5>2 DEF IInv, NotifiedParked, Parked, TradeEnter, TradeWake
        <5>4. In("waitTrade")' \subseteq notified'
          BY <4>1, <5>1, <5>2, QueuedAreNotified DEF TradeEnter, TradeWake,
             TradesMayEnter
        <5>5. active_trades' > 0
          BY <4>1 DEF IInv, TypeOK, TradeEnter, TradeWake
        <5>. QED
          BY <5>2, <5>3, <5>4, <5>5 DEF NoLostWakeup, Exclusion
      <4>2. CASE TradeQueue(t)
        <5>1. Move(t, "waitTrade") /\ maintenance_active /\ maintenance_active'
              /\ at[t] = "out"
          BY <4>2 DEF TradeQueue, TradesMayEnter
        <5>2. /\ In("trading")' = In("trading")
              /\ In("maintaining")' = In("maintaining")
              /\ In("waitTrade")' = In("waitTrade") \cup {t}
              /\ In("waitMaint")' = In("waitMaint")
          BY <5>1, MoveIn DEF IInv
        <5>3. NotifiedParked' /\ Exclusion'
          BY <4>2, <5>2 DEF IInv, NotifiedParked, Exclusion, Parked, TradeQueue
        <5>. QED
          BY <5>1, <5>3 DEF NoLostWakeup
      <4>3. CASE TradeExit(t)
        <5>1. Move(t, "out") /\ notified' = Parked /\ at[t] = "trading"
          BY <4>3 DEF TradeExit, NotifyAll
        <5>2. /\ In("trading")' = In("trading") \ {t}
              /\ In("maintaining")' = In("maintaining")
              /\ In("waitTrade")' = In("waitTrade")
              /\ In("waitMaint")' = In("waitMaint")
          BY <5>1, MoveIn DEF IInv
        <5>. QED
          BY <5>1, <5>2 DEF IInv, NotifiedParked, NoLostWakeup, Exclusion, Parked
      <4>4. CASE MaintEnter(t) \/ MaintWake(t)
        <5>1. /\ Move(t, "maintaining") /\ In("trading") = {}
              /\ In("maintaining") = {} /\ In("waitTrade") = {}
              /\ at[t] \in {"out", "waitMaint"}
              /\ maintenance_active'
          BY <4>4, MayEnterMeans DEF MaintEnter, MaintWake
        <5>2. /\ In("trading")' = {}
              /\ In("maintaining")' = {t}
              /\ In("waitTrade")' = {}
              /\ In("waitMaint")' = In("waitMaint") \ {t}
          BY <5>1, MoveIn DEF IInv
        <5>3. NotifiedParked'
          <6>1. notified \ {t} \subseteq In("waitMaint") \ {t}
            BY <5>1 DEF IInv, NotifiedParked, Parked
          <6>2. notified' \subseteq notified \ {t}
            BY <4>4, <5>1 DEF IInv, NotifiedParked, Parked, MaintEnter, MaintWake
          <6>. QED
            BY <5>2, <6>1, <6>2 DEF NotifiedParked, Parked
        <5>. QED
          BY <5>1, <5>2, <5>3 DEF NoLostWakeup, Exclusion
      <4>5. CASE MaintQueue(t)
        <5>1. Move(t, "waitMaint") /\ at[t] = "out" /\ ~MaintenanceMayEnter
              /\ UNCHANGED <<notified, active_trades, maintenance_active>>
          BY <4>5 DEF MaintQueue
        <5>2. /\ In("trading")' = In("trading")
              /\ In("maintaining")' = In("maintaining")
              /\ In("waitTrade")' = In("waitTrade")
              /\ In("waitMaint")' = In("waitMaint") \cup {t}
          BY <5>1, MoveIn DEF IInv
        <5>3. NotifiedParked' /\ Exclusion'
          BY <5>1, <5>2 DEF IInv, NotifiedParked, Exclusion, Parked
        <5>4. active_trades > 0 \/ maintenance_active \/ notified # {}
          BY <5>1, MayEnterMeans, QueuedAreNotified DEF TradesMayEnter
        <5>. QED
          BY <5>1, <5>2, <5>3, <5>4 DEF IInv, NoLostWakeup
      <4>6. CASE MaintExit(t)
        <5>1. Move(t, "out") /\ notified' = Parked /\ at[t] = "maintaining"
          BY <4>6 DEF MaintExit, NotifyAll
        <5>2. /\ In("trading")' = In("trading")
              /\ In("maintaining")' = In("maintaining") \ {t}
              /\ In("waitTrade")' = In("waitTrade")
              /\ In("waitMaint")' = In("waitMaint")
          BY <5>1, MoveIn DEF IInv
        <5>. QED
          BY <5>1, <5>2 DEF IInv, NotifiedParked, NoLostWakeup, Exclusion, Parked
      <4>7. CASE Cancel(t)
        BY <4>7, CancelStep
      <4>. QED
        BY <2>m, <4>1, <4>2, <4>3, <4>4, <4>5, <4>6, <4>7
    <3>. QED
      BY <3>1, <3>2, <3>3 DEF IInv
  <2>. QED
    BY <2>w, <2>m
<1>. QED
  BY <1>u, <1>n

-----------------------------------------------------------------------------
(* The theorems *)

\* In every execution of the gate, with any number of tasks entering, waiting,
\* leaving and being cancelled, the strengthened invariant holds.
THEOREM AccessGateInvariant == Spec => []IInv
<1>1. Init => IInv
  BY InitInv
<1>2. IInv /\ [Next]_vars => IInv'
  BY StepInv
<1>. QED
  BY <1>1, <1>2, PTL DEF Spec

\* The variables keep their types; in particular no counter goes below zero.
THEOREM TypeCorrect == Spec => []TypeOK
<1>1. IInv => TypeOK
  BY DEF IInv
<1>. QED
  BY <1>1, AccessGateInvariant, PTL

\* _active_trades, _waiting_trades and _maintenance_active equal what they
\* count, also after a waiter was cancelled.
THEOREM CountersCorrect == Spec => []CountersExact
<1>1. IInv => CountersExact
  BY DEF IInv
<1>. QED
  BY <1>1, AccessGateInvariant, PTL

\* A metadata refresh never runs beside a trade or another refresh.
THEOREM RefreshRunsAlone == Spec => []Exclusion
<1>1. IInv => Exclusion
  BY DEF IInv
<1>. QED
  BY <1>1, AccessGateInvariant, PTL

\* Whoever is parked has someone left to notify it.
THEOREM WaitersAreWoken == Spec => []NoLostWakeup
<1>1. IInv => NoLostWakeup
  BY DEF IInv
<1>. QED
  BY <1>1, AccessGateInvariant, PTL

-----------------------------------------------------------------------------
(* The gate implements its contract *)

LEMMA ContractInit == Init => Contract!Init
  BY DEF Init, Contract!Init, In

\* Every action of the gate is an action of the contract, or, when it only
\* parks or wakes a waiter, changes nothing the contract sees.
LEMMA ContractStep ==
    ASSUME IInv, [Next]_vars
    PROVE  [Contract!Next]_(Contract!vars)
<1>. USE DEF Places
<1>u. CASE UNCHANGED vars
  BY <1>u DEF vars, Contract!vars, In
<1>n. CASE Next
  <2>. PICK t \in Tasks :
           \/ TradeEnter(t) \/ TradeQueue(t) \/ TradeWake(t) \/ TradeExit(t)
           \/ MaintEnter(t) \/ MaintQueue(t) \/ MaintWake(t) \/ MaintExit(t)
           \/ WaitAgain(t) \/ Cancel(t)
    BY <1>n DEF Next
  <2>p. \A p \in Places : t \in In(p) <=> p = at[t]
    BY DEF In
  <2>1. CASE TradeEnter(t) \/ TradeWake(t)
    <3>1. /\ Move(t, "trading") /\ In("maintaining") = {}
          /\ at[t] \in {"out", "waitTrade"}
      BY <2>1, MayEnterMeans DEF TradeEnter, TradeWake
    <3>2. /\ In("trading")' = In("trading") \cup {t}
          /\ In("maintaining")' = In("maintaining")
          /\ In("waitTrade")' = In("waitTrade") \ {t}
      BY <2>p, <3>1, MoveIn DEF IInv
    <3>3. Contract!Admit(t)
      BY <2>p, <3>1, <3>2 DEF Contract!Admit
    <3>. QED
      BY <3>3 DEF Contract!Next
  <2>2. CASE TradeQueue(t)
    <3>1. Move(t, "waitTrade") /\ In("maintaining") # {} /\ at[t] = "out"
      BY <2>2, MayEnterMeans DEF TradeQueue
    <3>2. /\ In("trading")' = In("trading")
          /\ In("maintaining")' = In("maintaining")
          /\ In("waitTrade")' = In("waitTrade") \cup {t}
      BY <2>p, <3>1, MoveIn DEF IInv
    <3>3. Contract!Queue(t)
      BY <2>p, <3>1, <3>2 DEF Contract!Queue, Contract!Present
    <3>. QED
      BY <3>3 DEF Contract!Next
  <2>3. CASE TradeExit(t)
    <3>1. Move(t, "out") /\ at[t] = "trading"
      BY <2>3 DEF TradeExit
    <3>2. /\ In("trading")' = In("trading") \ {t}
          /\ In("maintaining")' = In("maintaining")
          /\ In("waitTrade")' = In("waitTrade")
      BY <2>p, <3>1, MoveIn DEF IInv
    <3>3. Contract!Leave(t)
      BY <2>p, <3>1, <3>2 DEF Contract!Leave
    <3>. QED
      BY <3>3 DEF Contract!Next
  <2>4. CASE MaintEnter(t) \/ MaintWake(t)
    <3>1. /\ Move(t, "maintaining") /\ In("trading") = {}
          /\ In("maintaining") = {} /\ In("waitTrade") = {}
      BY <2>4, MayEnterMeans DEF MaintEnter, MaintWake
    <3>2. /\ In("trading")' = {}
          /\ In("maintaining")' = {t}
          /\ In("waitTrade")' = {}
      BY <3>1, MoveIn DEF IInv
    <3>3. Contract!BeginMaintenance(t)
      BY <3>1, <3>2 DEF Contract!BeginMaintenance, Contract!Present
    <3>. QED
      BY <3>3 DEF Contract!Next
  <2>5. CASE MaintQueue(t)
    <3>1. Move(t, "waitMaint") /\ at[t] = "out"
      BY <2>5 DEF MaintQueue
    <3>. QED
      BY <2>p, <3>1, MoveIn DEF IInv, Contract!vars
  <2>6. CASE MaintExit(t)
    <3>1. Move(t, "out") /\ at[t] = "maintaining"
      BY <2>6 DEF MaintExit
    <3>2. /\ In("trading")' = In("trading")
          /\ In("maintaining")' = In("maintaining") \ {t}
          /\ In("waitTrade")' = In("waitTrade")
      BY <2>p, <3>1, MoveIn DEF IInv
    <3>3. Contract!EndMaintenance(t)
      BY <2>p, <3>1, <3>2 DEF Contract!EndMaintenance
    <3>. QED
      BY <3>3 DEF Contract!Next
  <2>7. CASE WaitAgain(t)
    BY <2>7 DEF WaitAgain, Contract!vars, In
  <2>8. CASE Cancel(t)
    <3>1. Move(t, "out") /\ at[t] \in {"waitTrade", "waitMaint"}
      BY <2>8 DEF Cancel, StopWaiting
    <3>2. /\ In("trading")' = In("trading")
          /\ In("maintaining")' = In("maintaining")
          /\ In("waitTrade")' = In("waitTrade") \ {t}
      BY <2>p, <3>1, MoveIn DEF IInv
    <3>3. CASE at[t] = "waitTrade"
      <4>1. Contract!Abandon(t)
        BY <2>p, <3>2, <3>3 DEF Contract!Abandon
      <4>. QED
        BY <4>1 DEF Contract!Next
    <3>4. CASE at[t] = "waitMaint"
      BY <2>p, <3>2, <3>4 DEF Contract!vars
    <3>. QED
      BY <3>1, <3>3, <3>4
  <2>. QED
    BY <2>1, <2>2, <2>3, <2>4, <2>5, <2>6, <2>7, <2>8
<1>. QED
  BY <1>u, <1>n

\* The condition variable and its counters implement the contract: every
\* behaviour of AccessGate is one of TradeGate.
THEOREM Implements == Spec => RefinesContract
<1>1. Init => Contract!Init
  BY ContractInit
<1>2. IInv /\ [Next]_vars => [Contract!Next]_(Contract!vars)
  BY ContractStep
<1>. QED
  BY <1>1, <1>2, AccessGateInvariant, PTL DEF Spec, RefinesContract, Contract!Spec
=============================================================================
