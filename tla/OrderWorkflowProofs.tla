-------------------------- MODULE OrderWorkflowProofs --------------------------
(***************************************************************************)
(* Safety of OrderWorkflow for any number of concurrent calls, any symbols  *)
(* and any leverages: its types, the metadata and the leverage an order     *)
(* runs with, and the promise to the caller.                                *)
(*                                                                          *)
(* The gate is proved anew for the instance Gate: that no refresh runs      *)
(* beside a call is what the rest stands on, and a theorem of AccessGate    *)
(* cannot be cited through INSTANCE.                                        *)
(***************************************************************************)
EXTENDS OrderWorkflow, FiniteSetTheorems, TLAPS

\* What is needed of the gate: exact counters, and no refresh beside a trade.
GateHeld ==
    /\ Gate!TypeOK
    /\ Gate!CountersExact
    /\ Gate!Exclusion

\* The controller's variables, in two groups.
Controls ==
    /\ running \in Tasks \cup {Nobody}
    /\ pc \in [Tasks -> {"idle", "sleeping", "stopped", "refreshWait",
                         "refreshing", "access", "accessWait", "prepare",
                         "confirm", "lockWait", "setting", "entry",
                         "stop"} \cup Ended]
    /\ position \in [Trades -> {"none", "open", "protected"}]

Values ==
    /\ snapshot \in [Symbols -> Listing] /\ listing \in [Symbols -> Listing]
    /\ metadata_fresh \in BOOLEAN
    /\ confirmed_leverage \in [Symbols -> Leverages \cup {Absent}]
    /\ confirmation_fresh \in [Symbols -> BOOLEAN]
    /\ price_fresh \in [Symbols -> BOOLEAN]
    /\ order \in [Trades -> Leverages \cup {Absent}]
    /\ priced_fresh \in [Trades -> BOOLEAN]
    /\ account \in [Symbols -> Leverages]
    /\ answer \in [Trades -> Leverages \cup {Absent}]
    /\ uncertain \in [Symbols -> BOOLEAN] /\ suspect \in [Symbols -> BOOLEAN]

InLine(t, line) == \E k \in DOMAIN line : line[k] = t

\* Who waits for the lock of a symbol is in its line, who asks the exchange for
\* leverage stands first.
Locks ==
    /\ leverage_lock \in [Symbols -> Seq(Trades)]
    /\ \A t \in Trades :
          /\ pc[t] = "setting" =>
                /\ leverage_lock[SymbolOf[t]] # <<>>
                /\ Head(leverage_lock[SymbolOf[t]]) = t
          /\ pc[t] = "lockWait" => InLine(t, leverage_lock[SymbolOf[t]])

\* What the exchange applied for a request under way is in force: the lock lets
\* one call ask at a time.
Answered ==
    \A t \in Trades :
        answer[t] # Absent => /\ pc[t] = "setting"
                              /\ account[SymbolOf[t]] = answer[t]

\* A call past the gate is a trade inside it.
Admitted == \A t \in Inside : at[t] = "trading"

\* A call that was sized has a leverage.
Sized == \A t \in Inside : pc[t] # "prepare" => order[t] \in Leverages

\* After a failed entry nothing is confirmed.
Suspected == \A s \in Symbols : suspect[s] => confirmed_leverage[s] = Absent

\* What a call under way has done on the exchange.
Positions ==
    \A t \in Trades :
        pc[t] \notin Ended =>
            position[t] = IF pc[t] = "stop" THEN "open" ELSE "none"

IInv ==
    /\ GateHeld /\ Controls /\ Values /\ Locks /\ Answered
    /\ Admitted /\ Sized /\ Suspected /\ Positions
    /\ SnapshotStable /\ ConfirmedInForce /\ EntryLeverageInForce

-----------------------------------------------------------------------------
(* The gate *)

LEMMA TasksFinite == IsFiniteSet(Tasks)
  BY WorkflowAssumption, FS_AddElement DEF Tasks

\* The instance has a copy of FiniteSets of its own.
LEMMA SameCardinality == \A S : Gate!Cardinality(S) = Cardinality(S)
  BY DEF Gate!Cardinality, Cardinality

\* The tasks at a place are finitely many, and a counter of zero means none.
LEMMA InFinite ==
    ASSUME NEW place
    PROVE  /\ IsFiniteSet(Gate!In(place))
           /\ Cardinality(Gate!In(place)) \in Nat
           /\ Cardinality(Gate!In(place)) = 0 <=> Gate!In(place) = {}
<1>1. Gate!In(place) \in SUBSET Tasks
  BY DEF Gate!In
<1>2. IsFiniteSet(Gate!In(place))
  BY <1>1, TasksFinite, FS_Subset
<1>. QED
  BY <1>2, FS_CardinalityType, FS_EmptySet

\* A move changes the sets of the two places, and their sizes, by one task.
LEMMA MoveSets ==
    ASSUME Gate!TypeOK, NEW u \in Tasks, NEW new \in Gate!Places, Gate!Move(u, new),
           at[u] # new, NEW place
    PROVE  /\ at' \in [Tasks -> Gate!Places]
           /\ Gate!In(place)' = IF place = new THEN Gate!In(place) \cup {u}
                                              ELSE Gate!In(place) \ {u}
           /\ Cardinality(Gate!In(place)') =
                 IF place = new THEN Cardinality(Gate!In(place)) + 1
                 ELSE IF place = at[u] THEN Cardinality(Gate!In(place)) - 1
                 ELSE Cardinality(Gate!In(place))
<1>1. /\ at \in [Tasks -> Gate!Places] /\ at' = [at EXCEPT ![u] = new]
  BY DEF Gate!TypeOK, Gate!Move
<1>2. Gate!In(place)' = IF place = new THEN Gate!In(place) \cup {u}
                                      ELSE Gate!In(place) \ {u}
  BY <1>1 DEF Gate!In
<1>3. u \in Gate!In(place) <=> place = at[u]
  BY DEF Gate!In
<1>4. IsFiniteSet(Gate!In(place))
  BY InFinite
<1>5. CASE place = new
  BY <1>1, <1>2, <1>3, <1>4, <1>5, FS_AddElement
<1>6. CASE place # new
  BY <1>1, <1>2, <1>3, <1>4, <1>6, FS_RemoveElement
<1>. QED
  BY <1>5, <1>6

\* Each action of the gate keeps the counters exact and refreshes alone.
LEMMA GateStep ==
    ASSUME GateHeld, NEW u \in Tasks,
           \/ Gate!TradeEnter(u) \/ Gate!TradeQueue(u) \/ Gate!TradeWake(u)
           \/ Gate!TradeExit(u) \/ Gate!MaintEnter(u) \/ Gate!MaintQueue(u)
           \/ Gate!MaintWake(u) \/ Gate!MaintExit(u) \/ Gate!WaitAgain(u)
           \/ Gate!Cancel(u)
    PROVE  GateHeld'
<1>. DEFINE trading == Gate!In("trading")
            queued == Gate!In("waitTrade")
            maintaining == Gate!In("maintaining")
<1>1. /\ at \in [Tasks -> Gate!Places] /\ notified \subseteq Tasks
      /\ active_trades = Cardinality(trading) /\ waiting_trades = Cardinality(queued)
      /\ Cardinality(trading) \in Nat /\ Cardinality(queued) \in Nat
      /\ Cardinality(trading) = 0 <=> trading = {}
      /\ maintenance_active \in BOOLEAN /\ (maintenance_active <=> maintaining # {})
      /\ maintaining # {} => trading = {}
      /\ \A t, v \in maintaining : t = v
  <2>1. /\ Cardinality(trading) \in Nat /\ Cardinality(queued) \in Nat
        /\ Cardinality(trading) = 0 <=> trading = {}
    BY InFinite
  <2>2. /\ at \in [Tasks -> Gate!Places] /\ notified \subseteq Tasks
        /\ maintenance_active \in BOOLEAN
    BY DEF GateHeld, Gate!TypeOK
  <2>3. /\ active_trades = Cardinality(trading) /\ waiting_trades = Cardinality(queued)
        /\ maintenance_active <=> maintaining # {}
    BY SameCardinality DEF GateHeld, Gate!CountersExact
  <2>4. /\ maintaining # {} => trading = {}
        /\ \A t, v \in maintaining : t = v
    BY DEF GateHeld, Gate!Exclusion
  <2>. QED
    BY <2>1, <2>2, <2>3, <2>4
<1>2. \A place : u \in Gate!In(place) <=> at[u] = place
  BY DEF Gate!In
<1>3. notified' \subseteq Tasks
  BY <1>1 DEF Gate!TradeEnter, Gate!TradeQueue, Gate!TradeWake, Gate!TradeExit,
     Gate!MaintEnter, Gate!MaintQueue, Gate!MaintWake, Gate!MaintExit,
     Gate!WaitAgain, Gate!Cancel, Gate!NotifyAll, Gate!NotifyOther, Gate!Parked, Gate!In
<1>4. SUFFICES /\ at' \in [Tasks -> Gate!Places]
               /\ active_trades' = Cardinality(trading') /\ active_trades' \in Nat
               /\ waiting_trades' = Cardinality(queued') /\ waiting_trades' \in Nat
               /\ maintenance_active' \in BOOLEAN
               /\ maintenance_active' <=> maintaining' # {}
               /\ maintaining' # {} => trading' = {}
               /\ \A t, v \in maintaining' : t = v
  <2>1. Gate!TypeOK'
    BY <1>3, <1>4 DEF Gate!TypeOK
  <2>2. Gate!CountersExact'
    BY <1>4, SameCardinality DEF Gate!CountersExact
  <2>3. Gate!Exclusion'
    BY <1>4 DEF Gate!Exclusion
  <2>. QED
    BY <2>1, <2>2, <2>3 DEF GateHeld
<1>. USE DEF Gate!Places
<1>5. ASSUME NEW new \in Gate!Places, Gate!Move(u, new), at[u] # new
      PROVE  /\ at' \in [Tasks -> Gate!Places]
             /\ \A place \in Gate!Places :
                   /\ Gate!In(place)' = IF place = new THEN Gate!In(place) \cup {u}
                                                      ELSE Gate!In(place) \ {u}
                   /\ Cardinality(Gate!In(place)') =
                         IF place = new THEN Cardinality(Gate!In(place)) + 1
                         ELSE IF place = at[u] THEN Cardinality(Gate!In(place)) - 1
                         ELSE Cardinality(Gate!In(place))
  BY <1>5, MoveSets DEF GateHeld
<1>6. Cardinality(Gate!In(at[u])) # 0
  BY <1>2, InFinite
<1>7. CASE Gate!TradeEnter(u)
  <2>1. Gate!Move(u, "trading") /\ at[u] = "out"
    BY <1>7 DEF Gate!TradeEnter
  <2>. QED
    BY <1>1, <1>2, <1>5, <1>6, <1>7, <2>1
    DEF Gate!TradeEnter, Gate!TradesMayEnter, Gate!MaintenanceMayEnter,
        Gate!StopWaiting
<1>8. CASE Gate!TradeQueue(u)
  <2>1. Gate!Move(u, "waitTrade") /\ at[u] = "out"
    BY <1>8 DEF Gate!TradeQueue
  <2>. QED
    BY <1>1, <1>2, <1>5, <1>6, <1>8, <2>1
    DEF Gate!TradeQueue, Gate!TradesMayEnter, Gate!MaintenanceMayEnter,
        Gate!StopWaiting
<1>9. CASE Gate!TradeWake(u)
  <2>1. Gate!Move(u, "trading") /\ at[u] = "waitTrade"
    BY <1>9 DEF Gate!TradeWake
  <2>. QED
    BY <1>1, <1>2, <1>5, <1>6, <1>9, <2>1
    DEF Gate!TradeWake, Gate!TradesMayEnter, Gate!MaintenanceMayEnter,
        Gate!StopWaiting
<1>10. CASE Gate!TradeExit(u)
  <2>1. Gate!Move(u, "out") /\ at[u] = "trading"
    BY <1>10 DEF Gate!TradeExit
  <2>. QED
    BY <1>1, <1>2, <1>5, <1>6, <1>10, <2>1
    DEF Gate!TradeExit, Gate!TradesMayEnter, Gate!MaintenanceMayEnter,
        Gate!StopWaiting
<1>11. CASE Gate!MaintEnter(u)
  <2>1. Gate!Move(u, "maintaining") /\ at[u] = "out"
    BY <1>11 DEF Gate!MaintEnter
  <2>. QED
    BY <1>1, <1>2, <1>5, <1>6, <1>11, <2>1
    DEF Gate!MaintEnter, Gate!TradesMayEnter, Gate!MaintenanceMayEnter,
        Gate!StopWaiting
<1>12. CASE Gate!MaintQueue(u)
  <2>1. Gate!Move(u, "waitMaint") /\ at[u] = "out"
    BY <1>12 DEF Gate!MaintQueue
  <2>. QED
    BY <1>1, <1>2, <1>5, <1>6, <1>12, <2>1
    DEF Gate!MaintQueue, Gate!TradesMayEnter, Gate!MaintenanceMayEnter,
        Gate!StopWaiting
<1>13. CASE Gate!MaintWake(u)
  <2>1. Gate!Move(u, "maintaining") /\ at[u] = "waitMaint"
    BY <1>13 DEF Gate!MaintWake
  <2>. QED
    BY <1>1, <1>2, <1>5, <1>6, <1>13, <2>1
    DEF Gate!MaintWake, Gate!TradesMayEnter, Gate!MaintenanceMayEnter,
        Gate!StopWaiting
<1>14. CASE Gate!MaintExit(u)
  <2>1. Gate!Move(u, "out") /\ at[u] = "maintaining"
    BY <1>14 DEF Gate!MaintExit
  <2>. QED
    BY <1>1, <1>2, <1>5, <1>6, <1>14, <2>1
    DEF Gate!MaintExit, Gate!TradesMayEnter, Gate!MaintenanceMayEnter,
        Gate!StopWaiting
<1>15. CASE Gate!WaitAgain(u)
  BY <1>1, <1>15 DEF Gate!WaitAgain, Gate!In
<1>16. CASE Gate!Cancel(u)
  <2>1. Gate!Move(u, "out") /\ at[u] \in {"waitTrade", "waitMaint"}
    BY <1>16 DEF Gate!Cancel, Gate!StopWaiting
  <2>. QED
    BY <1>1, <1>2, <1>5, <1>6, <1>16, <2>1 DEF Gate!Cancel, Gate!StopWaiting
<1>. QED
  BY <1>7, <1>8, <1>9, <1>10, <1>11, <1>12, <1>13, <1>14, <1>15, <1>16

-----------------------------------------------------------------------------
(* The steps *)

\* A step of the workflow is a step of the gate, or leaves the gate alone.
GateMoved ==
    \/ UNCHANGED gateVars
    \/ \E u \in Tasks :
          \/ Gate!TradeEnter(u) \/ Gate!TradeQueue(u) \/ Gate!TradeWake(u)
          \/ Gate!TradeExit(u) \/ Gate!MaintEnter(u) \/ Gate!MaintQueue(u)
          \/ Gate!MaintWake(u) \/ Gate!MaintExit(u) \/ Gate!WaitAgain(u)
          \/ Gate!Cancel(u)

\* A newcomer goes to the end of the line of a lock; the holder leaves it at
\* the front, and nobody else does.
LEMMA Lines ==
    ASSUME NEW line \in Seq(Trades), NEW t \in Trades
    PROVE  /\ line = <<>> => <<t>> \o line = <<t>>
           /\ <<t>> \in Seq(Trades) /\ <<t>> # <<>> /\ Head(<<t>>) = t
           /\ Append(line, t) \in Seq(Trades) /\ InLine(t, Append(line, t))
           /\ \A u \in Trades : InLine(u, line) => InLine(u, Append(line, t))
           /\ line # <<>> => /\ Append(line, t) # <<>>
                             /\ Head(Append(line, t)) = Head(line)
                             /\ Tail(line) \in Seq(Trades)
                             /\ \A u \in Trades \ {Head(line)} :
                                   InLine(u, line) => InLine(u, Tail(line))
           /\ InLine(t, line) => line # <<>>
<1>. DEFINE longer == Append(line, t)
<1>1. /\ line = <<>> => <<t>> \o line = <<t>>
      /\ <<t>> \in Seq(Trades) /\ <<t>> # <<>> /\ Head(<<t>>) = t
  <2>1. ASSUME line = <<>> PROVE <<t>> \o line = <<t>>
    BY <2>1
  <2>. QED
    BY <2>1
<1>2. /\ longer \in Seq(Trades) /\ Len(longer) = Len(line) + 1
      /\ longer[Len(line) + 1] = t
      /\ \A k \in 1..Len(line) : longer[k] = line[k]
      /\ DOMAIN line = 1..Len(line) /\ DOMAIN longer = 1..(Len(line) + 1)
      /\ Len(line) \in Nat
  OBVIOUS
<1>3. InLine(t, longer)
  BY <1>2 DEF InLine
<1>4. \A u \in Trades : InLine(u, line) => InLine(u, longer)
  BY <1>2 DEF InLine
<1>5. ASSUME line # <<>>
      PROVE  /\ longer # <<>> /\ Head(longer) = Head(line)
             /\ Tail(line) \in Seq(Trades)
             /\ \A u \in Trades \ {Head(line)} :
                   InLine(u, line) => InLine(u, Tail(line))
  <2>1. /\ longer # <<>> /\ Head(longer) = Head(line)
        /\ Tail(line) \in Seq(Trades) /\ Len(Tail(line)) = Len(line) - 1
        /\ \A k \in 1..(Len(line) - 1) : Tail(line)[k] = line[k + 1]
        /\ DOMAIN Tail(line) = 1..(Len(line) - 1)
        /\ Head(line) = line[1]
    BY <1>5
  <2>2. ASSUME NEW u \in Trades \ {Head(line)}, NEW k \in DOMAIN line, line[k] = u
        PROVE  InLine(u, Tail(line))
    <3>1. k # 1 /\ k - 1 \in 1..(Len(line) - 1) /\ (k - 1) + 1 = k
      BY <1>2, <2>1, <2>2
    <3>. QED
      BY <2>1, <2>2, <3>1 DEF InLine
  <2>. QED
    BY <2>1, <2>2 DEF InLine
<1>6. InLine(t, line) => line # <<>>
  BY DEF InLine
<1>. QED
  BY <1>1, <1>2, <1>3, <1>4, <1>5, <1>6

\* One call moves and changes the line of its symbol: the others must keep
\* their places in it.
LEMMA LineMove ==
    ASSUME Locks, NEW t \in Trades,
           leverage_lock' \in [Symbols -> Seq(Trades)],
           \A s \in Symbols \ {SymbolOf[t]} : leverage_lock'[s] = leverage_lock[s],
           \A u \in Trades \ {t} : pc'[u] = pc[u],
           \A u \in Trades : SymbolOf[u] = SymbolOf[t] =>
               /\ pc'[u] = "setting" => /\ leverage_lock'[SymbolOf[t]] # <<>>
                                        /\ Head(leverage_lock'[SymbolOf[t]]) = u
               /\ pc'[u] = "lockWait" => InLine(u, leverage_lock'[SymbolOf[t]])
    PROVE  Locks'
<1>1. ASSUME NEW u \in Trades
      PROVE  /\ pc'[u] = "setting" => /\ leverage_lock'[SymbolOf[u]] # <<>>
                                      /\ Head(leverage_lock'[SymbolOf[u]]) = u
             /\ pc'[u] = "lockWait" => InLine(u, leverage_lock'[SymbolOf[u]])
  <2>1. CASE SymbolOf[u] = SymbolOf[t]
    BY <2>1
  <2>2. CASE SymbolOf[u] # SymbolOf[t]
    BY <2>2, WorkflowAssumption DEF Locks
  <2>. QED
    BY <2>1, <2>2
<1>. QED
  BY <1>1 DEF Locks

\* Every operation of the gate is one of those proved above.
LEMMA GateMovedStep == [Next]_vars => GateMoved
<1>. SUFFICES ASSUME [Next]_vars PROVE GateMoved
  OBVIOUS
<1>1. CASE LoopTimeout \/ Stop
  BY <1>1 DEF GateMoved, Tasks, LoopTimeout, Stop, RequestRefresh
<1>2. ASSUME NEW t \in Trades, Refuse(t) \/ Call(t)
      PROVE  GateMoved
  BY <1>2 DEF GateMoved, Tasks, Refuse, Call, RequestRefresh
<1>3. ASSUME NEW t \in Trades, Access(t) \/ ResumeAccess(t)
      PROVE  GateMoved
  BY <1>3 DEF GateMoved, Tasks, Access, ResumeAccess
<1>4. ASSUME NEW t \in Trades, Prepare(t)
      PROVE  GateMoved
  BY <1>4 DEF GateMoved, Tasks, Prepare, Finish
<1>5. ASSUME NEW t \in Trades, Confirm(t)
      PROVE  GateMoved
  BY <1>5 DEF GateMoved, Confirm
<1>6. ASSUME NEW t \in Trades, ResumeLock(t)
      PROVE  GateMoved
  BY <1>6 DEF GateMoved, ResumeLock
<1>7. ASSUME NEW t \in Trades, LeverageAccepted(t)
      PROVE  GateMoved
  BY <1>7 DEF GateMoved, LeverageAccepted
<1>8. ASSUME NEW t \in Trades, LeverageFails(t)
      PROVE  GateMoved
  BY <1>8 DEF GateMoved, Tasks, LeverageFails, Finish
<1>9. ASSUME NEW t \in Trades, EntryAnswered(t) \/ EntryFails(t)
      PROVE  GateMoved
  BY <1>9 DEF GateMoved, Tasks, EntryAnswered, EntryFails, Finish
<1>10. ASSUME NEW t \in Trades, StopAccepted(t) \/ StopFails(t)
      PROVE  GateMoved
  BY <1>10 DEF GateMoved, Tasks, StopAccepted, StopFails, Finish
<1>11. ASSUME NEW u \in Tasks, EnterRefresh(u) \/ ParkAgain(u)
      PROVE  GateMoved
  BY <1>11 DEF GateMoved, EnterRefresh, ParkAgain
<1>12. ASSUME NEW u \in Tasks, RefreshSucceeds(u) \/ RefreshFails(u)
      PROVE  GateMoved
  BY <1>12 DEF GateMoved, RefreshSucceeds, RefreshFails
<1>13. CASE Environment \/ UNCHANGED vars
  BY <1>13
  DEF GateMoved, Environment, MetadataExpires, PriceTick, PriceExpires,
      ConfirmationExpires, ListingChanges, vars
<1>14. ASSUME NEW t \in Trades, LeverageApplied(t)
      PROVE  GateMoved
  BY <1>14
  DEF GateMoved, LeverageApplied
<1>. QED
  BY <1>1, <1>2, <1>3, <1>4, <1>5, <1>6, <1>7, <1>8, <1>9, <1>10, <1>11, <1>12,
     <1>13, <1>14
  DEF Next, TradeStep, RefreshStep

\* Whatever the workflow does, the gate stays exact and a refresh alone.
LEMMA GateHeldStep == IInv /\ [Next]_vars => GateHeld'
<1>. SUFFICES ASSUME IInv, [Next]_vars PROVE GateHeld'
  OBVIOUS
<1>1. GateHeld
  BY DEF IInv
<1>2. CASE UNCHANGED gateVars
  BY <1>1, <1>2
  DEF GateHeld, gateVars, Gate!TypeOK, Gate!CountersExact, Gate!Exclusion,
      Gate!In
<1>. QED
  BY <1>1, <1>2, GateMovedStep, GateStep DEF GateMoved

\* Places, the running task and the positions keep their types.
LEMMA ControlsStep == IInv /\ [Next]_vars => Controls'
<1>. SUFFICES ASSUME IInv, [Next]_vars PROVE Controls'
  OBVIOUS
<1>1. CASE LoopTimeout \/ Stop
  BY <1>1
  DEF IInv, Controls, LoopTimeout, Stop, RequestRefresh, Goto, Suspend,
      exchangeVars
<1>2. ASSUME NEW t \in Trades, Refuse(t) \/ Call(t)
      PROVE  Controls'
  BY <1>2
  DEF IInv, Controls, Ended, Tasks, Refuse, Call, RequestRefresh, Goto, Suspend,
      KeepRunning, exchangeVars
<1>3. ASSUME NEW t \in Trades, Access(t) \/ ResumeAccess(t)
      PROVE  Controls'
  BY <1>3
  DEF IInv, Controls, Tasks, Access, ResumeAccess, Goto, Suspend, KeepRunning,
      exchangeVars
<1>4. ASSUME NEW t \in Trades, Prepare(t)
      PROVE  Controls'
  BY <1>4
  DEF IInv, Controls, Ended, Prepare, Finish, Goto, Suspend, exchangeVars
<1>5. ASSUME NEW t \in Trades, Confirm(t)
      PROVE  Controls'
  BY <1>5 DEF IInv, Controls, Confirm, Goto, Suspend, exchangeVars
<1>6. ASSUME NEW t \in Trades, ResumeLock(t)
      PROVE  Controls'
  BY <1>6 DEF IInv, Controls, ResumeLock, Goto, exchangeVars
<1>7. ASSUME NEW t \in Trades, LeverageAccepted(t)
      PROVE  Controls'
  BY <1>7 DEF IInv, Controls, LeverageAccepted, Goto
<1>8. ASSUME NEW t \in Trades, LeverageFails(t)
      PROVE  Controls'
  BY <1>8 DEF IInv, Controls, Ended, LeverageFails, Finish, Goto, Suspend
<1>9. ASSUME NEW t \in Trades, EntryAnswered(t) \/ EntryFails(t)
      PROVE  Controls'
  BY <1>9
  DEF IInv, Controls, Ended, EntryAnswered, EntryFails, Finish, Goto, Suspend
<1>10. ASSUME NEW t \in Trades, StopAccepted(t) \/ StopFails(t)
      PROVE  Controls'
  BY <1>10
  DEF IInv, Controls, Ended, StopAccepted, StopFails, Finish, Goto, Suspend
<1>11. ASSUME NEW u \in Tasks, EnterRefresh(u) \/ ParkAgain(u)
      PROVE  Controls'
  BY <1>11 DEF IInv, Controls, EnterRefresh, ParkAgain, Goto, exchangeVars
<1>12. ASSUME NEW u \in Tasks, RefreshSucceeds(u) \/ RefreshFails(u)
      PROVE  Controls'
  BY <1>12
  DEF IInv, Controls, Ended, RefreshSucceeds, RefreshFails, Goto, Suspend,
      KeepRunning, exchangeVars
<1>13. CASE Environment \/ UNCHANGED vars
  BY <1>13
  DEF IInv, Controls, Environment, MetadataExpires, PriceTick, PriceExpires,
      ConfirmationExpires, ListingChanges, vars, exchangeVars
<1>14. ASSUME NEW t \in Trades, LeverageApplied(t)
      PROVE  Controls'
  BY <1>14
  DEF IInv, Controls, LeverageApplied
<1>. QED
  BY <1>1, <1>2, <1>3, <1>4, <1>5, <1>6, <1>7, <1>8, <1>9, <1>10, <1>11, <1>12,
     <1>13, <1>14
  DEF Next, TradeStep, RefreshStep

\* The controller's records and the exchange's keep their types: what a call
\* writes into them is the leverage it was sized for, or nothing.
LEMMA ValuesStep == IInv /\ [Next]_vars => Values'
<1>. SUFFICES ASSUME IInv, [Next]_vars PROVE Values'
  OBVIOUS
<1>1. CASE LoopTimeout \/ Stop
  BY <1>1
  DEF IInv, Values, LoopTimeout, Stop, RequestRefresh, metadataVars,
      leverageVars, orderVars, exchangeVars, historyVars
<1>2. ASSUME NEW t \in Trades, Refuse(t) \/ Call(t)
      PROVE  Values'
  BY <1>2
  DEF IInv, Values, Refuse, Call, RequestRefresh, metadataVars, leverageVars,
      orderVars, exchangeVars, historyVars
<1>3. ASSUME NEW t \in Trades, Access(t) \/ ResumeAccess(t)
      PROVE  Values'
  BY <1>3
  DEF IInv, Values, Access, ResumeAccess, metadataVars, leverageVars, orderVars,
      exchangeVars, historyVars
<1>4. ASSUME NEW t \in Trades, Prepare(t)
      PROVE  Values'
  BY <1>4
  DEF IInv, Values, Prepare, metadataVars, leverageVars, orderVars,
      exchangeVars, historyVars
<1>5. ASSUME NEW t \in Trades, Confirm(t)
      PROVE  Values'
  BY <1>5
  DEF IInv, Values, Confirm, metadataVars, orderVars, exchangeVars, historyVars
<1>6. ASSUME NEW t \in Trades, ResumeLock(t)
      PROVE  Values'
  BY <1>6
  DEF IInv, Values, ResumeLock, metadataVars, orderVars, exchangeVars,
      historyVars
<1>7. ASSUME NEW t \in Trades, LeverageAccepted(t)
      PROVE  Values'
  BY <1>7
  DEF IInv, Values, Sized, Inside, LeverageAccepted, RecordConfirmation,
      metadataVars, orderVars
<1>8. ASSUME NEW t \in Trades, LeverageFails(t)
      PROVE  Values'
  BY <1>8, WorkflowAssumption
  DEF IInv, Values, LeverageFails, metadataVars, orderVars, historyVars
<1>9. ASSUME NEW t \in Trades, EntryAnswered(t) \/ EntryFails(t)
      PROVE  Values'
  BY <1>9
  DEF IInv, Values, EntryAnswered, EntryFails, Invalidate, metadataVars,
      leverageVars, orderVars, historyVars
<1>10. ASSUME NEW t \in Trades, StopAccepted(t) \/ StopFails(t)
      PROVE  Values'
  BY <1>10
  DEF IInv, Values, StopAccepted, StopFails, metadataVars, leverageVars,
      orderVars, historyVars
<1>11. ASSUME NEW u \in Tasks, EnterRefresh(u) \/ ParkAgain(u)
      PROVE  Values'
  BY <1>11
  DEF IInv, Values, EnterRefresh, ParkAgain, metadataVars, leverageVars,
      orderVars, exchangeVars, historyVars
<1>12. ASSUME NEW u \in Tasks, RefreshSucceeds(u) \/ RefreshFails(u)
      PROVE  Values'
  BY <1>12
  DEF IInv, Values, RefreshSucceeds, RefreshFails, metadataVars, leverageVars,
      orderVars, exchangeVars, historyVars
<1>13. CASE Environment \/ UNCHANGED vars
  <2>1. CASE MetadataExpires
    BY <2>1
    DEF MetadataExpires, IInv, Values, leverageVars, orderVars, exchangeVars,
        historyVars
  <2>2. CASE \E s \in Symbols : PriceTick(s)
    BY <2>2
    DEF PriceTick, IInv, Values, metadataVars, leverageVars, orderVars,
        exchangeVars, historyVars
  <2>3. CASE \E s \in Symbols : PriceExpires(s)
    BY <2>3
    DEF PriceExpires, IInv, Values, metadataVars, leverageVars, exchangeVars,
        historyVars
  <2>4. CASE \E s \in Symbols : ConfirmationExpires(s)
    BY <2>4
    DEF ConfirmationExpires, IInv, Values, metadataVars, orderVars,
        exchangeVars, historyVars
  <2>5. CASE \E s \in Symbols : ListingChanges(s)
    BY <2>5
    DEF ListingChanges, IInv, Values, metadataVars, leverageVars, orderVars,
        exchangeVars, historyVars
  <2>6. CASE UNCHANGED vars
    BY <2>6
    DEF vars, IInv, Values, metadataVars, leverageVars, orderVars, exchangeVars,
        historyVars
  <2>. QED
    BY <2>1, <2>2, <2>3, <2>4, <2>5, <2>6, <1>13 DEF Environment
<1>14. ASSUME NEW t \in Trades, LeverageApplied(t)
      PROVE  Values'
  <2>1. PICK applied \in Leverages :
            /\ account' = [account EXCEPT ![SymbolOf[t]] = applied]
            /\ answer' = [answer EXCEPT ![t] = applied]
            /\ uncertain' = [uncertain EXCEPT ![SymbolOf[t]] =
                                 @ \/ applied # account[SymbolOf[t]]]
    BY <1>14 DEF LeverageApplied
  <2>2. /\ account' \in [Symbols -> Leverages]
        /\ answer' \in [Trades -> Leverages \cup {Absent}]
    BY <2>1 DEF IInv, Values
  <2>3. uncertain' \in [Symbols -> BOOLEAN]
    BY <2>1, Zenon DEF IInv, Values
  <2>. QED
    BY <1>14, <2>2, <2>3
    DEF IInv, Values, LeverageApplied, metadataVars, leverageVars, orderVars
<1>. QED
  BY <1>1, <1>2, <1>3, <1>4, <1>5, <1>6, <1>7, <1>8, <1>9, <1>10, <1>11, <1>12,
     <1>13, <1>14
  DEF Next, TradeStep, RefreshStep

\* A call leaves the line of a lock only as its holder, so who asks for leverage
\* stays in front and who waits stays in the line.
LEMMA LocksStep == IInv /\ [Next]_vars => Locks'
<1>. SUFFICES ASSUME IInv, [Next]_vars PROVE Locks'
  OBVIOUS
<1>1. CASE LoopTimeout \/ Stop
  BY <1>1
  DEF IInv, Controls, Locks, Tasks, LoopTimeout, Stop, RequestRefresh, Goto,
      leverageVars
<1>2. ASSUME NEW t \in Trades, Refuse(t) \/ Call(t)
      PROVE  Locks'
  BY <1>2
  DEF IInv, Controls, Locks, Tasks, Refuse, Call, RequestRefresh, Goto,
      leverageVars
<1>3. ASSUME NEW t \in Trades, Access(t) \/ ResumeAccess(t)
      PROVE  Locks'
  BY <1>3
  DEF IInv, Controls, Locks, Tasks, Access, ResumeAccess, Goto, leverageVars
<1>4. ASSUME NEW t \in Trades, Prepare(t)
      PROVE  Locks'
  BY <1>4 DEF IInv, Controls, Locks, Tasks, Prepare, Finish, Goto, leverageVars
<1>5. ASSUME NEW t \in Trades, Confirm(t)
      PROVE  Locks'
  <2>. DEFINE line == leverage_lock[SymbolOf[t]]
              line2 == leverage_lock'[SymbolOf[t]]
  <2>1. /\ Locks /\ line \in Seq(Trades) /\ SymbolOf[t] \in Symbols
        /\ \A u \in Trades : SymbolOf[u] = SymbolOf[t] =>
              /\ pc[u] = "setting" => line # <<>> /\ Head(line) = u
              /\ pc[u] = "lockWait" => InLine(u, line)
    BY WorkflowAssumption DEF IInv, Locks
  <2>2. CASE Goto(t, "entry") /\ UNCHANGED leverage_lock
    <3>1. /\ leverage_lock' \in [Symbols -> Seq(Trades)] /\ line2 = line
          /\ \A s \in Symbols \ {SymbolOf[t]} : leverage_lock'[s] = leverage_lock[s]
      BY <2>1, <2>2 DEF Locks
    <3>2. /\ \A u \in Trades \ {t} : pc'[u] = pc[u]
          /\ pc'[t] = "entry"
      BY <2>2, WorkflowAssumption DEF IInv, Controls, Tasks, Goto
    <3>3. \A u \in Trades : SymbolOf[u] = SymbolOf[t] =>
              /\ pc'[u] = "setting" => line2 # <<>> /\ Head(line2) = u
              /\ pc'[u] = "lockWait" => InLine(u, line2)
      BY <2>1, <2>2, <3>1, <3>2, Lines
    <3>. QED
      BY <2>1, <3>1, <3>2, <3>3, LineMove
  <2>3. CASE /\ line = <<>> /\ Goto(t, "setting")
             /\ leverage_lock' = [leverage_lock EXCEPT ![SymbolOf[t]] = <<t>> \o line]
    <3>1. /\ leverage_lock' \in [Symbols -> Seq(Trades)] /\ line2 = <<t>>
          /\ \A s \in Symbols \ {SymbolOf[t]} : leverage_lock'[s] = leverage_lock[s]
      BY <2>1, <2>3, Lines DEF Locks
    <3>2. /\ \A u \in Trades \ {t} : pc'[u] = pc[u]
          /\ pc'[t] = "setting"
      BY <2>3, WorkflowAssumption DEF IInv, Controls, Tasks, Goto
    <3>3. \A u \in Trades : SymbolOf[u] = SymbolOf[t] =>
              /\ pc'[u] = "setting" => line2 # <<>> /\ Head(line2) = u
              /\ pc'[u] = "lockWait" => InLine(u, line2)
      BY <2>1, <2>3, <3>1, <3>2, Lines
    <3>. QED
      BY <2>1, <3>1, <3>2, <3>3, LineMove
  <2>4. CASE /\ line # <<>> /\ Goto(t, "lockWait")
             /\ leverage_lock' = [leverage_lock EXCEPT ![SymbolOf[t]] = Append(line, t)]
    <3>1. /\ leverage_lock' \in [Symbols -> Seq(Trades)] /\ line2 = Append(line, t)
          /\ \A s \in Symbols \ {SymbolOf[t]} : leverage_lock'[s] = leverage_lock[s]
      BY <2>1, <2>4, Lines DEF Locks
    <3>2. /\ \A u \in Trades \ {t} : pc'[u] = pc[u]
          /\ pc'[t] = "lockWait"
      BY <2>4, WorkflowAssumption DEF IInv, Controls, Tasks, Goto
    <3>3. \A u \in Trades : SymbolOf[u] = SymbolOf[t] =>
              /\ pc'[u] = "setting" => line2 # <<>> /\ Head(line2) = u
              /\ pc'[u] = "lockWait" => InLine(u, line2)
      BY <2>1, <2>4, <3>1, <3>2, Lines
    <3>. QED
      BY <2>1, <3>1, <3>2, <3>3, LineMove
  <2>. QED
    BY <2>2, <2>3, <2>4, <1>5 DEF Confirm, LockFree
<1>6. ASSUME NEW t \in Trades, ResumeLock(t)
      PROVE  Locks'
  <2>. DEFINE line == leverage_lock[SymbolOf[t]]
              line2 == leverage_lock'[SymbolOf[t]]
  <2>1. /\ Locks /\ line \in Seq(Trades) /\ SymbolOf[t] \in Symbols
        /\ \A u \in Trades : SymbolOf[u] = SymbolOf[t] =>
              /\ pc[u] = "setting" => line # <<>> /\ Head(line) = u
              /\ pc[u] = "lockWait" => InLine(u, line)
    BY WorkflowAssumption DEF IInv, Locks
  <2>2. line # <<>> /\ Head(line) = t
    BY <2>1, <1>6, Lines DEF ResumeLock
  <2>3. CASE Goto(t, "entry") /\ Release(SymbolOf[t])
    <3>5. /\ \A u \in Trades \ {t} : pc'[u] = pc[u]
          /\ pc'[t] \notin {"setting", "lockWait"}
      BY <2>3, WorkflowAssumption DEF IInv, Controls, Tasks, Goto
    <3>6. leverage_lock' = [leverage_lock EXCEPT ![SymbolOf[t]] = Tail(line)]
      BY <2>3 DEF Release, Goto
    <3>7. /\ leverage_lock' \in [Symbols -> Seq(Trades)] /\ line2 = Tail(line)
          /\ \A s \in Symbols \ {SymbolOf[t]} : leverage_lock'[s] = leverage_lock[s]
      BY <2>1, <2>2, <3>6, Lines DEF Locks
    <3>8. \A u \in Trades : SymbolOf[u] = SymbolOf[t] =>
          /\ pc'[u] = "setting" => line2 # <<>> /\ Head(line2) = u
          /\ pc'[u] = "lockWait" => InLine(u, line2)
      BY <2>1, <2>2, <3>5, <3>7, Lines
    <3>. QED
      BY <2>1, <3>5, <3>7, <3>8, LineMove
  <2>4. CASE Goto(t, "setting") /\ UNCHANGED leverage_lock
    <3>1. /\ leverage_lock' \in [Symbols -> Seq(Trades)] /\ line2 = line
          /\ \A s \in Symbols \ {SymbolOf[t]} : leverage_lock'[s] = leverage_lock[s]
      BY <2>1, <2>4 DEF Locks
    <3>2. /\ \A u \in Trades \ {t} : pc'[u] = pc[u]
          /\ pc'[t] = "setting"
      BY <2>4, WorkflowAssumption DEF IInv, Controls, Tasks, Goto
    <3>3. \A u \in Trades : SymbolOf[u] = SymbolOf[t] =>
              /\ pc'[u] = "setting" => line2 # <<>> /\ Head(line2) = u
              /\ pc'[u] = "lockWait" => InLine(u, line2)
      BY <2>1, <2>4, <2>2, <3>1, <3>2, Lines
    <3>. QED
      BY <2>1, <3>1, <3>2, <3>3, LineMove
  <2>. QED
    BY <2>3, <2>4, <1>6 DEF ResumeLock
<1>7. ASSUME NEW t \in Trades, LeverageAccepted(t)
      PROVE  Locks'
  <2>. DEFINE line == leverage_lock[SymbolOf[t]]
              line2 == leverage_lock'[SymbolOf[t]]
  <2>1. /\ Locks /\ line \in Seq(Trades) /\ SymbolOf[t] \in Symbols
        /\ \A u \in Trades : SymbolOf[u] = SymbolOf[t] =>
              /\ pc[u] = "setting" => line # <<>> /\ Head(line) = u
              /\ pc[u] = "lockWait" => InLine(u, line)
    BY WorkflowAssumption DEF IInv, Locks
  <2>2. line # <<>> /\ Head(line) = t
    BY <2>1, <1>7 DEF LeverageAccepted
  <2>5. /\ \A u \in Trades \ {t} : pc'[u] = pc[u]
        /\ pc'[t] \notin {"setting", "lockWait"}
    BY <1>7 DEF IInv, Controls, Tasks, LeverageAccepted, Goto
  <2>6. leverage_lock' = [leverage_lock EXCEPT ![SymbolOf[t]] = Tail(line)]
    BY <1>7 DEF Release, LeverageAccepted, Goto
  <2>7. /\ leverage_lock' \in [Symbols -> Seq(Trades)] /\ line2 = Tail(line)
        /\ \A s \in Symbols \ {SymbolOf[t]} : leverage_lock'[s] = leverage_lock[s]
    BY <2>1, <2>2, <2>6, Lines DEF Locks
  <2>8. \A u \in Trades : SymbolOf[u] = SymbolOf[t] =>
        /\ pc'[u] = "setting" => line2 # <<>> /\ Head(line2) = u
        /\ pc'[u] = "lockWait" => InLine(u, line2)
    BY <2>1, <2>2, <2>5, <2>7, Lines
  <2>. QED
    BY <2>1, <2>5, <2>7, <2>8, LineMove
<1>8. ASSUME NEW t \in Trades, LeverageFails(t)
      PROVE  Locks'
  <2>. DEFINE line == leverage_lock[SymbolOf[t]]
              line2 == leverage_lock'[SymbolOf[t]]
  <2>1. /\ Locks /\ line \in Seq(Trades) /\ SymbolOf[t] \in Symbols
        /\ \A u \in Trades : SymbolOf[u] = SymbolOf[t] =>
              /\ pc[u] = "setting" => line # <<>> /\ Head(line) = u
              /\ pc[u] = "lockWait" => InLine(u, line)
    BY WorkflowAssumption DEF IInv, Locks
  <2>2. line # <<>> /\ Head(line) = t
    BY <2>1, <1>8 DEF LeverageFails
  <2>5. /\ \A u \in Trades \ {t} : pc'[u] = pc[u]
        /\ pc'[t] \notin {"setting", "lockWait"}
    BY <1>8 DEF IInv, Controls, Tasks, LeverageFails, Finish, Goto
  <2>6. leverage_lock' = [leverage_lock EXCEPT ![SymbolOf[t]] = Tail(line)]
    BY <1>8 DEF Release, LeverageFails, Finish, Goto
  <2>7. /\ leverage_lock' \in [Symbols -> Seq(Trades)] /\ line2 = Tail(line)
        /\ \A s \in Symbols \ {SymbolOf[t]} : leverage_lock'[s] = leverage_lock[s]
    BY <2>1, <2>2, <2>6, Lines DEF Locks
  <2>8. \A u \in Trades : SymbolOf[u] = SymbolOf[t] =>
        /\ pc'[u] = "setting" => line2 # <<>> /\ Head(line2) = u
        /\ pc'[u] = "lockWait" => InLine(u, line2)
    BY <2>1, <2>2, <2>5, <2>7, Lines
  <2>. QED
    BY <2>1, <2>5, <2>7, <2>8, LineMove
<1>9. ASSUME NEW t \in Trades, EntryAnswered(t) \/ EntryFails(t)
      PROVE  Locks'
  BY <1>9
  DEF IInv, Controls, Locks, Tasks, EntryAnswered, EntryFails, Finish, Goto,
      leverageVars
<1>10. ASSUME NEW t \in Trades, StopAccepted(t) \/ StopFails(t)
      PROVE  Locks'
  BY <1>10
  DEF IInv, Controls, Locks, Tasks, StopAccepted, StopFails, Finish, Goto,
      leverageVars
<1>11. ASSUME NEW u \in Tasks, EnterRefresh(u) \/ ParkAgain(u)
      PROVE  Locks'
  BY <1>11
  DEF IInv, Controls, Locks, Tasks, EnterRefresh, ParkAgain, Goto, leverageVars
<1>12. ASSUME NEW u \in Tasks, RefreshSucceeds(u) \/ RefreshFails(u)
      PROVE  Locks'
  BY <1>12
  DEF IInv, Controls, Locks, Tasks, RefreshSucceeds, RefreshFails, Goto,
      leverageVars
<1>13. CASE Environment \/ UNCHANGED vars
  BY <1>13
  DEF IInv, Locks, Environment, MetadataExpires, PriceTick, PriceExpires,
      ConfirmationExpires, ListingChanges, vars, leverageVars
<1>14. ASSUME NEW t \in Trades, LeverageApplied(t)
      PROVE  Locks'
  BY <1>14
  DEF IInv, Locks, LeverageApplied, leverageVars
<1>. QED
  BY <1>1, <1>2, <1>3, <1>4, <1>5, <1>6, <1>7, <1>8, <1>9, <1>10, <1>11, <1>12,
     <1>13, <1>14
  DEF Next, TradeStep, RefreshStep

\* A call is inside the gate from its admission to its end.
LEMMA AdmittedStep == IInv /\ [Next]_vars => Admitted'
<1>. SUFFICES ASSUME IInv, [Next]_vars PROVE Admitted'
  OBVIOUS
<1>1. CASE LoopTimeout \/ Stop
  BY <1>1
  DEF IInv, Controls, Admitted, Inside, Tasks, GateHeld, Gate!TypeOK,
      Gate!MaintEnter, Gate!MaintQueue, Gate!MaintExit, Gate!Cancel, Gate!Move,
      LoopTimeout, Stop, RequestRefresh, Goto, gateVars
<1>2. ASSUME NEW t \in Trades, Refuse(t) \/ Call(t)
      PROVE  Admitted'
  BY <1>2
  DEF IInv, Controls, Admitted, Inside, Tasks, GateHeld, Gate!TypeOK,
      Gate!MaintEnter, Gate!MaintQueue, Gate!Move, Refuse, Call, RequestRefresh,
      Goto, gateVars
<1>3. ASSUME NEW t \in Trades, Access(t) \/ ResumeAccess(t)
      PROVE  Admitted'
  BY <1>3
  DEF IInv, Controls, Admitted, Inside, Tasks, GateHeld, Gate!TypeOK,
      Gate!TradeEnter, Gate!TradeQueue, Gate!TradeWake, Gate!Move, Access,
      ResumeAccess, Goto
<1>4. ASSUME NEW t \in Trades, Prepare(t)
      PROVE  Admitted'
  BY <1>4
  DEF IInv, Controls, Admitted, Inside, Tasks, GateHeld, Gate!TypeOK,
      Gate!TradeExit, Gate!Move, Prepare, Finish, Goto, gateVars
<1>5. ASSUME NEW t \in Trades, Confirm(t)
      PROVE  Admitted'
  BY <1>5 DEF IInv, Controls, Admitted, Inside, Tasks, Confirm, Goto, gateVars
<1>6. ASSUME NEW t \in Trades, ResumeLock(t)
      PROVE  Admitted'
  BY <1>6
  DEF IInv, Controls, Admitted, Inside, Tasks, ResumeLock, Goto, gateVars
<1>7. ASSUME NEW t \in Trades, LeverageAccepted(t)
      PROVE  Admitted'
  BY <1>7 DEF IInv, Admitted, Inside, LeverageAccepted, Goto, gateVars
<1>8. ASSUME NEW t \in Trades, LeverageFails(t)
      PROVE  Admitted'
  BY <1>8
  DEF IInv, Controls, Admitted, Inside, Tasks, Gate!TradeExit, Gate!Move,
      LeverageFails, Finish, Goto
<1>9. ASSUME NEW t \in Trades, EntryAnswered(t) \/ EntryFails(t)
      PROVE  Admitted'
  BY <1>9
  DEF IInv, Controls, Admitted, Inside, Tasks, GateHeld, Gate!TypeOK,
      Gate!TradeExit, Gate!Move, EntryAnswered, EntryFails, Finish, Goto,
      gateVars
<1>10. ASSUME NEW t \in Trades, StopAccepted(t) \/ StopFails(t)
      PROVE  Admitted'
  BY <1>10
  DEF IInv, Controls, Admitted, Inside, Tasks, GateHeld, Gate!TypeOK,
      Gate!TradeExit, Gate!Move, StopAccepted, StopFails, Finish, Goto
<1>11. ASSUME NEW u \in Tasks, EnterRefresh(u) \/ ParkAgain(u)
      PROVE  Admitted'
  BY <1>11
  DEF IInv, Controls, Admitted, Inside, Tasks, GateHeld, Gate!TypeOK,
      Gate!MaintWake, Gate!WaitAgain, Gate!Move, EnterRefresh, ParkAgain, Goto
<1>12. ASSUME NEW u \in Tasks, RefreshSucceeds(u) \/ RefreshFails(u)
      PROVE  Admitted'
  BY <1>12
  DEF IInv, Controls, Admitted, Inside, Tasks, GateHeld, Gate!TypeOK,
      Gate!MaintExit, Gate!Move, RefreshSucceeds, RefreshFails, Goto
<1>13. CASE Environment \/ UNCHANGED vars
  BY <1>13
  DEF IInv, Admitted, Inside, Environment, MetadataExpires, PriceTick,
      PriceExpires, ConfirmationExpires, ListingChanges, vars, gateVars
<1>14. ASSUME NEW t \in Trades, LeverageApplied(t)
      PROVE  Admitted'
  BY <1>14
  DEF IInv, Admitted, Inside, LeverageApplied, gateVars
<1>. QED
  BY <1>1, <1>2, <1>3, <1>4, <1>5, <1>6, <1>7, <1>8, <1>9, <1>10, <1>11, <1>12,
     <1>13, <1>14
  DEF Next, TradeStep, RefreshStep

\* Only Prepare sizes an order, and it takes a leverage of the snapshot.
LEMMA SizedStep == IInv /\ [Next]_vars => Sized'
<1>. SUFFICES ASSUME IInv, [Next]_vars PROVE Sized'
  OBVIOUS
<1>1. CASE LoopTimeout \/ Stop
  BY <1>1
  DEF IInv, Controls, Sized, Inside, Tasks, LoopTimeout, Stop, RequestRefresh,
      Goto, orderVars
<1>2. ASSUME NEW t \in Trades, Refuse(t) \/ Call(t)
      PROVE  Sized'
  BY <1>2
  DEF IInv, Controls, Sized, Inside, Tasks, Refuse, Call, RequestRefresh, Goto,
      orderVars
<1>3. ASSUME NEW t \in Trades, Access(t) \/ ResumeAccess(t)
      PROVE  Sized'
  BY <1>3
  DEF IInv, Controls, Sized, Inside, Tasks, Access, ResumeAccess, Goto,
      orderVars
<1>4. ASSUME NEW t \in Trades, Prepare(t)
      PROVE  Sized'
  BY <1>4
  DEF IInv, Controls, Values, Sized, Inside, Tasks, Prepare, Finish, Goto,
      orderVars
<1>5. ASSUME NEW t \in Trades, Confirm(t)
      PROVE  Sized'
  BY <1>5 DEF IInv, Controls, Sized, Inside, Tasks, Confirm, Goto, orderVars
<1>6. ASSUME NEW t \in Trades, ResumeLock(t)
      PROVE  Sized'
  BY <1>6 DEF IInv, Controls, Sized, Inside, Tasks, ResumeLock, Goto, orderVars
<1>7. ASSUME NEW t \in Trades, LeverageAccepted(t)
      PROVE  Sized'
  BY <1>7 DEF IInv, Sized, Inside, LeverageAccepted, Goto, orderVars
<1>8. ASSUME NEW t \in Trades, LeverageFails(t)
      PROVE  Sized'
  BY <1>8 DEF IInv, Sized, Inside, LeverageFails, Finish, Goto, orderVars
<1>9. ASSUME NEW t \in Trades, EntryAnswered(t) \/ EntryFails(t)
      PROVE  Sized'
  BY <1>9
  DEF IInv, Controls, Sized, Inside, Tasks, EntryAnswered, EntryFails, Finish,
      Goto, orderVars
<1>10. ASSUME NEW t \in Trades, StopAccepted(t) \/ StopFails(t)
      PROVE  Sized'
  BY <1>10
  DEF IInv, Controls, Sized, Inside, Tasks, StopAccepted, StopFails, Finish,
      Goto, orderVars
<1>11. ASSUME NEW u \in Tasks, EnterRefresh(u) \/ ParkAgain(u)
      PROVE  Sized'
  BY <1>11
  DEF IInv, Controls, Sized, Inside, Tasks, EnterRefresh, ParkAgain, Goto,
      orderVars
<1>12. ASSUME NEW u \in Tasks, RefreshSucceeds(u) \/ RefreshFails(u)
      PROVE  Sized'
  BY <1>12
  DEF IInv, Controls, Sized, Inside, Tasks, RefreshSucceeds, RefreshFails, Goto,
      orderVars
<1>13. CASE Environment \/ UNCHANGED vars
  BY <1>13
  DEF IInv, Sized, Inside, Environment, MetadataExpires, PriceTick,
      PriceExpires, ConfirmationExpires, ListingChanges, vars, orderVars
<1>14. ASSUME NEW t \in Trades, LeverageApplied(t)
      PROVE  Sized'
  BY <1>14
  DEF IInv, Sized, Inside, LeverageApplied, orderVars
<1>. QED
  BY <1>1, <1>2, <1>3, <1>4, <1>5, <1>6, <1>7, <1>8, <1>9, <1>10, <1>11, <1>12,
     <1>13, <1>14
  DEF Next, TradeStep, RefreshStep

\* A failed entry clears the confirmation of its symbol, an accepted request ends
\* the suspicion with a new one.
LEMMA SuspectedStep == IInv /\ [Next]_vars => Suspected'
<1>. SUFFICES ASSUME IInv, [Next]_vars PROVE Suspected'
  OBVIOUS
<1>1. CASE LoopTimeout \/ Stop
  BY <1>1
  DEF IInv, Suspected, LoopTimeout, Stop, RequestRefresh, leverageVars,
      historyVars
<1>2. ASSUME NEW t \in Trades, Refuse(t) \/ Call(t)
      PROVE  Suspected'
  BY <1>2
  DEF IInv, Suspected, Refuse, Call, RequestRefresh, leverageVars, historyVars
<1>3. ASSUME NEW t \in Trades, Access(t) \/ ResumeAccess(t)
      PROVE  Suspected'
  BY <1>3 DEF IInv, Suspected, Access, ResumeAccess, leverageVars, historyVars
<1>4. ASSUME NEW t \in Trades, Prepare(t)
      PROVE  Suspected'
  BY <1>4 DEF IInv, Suspected, Prepare, leverageVars, historyVars
<1>5. ASSUME NEW t \in Trades, Confirm(t)
      PROVE  Suspected'
  BY <1>5 DEF IInv, Suspected, Confirm, historyVars
<1>6. ASSUME NEW t \in Trades, ResumeLock(t)
      PROVE  Suspected'
  BY <1>6 DEF IInv, Suspected, ResumeLock, historyVars
<1>7. ASSUME NEW t \in Trades, LeverageAccepted(t)
      PROVE  Suspected'
  BY <1>7 DEF IInv, Values, Suspected, LeverageAccepted, RecordConfirmation
<1>8. ASSUME NEW t \in Trades, LeverageFails(t)
      PROVE  Suspected'
  BY <1>8 DEF IInv, Suspected, LeverageFails, historyVars
<1>9. ASSUME NEW t \in Trades, EntryAnswered(t) \/ EntryFails(t)
      PROVE  Suspected'
  BY <1>9
  DEF IInv, Values, Suspected, EntryAnswered, EntryFails, Invalidate,
      leverageVars, historyVars
<1>10. ASSUME NEW t \in Trades, StopAccepted(t) \/ StopFails(t)
      PROVE  Suspected'
  BY <1>10
  DEF IInv, Suspected, StopAccepted, StopFails, leverageVars, historyVars
<1>11. ASSUME NEW u \in Tasks, EnterRefresh(u) \/ ParkAgain(u)
      PROVE  Suspected'
  BY <1>11
  DEF IInv, Suspected, EnterRefresh, ParkAgain, leverageVars, historyVars
<1>12. ASSUME NEW u \in Tasks, RefreshSucceeds(u) \/ RefreshFails(u)
      PROVE  Suspected'
  BY <1>12
  DEF IInv, Suspected, RefreshSucceeds, RefreshFails, leverageVars, historyVars
<1>13. CASE Environment \/ UNCHANGED vars
  BY <1>13
  DEF IInv, Suspected, Environment, MetadataExpires, PriceTick, PriceExpires,
      ConfirmationExpires, ListingChanges, vars, leverageVars, historyVars
<1>14. ASSUME NEW t \in Trades, LeverageApplied(t)
      PROVE  Suspected'
  BY <1>14
  DEF IInv, Suspected, LeverageApplied, leverageVars
<1>. QED
  BY <1>1, <1>2, <1>3, <1>4, <1>5, <1>6, <1>7, <1>8, <1>9, <1>10, <1>11, <1>12,
     <1>13, <1>14
  DEF Next, TradeStep, RefreshStep

\* A call has opened a position exactly when it goes on to its stop.
LEMMA PositionsStep == IInv /\ [Next]_vars => Positions'
<1>. SUFFICES ASSUME IInv, [Next]_vars PROVE Positions'
  OBVIOUS
<1>1. CASE LoopTimeout \/ Stop
  BY <1>1, WorkflowAssumption
  DEF IInv, Controls, Positions, Tasks, LoopTimeout, Stop, RequestRefresh, Goto,
      exchangeVars
<1>2. ASSUME NEW t \in Trades, Refuse(t) \/ Call(t)
      PROVE  Positions'
  BY <1>2
  DEF IInv, Controls, Positions, Ended, Tasks, Refuse, Call, RequestRefresh,
      Goto, exchangeVars
<1>3. ASSUME NEW t \in Trades, Access(t) \/ ResumeAccess(t)
      PROVE  Positions'
  BY <1>3
  DEF IInv, Controls, Positions, Ended, Tasks, Access, ResumeAccess, Goto,
      exchangeVars
<1>4. ASSUME NEW t \in Trades, Prepare(t)
      PROVE  Positions'
  BY <1>4
  DEF IInv, Controls, Positions, Ended, Tasks, Prepare, Finish, Goto,
      exchangeVars
<1>5. ASSUME NEW t \in Trades, Confirm(t)
      PROVE  Positions'
  BY <1>5
  DEF IInv, Controls, Positions, Ended, Tasks, Confirm, Goto, exchangeVars
<1>6. ASSUME NEW t \in Trades, ResumeLock(t)
      PROVE  Positions'
  BY <1>6
  DEF IInv, Controls, Positions, Ended, Tasks, ResumeLock, Goto, exchangeVars
<1>7. ASSUME NEW t \in Trades, LeverageAccepted(t)
      PROVE  Positions'
  BY <1>7 DEF IInv, Positions, Ended, LeverageAccepted, Goto
<1>8. ASSUME NEW t \in Trades, LeverageFails(t)
      PROVE  Positions'
  BY <1>8 DEF IInv, Positions, Ended, LeverageFails, Finish, Goto
<1>9. ASSUME NEW t \in Trades, EntryAnswered(t) \/ EntryFails(t)
      PROVE  Positions'
  BY <1>9
  DEF IInv, Controls, Positions, Ended, Tasks, EntryAnswered, EntryFails,
      NotFilled, Finish, Goto
<1>10. ASSUME NEW t \in Trades, StopAccepted(t) \/ StopFails(t)
      PROVE  Positions'
  BY <1>10
  DEF IInv, Controls, Positions, Ended, Tasks, StopAccepted, StopFails, Finish,
      Goto
<1>11. ASSUME NEW u \in Tasks, EnterRefresh(u) \/ ParkAgain(u)
      PROVE  Positions'
  BY <1>11
  DEF IInv, Controls, Positions, Ended, Tasks, EnterRefresh, ParkAgain, Goto,
      exchangeVars
<1>12. ASSUME NEW u \in Tasks, RefreshSucceeds(u) \/ RefreshFails(u)
      PROVE  Positions'
  BY <1>12
  DEF IInv, Controls, Positions, Ended, Tasks, RefreshSucceeds, RefreshFails,
      Goto, exchangeVars
<1>13. CASE Environment \/ UNCHANGED vars
  BY <1>13
  DEF IInv, Positions, Environment, MetadataExpires, PriceTick, PriceExpires,
      ConfirmationExpires, ListingChanges, vars, exchangeVars
<1>14. ASSUME NEW t \in Trades, LeverageApplied(t)
      PROVE  Positions'
  BY <1>14
  DEF IInv, Positions, LeverageApplied
<1>. QED
  BY <1>1, <1>2, <1>3, <1>4, <1>5, <1>6, <1>7, <1>8, <1>9, <1>10, <1>11, <1>12,
     <1>13, <1>14
  DEF Next, TradeStep, RefreshStep

\* A refresh ends with nobody inside: the gate admits no call beside it.
LEMMA SnapshotStep == IInv /\ [Next]_vars => SnapshotStable'
<1>. SUFFICES ASSUME IInv, [Next]_vars PROVE SnapshotStable'
  OBVIOUS
<1>1. CASE LoopTimeout \/ Stop
  BY <1>1
  DEF IInv, Controls, SnapshotStable, Inside, Tasks, LoopTimeout, Stop,
      RequestRefresh, Goto, metadataVars, orderVars
<1>2. ASSUME NEW t \in Trades, Refuse(t) \/ Call(t)
      PROVE  SnapshotStable'
  BY <1>2
  DEF IInv, Controls, SnapshotStable, Inside, Tasks, Refuse, Call,
      RequestRefresh, Goto, metadataVars, orderVars
<1>3. ASSUME NEW t \in Trades, Access(t) \/ ResumeAccess(t)
      PROVE  SnapshotStable'
  BY <1>3
  DEF IInv, Controls, SnapshotStable, Inside, Tasks, Access, ResumeAccess, Goto,
      metadataVars, orderVars
<1>4. ASSUME NEW t \in Trades, Prepare(t)
      PROVE  SnapshotStable'
  BY <1>4
  DEF IInv, Controls, Values, SnapshotStable, Inside, Tasks, Prepare, Finish,
      Goto, metadataVars, orderVars
<1>5. ASSUME NEW t \in Trades, Confirm(t)
      PROVE  SnapshotStable'
  BY <1>5
  DEF IInv, Controls, SnapshotStable, Inside, Tasks, Confirm, Goto,
      metadataVars, orderVars
<1>6. ASSUME NEW t \in Trades, ResumeLock(t)
      PROVE  SnapshotStable'
  BY <1>6
  DEF IInv, Controls, SnapshotStable, Inside, Tasks, ResumeLock, Goto,
      metadataVars, orderVars
<1>7. ASSUME NEW t \in Trades, LeverageAccepted(t)
      PROVE  SnapshotStable'
  BY <1>7
  DEF IInv, SnapshotStable, Inside, LeverageAccepted, Goto, metadataVars,
      orderVars
<1>8. ASSUME NEW t \in Trades, LeverageFails(t)
      PROVE  SnapshotStable'
  BY <1>8
  DEF IInv, SnapshotStable, Inside, LeverageFails, Finish, Goto, metadataVars,
      orderVars
<1>9. ASSUME NEW t \in Trades, EntryAnswered(t) \/ EntryFails(t)
      PROVE  SnapshotStable'
  BY <1>9
  DEF IInv, Controls, SnapshotStable, Inside, Tasks, EntryAnswered, EntryFails,
      Finish, Goto, metadataVars, orderVars
<1>10. ASSUME NEW t \in Trades, StopAccepted(t) \/ StopFails(t)
      PROVE  SnapshotStable'
  BY <1>10
  DEF IInv, Controls, SnapshotStable, Inside, Tasks, StopAccepted, StopFails,
      Finish, Goto, metadataVars, orderVars
<1>11. ASSUME NEW u \in Tasks, EnterRefresh(u) \/ ParkAgain(u)
      PROVE  SnapshotStable'
  BY <1>11
  DEF IInv, Controls, SnapshotStable, Inside, Tasks, EnterRefresh, ParkAgain,
      Goto, metadataVars, orderVars
<1>12. ASSUME NEW u \in Tasks, RefreshSucceeds(u) \/ RefreshFails(u)
      PROVE  SnapshotStable'
  BY <1>12
  DEF IInv, Controls, Admitted, SnapshotStable, Inside, Tasks, GateHeld,
      Gate!MaintExit, Gate!Exclusion, Gate!In, RefreshSucceeds, RefreshFails,
      Goto
<1>13. CASE Environment \/ UNCHANGED vars
  BY <1>13
  DEF IInv, SnapshotStable, Inside, Environment, MetadataExpires, PriceTick,
      PriceExpires, ConfirmationExpires, ListingChanges, vars, metadataVars,
      orderVars
<1>14. ASSUME NEW t \in Trades, LeverageApplied(t)
      PROVE  SnapshotStable'
  BY <1>14
  DEF IInv, SnapshotStable, Inside, LeverageApplied, metadataVars,
      orderVars
<1>. QED
  BY <1>1, <1>2, <1>3, <1>4, <1>5, <1>6, <1>7, <1>8, <1>9, <1>10, <1>11, <1>12,
     <1>13, <1>14
  DEF Next, TradeStep, RefreshStep

\* The answer to a request under way stays in force until the call takes it: no
\* other call of the symbol can ask meanwhile.
LEMMA AnsweredStep == IInv /\ [Next]_vars => Answered'
<1>. SUFFICES ASSUME IInv, [Next]_vars PROVE Answered'
  OBVIOUS
<1>1. CASE LoopTimeout \/ Stop
  BY <1>1
  DEF IInv, Controls, Answered, Tasks, LoopTimeout, Stop, RequestRefresh, Goto,
      exchangeVars
<1>2. ASSUME NEW t \in Trades, Refuse(t) \/ Call(t)
      PROVE  Answered'
  BY <1>2
  DEF IInv, Controls, Answered, Tasks, Refuse, Call, RequestRefresh, Goto,
      exchangeVars
<1>3. ASSUME NEW t \in Trades, Access(t) \/ ResumeAccess(t)
      PROVE  Answered'
  BY <1>3
  DEF IInv, Controls, Answered, Tasks, Access, ResumeAccess, Goto, exchangeVars
<1>4. ASSUME NEW t \in Trades, Prepare(t)
      PROVE  Answered'
  BY <1>4
  DEF IInv, Controls, Answered, Tasks, Prepare, Finish, Goto, exchangeVars
<1>5. ASSUME NEW t \in Trades, Confirm(t)
      PROVE  Answered'
  BY <1>5 DEF IInv, Controls, Answered, Tasks, Confirm, Goto, exchangeVars
<1>6. ASSUME NEW t \in Trades, ResumeLock(t)
      PROVE  Answered'
  BY <1>6 DEF IInv, Controls, Answered, Tasks, ResumeLock, Goto, exchangeVars
<1>7. ASSUME NEW t \in Trades, LeverageAccepted(t)
      PROVE  Answered'
  <2>1. answer \in [Trades -> Leverages \cup {Absent}]
    BY DEF IInv, Values
  <2>. QED
    BY <1>7, <2>1 DEF IInv, Controls, Answered, Tasks, LeverageAccepted, Goto
<1>8. ASSUME NEW t \in Trades, LeverageFails(t)
      PROVE  Answered'
  <2>1. answer \in [Trades -> Leverages \cup {Absent}]
    BY DEF IInv, Values
  <2>. QED
    BY <1>8, <2>1
    DEF IInv, Controls, Answered, Tasks, LeverageFails, Finish, Goto
<1>9. ASSUME NEW t \in Trades, EntryAnswered(t) \/ EntryFails(t)
      PROVE  Answered'
  BY <1>9
  DEF IInv, Controls, Answered, Tasks, EntryAnswered, EntryFails, Finish, Goto
<1>10. ASSUME NEW t \in Trades, StopAccepted(t) \/ StopFails(t)
      PROVE  Answered'
  BY <1>10
  DEF IInv, Controls, Answered, Tasks, StopAccepted, StopFails, Finish, Goto
<1>11. ASSUME NEW u \in Tasks, EnterRefresh(u) \/ ParkAgain(u)
      PROVE  Answered'
  BY <1>11
  DEF IInv, Controls, Answered, Tasks, EnterRefresh, ParkAgain, Goto,
      exchangeVars
<1>12. ASSUME NEW u \in Tasks, RefreshSucceeds(u) \/ RefreshFails(u)
      PROVE  Answered'
  BY <1>12
  DEF IInv, Controls, Answered, Tasks, RefreshSucceeds, RefreshFails, Goto,
      exchangeVars
<1>13. CASE Environment \/ UNCHANGED vars
  BY <1>13
  DEF IInv, Controls, Answered, Tasks, Environment, MetadataExpires, PriceTick,
      PriceExpires, ConfirmationExpires, ListingChanges, vars, exchangeVars
<1>14. ASSUME NEW t \in Trades, LeverageApplied(t)
      PROVE  Answered'
  <2>1. /\ answer \in [Trades -> Leverages \cup {Absent}]
        /\ account \in [Symbols -> Leverages] /\ SymbolOf[t] \in Symbols
    BY WorkflowAssumption DEF IInv, Values
  <2>2. PICK applied \in Leverages :
            /\ account' = [account EXCEPT ![SymbolOf[t]] = applied]
            /\ answer' = [answer EXCEPT ![t] = applied]
    BY <1>14 DEF LeverageApplied
  <2>3. pc[t] = "setting" /\ UNCHANGED pc
    BY <1>14 DEF LeverageApplied
  <2>4. ASSUME NEW u \in Trades, u # t, answer'[u] # Absent
        PROVE  pc'[u] = "setting" /\ account'[SymbolOf[u]] = answer'[u]
    <3>1. /\ answer'[u] = answer[u] /\ pc[u] = "setting"
          /\ account[SymbolOf[u]] = answer[u]
      BY <2>1, <2>2, <2>4 DEF IInv, Answered
    <3>2. SymbolOf[u] # SymbolOf[t]
      BY <2>3, <2>4, <3>1 DEF IInv, Locks
    <3>. QED
      BY <2>1, <2>2, <2>3, <3>1, <3>2
  <2>5. answer'[t] = applied /\ account'[SymbolOf[t]] = applied
    BY <2>1, <2>2
  <2>. QED
    BY <2>3, <2>4, <2>5 DEF Answered
<1>. QED
  BY <1>1, <1>2, <1>3, <1>4, <1>5, <1>6, <1>7, <1>8, <1>9, <1>10, <1>11, <1>12,
     <1>13, <1>14
  DEF Next, TradeStep, RefreshStep

\* A change of the account is uncertain until its answer is recorded, and the
\* answer recorded is the one in force.
LEMMA ConfirmedStep == IInv /\ [Next]_vars => ConfirmedInForce'
<1>. SUFFICES ASSUME IInv, [Next]_vars PROVE ConfirmedInForce'
  OBVIOUS
<1>1. CASE LoopTimeout \/ Stop
  BY <1>1
  DEF IInv, ConfirmedInForce, LoopTimeout, Stop, RequestRefresh, leverageVars,
      exchangeVars, historyVars
<1>2. ASSUME NEW t \in Trades, Refuse(t) \/ Call(t)
      PROVE  ConfirmedInForce'
  BY <1>2
  DEF IInv, ConfirmedInForce, Refuse, Call, RequestRefresh, leverageVars,
      exchangeVars, historyVars
<1>3. ASSUME NEW t \in Trades, Access(t) \/ ResumeAccess(t)
      PROVE  ConfirmedInForce'
  BY <1>3
  DEF IInv, ConfirmedInForce, Access, ResumeAccess, leverageVars, exchangeVars,
      historyVars
<1>4. ASSUME NEW t \in Trades, Prepare(t)
      PROVE  ConfirmedInForce'
  BY <1>4
  DEF IInv, ConfirmedInForce, Prepare, leverageVars, exchangeVars, historyVars
<1>5. ASSUME NEW t \in Trades, Confirm(t)
      PROVE  ConfirmedInForce'
  BY <1>5 DEF IInv, ConfirmedInForce, Confirm, exchangeVars, historyVars
<1>6. ASSUME NEW t \in Trades, ResumeLock(t)
      PROVE  ConfirmedInForce'
  BY <1>6 DEF IInv, ConfirmedInForce, ResumeLock, exchangeVars, historyVars
<1>7. ASSUME NEW t \in Trades, LeverageAccepted(t)
      PROVE  ConfirmedInForce'
  BY <1>7
  DEF IInv, Values, Answered, Sized, Inside, ConfirmedInForce,
      LeverageAccepted, RecordConfirmation
<1>8. ASSUME NEW t \in Trades, LeverageFails(t)
      PROVE  ConfirmedInForce'
  BY <1>8 DEF IInv, ConfirmedInForce, LeverageFails, historyVars
<1>9. ASSUME NEW t \in Trades, EntryAnswered(t) \/ EntryFails(t)
      PROVE  ConfirmedInForce'
  BY <1>9
  DEF IInv, Values, ConfirmedInForce, EntryAnswered, EntryFails, Invalidate,
      leverageVars, historyVars
<1>10. ASSUME NEW t \in Trades, StopAccepted(t) \/ StopFails(t)
      PROVE  ConfirmedInForce'
  BY <1>10
  DEF IInv, ConfirmedInForce, StopAccepted, StopFails, leverageVars, historyVars
<1>11. ASSUME NEW u \in Tasks, EnterRefresh(u) \/ ParkAgain(u)
      PROVE  ConfirmedInForce'
  BY <1>11
  DEF IInv, ConfirmedInForce, EnterRefresh, ParkAgain, leverageVars,
      exchangeVars, historyVars
<1>12. ASSUME NEW u \in Tasks, RefreshSucceeds(u) \/ RefreshFails(u)
      PROVE  ConfirmedInForce'
  BY <1>12
  DEF IInv, ConfirmedInForce, RefreshSucceeds, RefreshFails, leverageVars,
      exchangeVars, historyVars
<1>13. CASE Environment \/ UNCHANGED vars
  BY <1>13
  DEF IInv, ConfirmedInForce, Environment, MetadataExpires, PriceTick,
      PriceExpires, ConfirmationExpires, ListingChanges, vars, leverageVars,
      exchangeVars, historyVars
<1>14. ASSUME NEW t \in Trades, LeverageApplied(t)
      PROVE  ConfirmedInForce'
  BY <1>14, WorkflowAssumption
  DEF IInv, Values, ConfirmedInForce, LeverageApplied, leverageVars
<1>. QED
  BY <1>1, <1>2, <1>3, <1>4, <1>5, <1>6, <1>7, <1>8, <1>9, <1>10, <1>11, <1>12,
     <1>13, <1>14
  DEF Next, TradeStep, RefreshStep

\* A call reaches its entry with its leverage confirmed or just accepted; another
\* call that changes the account was sized with the same metadata.
LEMMA EntryStep == IInv /\ [Next]_vars => EntryLeverageInForce'
<1>. SUFFICES ASSUME IInv, [Next]_vars PROVE EntryLeverageInForce'
  OBVIOUS
<1>1. CASE LoopTimeout \/ Stop
  BY <1>1
  DEF IInv, Controls, EntryLeverageInForce, Tasks, LoopTimeout, Stop,
      RequestRefresh, Goto, orderVars, exchangeVars, historyVars
<1>2. ASSUME NEW t \in Trades, Refuse(t) \/ Call(t)
      PROVE  EntryLeverageInForce'
  BY <1>2
  DEF IInv, Controls, EntryLeverageInForce, Tasks, Refuse, Call, RequestRefresh,
      Goto, orderVars, exchangeVars, historyVars
<1>3. ASSUME NEW t \in Trades, Access(t) \/ ResumeAccess(t)
      PROVE  EntryLeverageInForce'
  BY <1>3
  DEF IInv, Controls, EntryLeverageInForce, Tasks, Access, ResumeAccess, Goto,
      orderVars, exchangeVars, historyVars
<1>4. ASSUME NEW t \in Trades, Prepare(t)
      PROVE  EntryLeverageInForce'
  BY <1>4
  DEF IInv, Controls, Values, EntryLeverageInForce, Tasks, Prepare, Finish,
      Goto, orderVars, exchangeVars, historyVars
<1>5. ASSUME NEW t \in Trades, Confirm(t)
      PROVE  EntryLeverageInForce'
  BY <1>5, WorkflowAssumption
  DEF IInv, Controls, ConfirmedInForce, EntryLeverageInForce, Sized, Inside,
      Tasks, Confirm, ConfirmationHolds, Goto, orderVars, exchangeVars,
      historyVars
<1>6. ASSUME NEW t \in Trades, ResumeLock(t)
      PROVE  EntryLeverageInForce'
  BY <1>6, WorkflowAssumption
  DEF IInv, Controls, ConfirmedInForce, EntryLeverageInForce, Sized, Inside,
      Tasks, ResumeLock, ConfirmationHolds, Goto, orderVars, exchangeVars,
      historyVars
<1>7. ASSUME NEW t \in Trades, LeverageAccepted(t)
      PROVE  EntryLeverageInForce'
  <2>1. order[t] \in Leverages /\ answer[t] = order[t] /\ order[t] # Absent
    BY <1>7, WorkflowAssumption DEF IInv, Sized, Inside, LeverageAccepted
  <2>2. account[SymbolOf[t]] = order[t]
    BY <2>1 DEF IInv, Answered
  <2>3. order[t] = snapshot[SymbolOf[t]]
    BY <1>7 DEF IInv, SnapshotStable, Inside, LeverageAccepted
  <2>4. \A u \in Trades : pc[u] = "entry" => snapshot[SymbolOf[u]] = order[u]
    BY DEF IInv, SnapshotStable, Inside
  <2>5. /\ UNCHANGED <<account, order>>
        /\ \A u \in Trades : pc'[u] = "entry" => u = t \/ pc[u] = "entry"
        /\ \A s \in Symbols \ {SymbolOf[t]} : uncertain'[s] = uncertain[s]
    BY <1>7
    DEF IInv, Controls, Values, Tasks, LeverageAccepted, Goto, orderVars
  <2>. QED
    BY <2>2, <2>3, <2>4, <2>5, WorkflowAssumption DEF IInv, EntryLeverageInForce
<1>8. ASSUME NEW t \in Trades, LeverageFails(t)
      PROVE  EntryLeverageInForce'
  BY <1>8, WorkflowAssumption
  DEF IInv, Controls, Values, EntryLeverageInForce, Tasks, LeverageFails,
      Finish, Goto, orderVars, historyVars
<1>9. ASSUME NEW t \in Trades, EntryAnswered(t) \/ EntryFails(t)
      PROVE  EntryLeverageInForce'
  BY <1>9
  DEF IInv, Controls, EntryLeverageInForce, Tasks, EntryAnswered, EntryFails,
      Finish, Goto, orderVars, historyVars
<1>10. ASSUME NEW t \in Trades, StopAccepted(t) \/ StopFails(t)
      PROVE  EntryLeverageInForce'
  BY <1>10
  DEF IInv, Controls, EntryLeverageInForce, Tasks, StopAccepted, StopFails,
      Finish, Goto, orderVars, historyVars
<1>11. ASSUME NEW u \in Tasks, EnterRefresh(u) \/ ParkAgain(u)
      PROVE  EntryLeverageInForce'
  BY <1>11
  DEF IInv, Controls, EntryLeverageInForce, Tasks, EnterRefresh, ParkAgain,
      Goto, orderVars, exchangeVars, historyVars
<1>12. ASSUME NEW u \in Tasks, RefreshSucceeds(u) \/ RefreshFails(u)
      PROVE  EntryLeverageInForce'
  BY <1>12
  DEF IInv, Controls, EntryLeverageInForce, Tasks, RefreshSucceeds,
      RefreshFails, Goto, orderVars, exchangeVars, historyVars
<1>13. CASE Environment \/ UNCHANGED vars
  BY <1>13
  DEF IInv, EntryLeverageInForce, Environment, MetadataExpires, PriceTick,
      PriceExpires, ConfirmationExpires, ListingChanges, vars, orderVars,
      exchangeVars, historyVars
<1>14. ASSUME NEW t \in Trades, LeverageApplied(t)
      PROVE  EntryLeverageInForce'
  BY <1>14, WorkflowAssumption
  DEF IInv, Values, EntryLeverageInForce, LeverageApplied, orderVars
<1>. QED
  BY <1>1, <1>2, <1>3, <1>4, <1>5, <1>6, <1>7, <1>8, <1>9, <1>10, <1>11, <1>12,
     <1>13, <1>14
  DEF Next, TradeStep, RefreshStep

\* A step by which no call skips the leverage request while it is needed.
Unsuspected == \A t \in Trades : SkipsRequest(t) => ~suspect[SymbolOf[t]]

\* A skipped request compares the leverage of a sized order with what is confirmed.
LEMMA SkipStep == IInv /\ [Next]_vars => Unsuspected
<1>. SUFFICES ASSUME IInv, [Next]_vars PROVE Unsuspected
  OBVIOUS
<1>1. CASE LoopTimeout \/ Stop
  BY <1>1
  DEF IInv, Controls, Tasks, Unsuspected, SkipsRequest, LoopTimeout, Stop,
      RequestRefresh, Goto
<1>2. ASSUME NEW t \in Trades, Refuse(t) \/ Call(t)
      PROVE  Unsuspected
  BY <1>2
  DEF IInv, Controls, Tasks, Unsuspected, SkipsRequest, Refuse, Call,
      RequestRefresh, Goto
<1>3. ASSUME NEW t \in Trades, Access(t) \/ ResumeAccess(t)
      PROVE  Unsuspected
  BY <1>3
  DEF IInv, Controls, Tasks, Unsuspected, SkipsRequest, Access, ResumeAccess,
      Goto
<1>4. ASSUME NEW t \in Trades, Prepare(t)
      PROVE  Unsuspected
  BY <1>4
  DEF IInv, Controls, Tasks, Unsuspected, SkipsRequest, Prepare, Finish, Goto
<1>5. ASSUME NEW t \in Trades, Confirm(t)
      PROVE  Unsuspected
  BY <1>5, WorkflowAssumption
  DEF IInv, Controls, Suspected, Sized, Inside, Tasks, Unsuspected,
      SkipsRequest, Confirm, ConfirmationHolds, Goto
<1>6. ASSUME NEW t \in Trades, ResumeLock(t)
      PROVE  Unsuspected
  BY <1>6, WorkflowAssumption
  DEF IInv, Controls, Suspected, Sized, Inside, Tasks, Unsuspected,
      SkipsRequest, ResumeLock, ConfirmationHolds, Goto
<1>7. ASSUME NEW t \in Trades, LeverageAccepted(t)
      PROVE  Unsuspected
  BY <1>7 DEF IInv, Unsuspected, SkipsRequest, LeverageAccepted, Goto
<1>8. ASSUME NEW t \in Trades, LeverageFails(t)
      PROVE  Unsuspected
  BY <1>8 DEF IInv, Unsuspected, SkipsRequest, LeverageFails, Finish, Goto
<1>9. ASSUME NEW t \in Trades, EntryAnswered(t) \/ EntryFails(t)
      PROVE  Unsuspected
  BY <1>9
  DEF IInv, Controls, Tasks, Unsuspected, SkipsRequest, EntryAnswered,
      EntryFails, Finish, Goto
<1>10. ASSUME NEW t \in Trades, StopAccepted(t) \/ StopFails(t)
      PROVE  Unsuspected
  BY <1>10
  DEF IInv, Controls, Tasks, Unsuspected, SkipsRequest, StopAccepted, StopFails,
      Finish, Goto
<1>11. ASSUME NEW u \in Tasks, EnterRefresh(u) \/ ParkAgain(u)
      PROVE  Unsuspected
  BY <1>11
  DEF IInv, Controls, Tasks, Unsuspected, SkipsRequest, EnterRefresh, ParkAgain,
      Goto
<1>12. ASSUME NEW u \in Tasks, RefreshSucceeds(u) \/ RefreshFails(u)
      PROVE  Unsuspected
  BY <1>12
  DEF IInv, Controls, Tasks, Unsuspected, SkipsRequest, RefreshSucceeds,
      RefreshFails, Goto
<1>13. CASE Environment \/ UNCHANGED vars
  BY <1>13
  DEF IInv, Unsuspected, SkipsRequest, Environment, MetadataExpires, PriceTick,
      PriceExpires, ConfirmationExpires, ListingChanges, vars
<1>14. ASSUME NEW t \in Trades, LeverageApplied(t)
      PROVE  Unsuspected
  BY <1>14
  DEF Unsuspected, SkipsRequest, LeverageApplied
<1>. QED
  BY <1>1, <1>2, <1>3, <1>4, <1>5, <1>6, <1>7, <1>8, <1>9, <1>10, <1>11, <1>12,
     <1>13, <1>14
  DEF Next, TradeStep, RefreshStep

\* A step of the promise, or none.
Promised == [Promise!Next]_Promise!vars

\* What one call does between two places is a step of its promise.
LEMMA PromiseMove ==
    ASSUME NEW t \in Trades, pc[t] \notin Ended,
           \A u \in Trades \ {t} : pc'[u] = pc[u],
           \/ pc'[t] # "done" /\ UNCHANGED position
           \/ /\ pc'[t] # "done" /\ position[t] = "none"
              /\ position' = [position EXCEPT ![t] = "open"]
           \/ /\ pc'[t] \in Ended /\ position[t] = "open"
              /\ position' = [position EXCEPT ![t] = "protected"]
    PROVE  Promised
<1>. DEFINE Status(place) == CASE place = "done"   -> "result"
                               [] place = "failed" -> "exception"
                               [] OTHER            -> "active"
            status == [u \in Trades |-> Status(pc[u])]
            status2 == [u \in Trades |-> Status(pc'[u])]
<1>1. /\ status[t] = "active" /\ status2[t] = Status(pc'[t])
      /\ status2 = [status EXCEPT ![t] = Status(pc'[t])]
  <2>1. status[t] = "active" /\ status2[t] = Status(pc'[t])
    BY DEF Ended
  <2>2. \A u \in Trades : status2[u] = [status EXCEPT ![t] = Status(pc'[t])][u]
    OBVIOUS
  <2>3. /\ DOMAIN [status EXCEPT ![t] = Status(pc'[t])] = Trades
        /\ DOMAIN status2 = Trades
    OBVIOUS
  <2>. QED
    BY <2>1, <2>2, <2>3
<1>2. CASE pc'[t] \notin Ended
  <2>1. Status(pc'[t]) = "active" /\ status2 = status
    BY <1>1, <1>2 DEF Ended
  <2>. QED
    BY <1>1, <1>2, <2>1
    DEF Ended, Promised, Promise!vars, Promise!Next, Promise!Open, Promise!EndIn
<1>3. CASE pc'[t] = "failed"
  BY <1>1, <1>3
  DEF Ended, Promised, Promise!Next, Promise!Open, Promise!Protect,
      Promise!Fail, Promise!EndIn
<1>4. CASE pc'[t] = "done"
  BY <1>1, <1>4
  DEF Ended, Promised, Promise!Next, Promise!Protect, Promise!EndIn
<1>. QED
  BY <1>2, <1>3, <1>4 DEF Ended

\* Each step of the workflow is a step of the promise of one call, or none.
LEMMA PromiseStep == IInv /\ [Next]_vars => Promised
<1>. SUFFICES ASSUME IInv, [Next]_vars PROVE Promised
  OBVIOUS
<1>1. CASE LoopTimeout \/ Stop
  BY <1>1
  DEF IInv, Controls, Tasks, Promised, Promise!vars, LoopTimeout, Stop,
      RequestRefresh, Goto, exchangeVars
<1>2. ASSUME NEW t \in Trades, Refuse(t) \/ Call(t)
      PROVE  Promised
  <2>1. /\ pc[t] \notin Ended
        /\ \A u \in Trades \ {t} : pc'[u] = pc[u]
    BY <1>2 DEF IInv, Controls, Ended, Tasks, Refuse, Call, RequestRefresh, Goto
  <2>2. \/ pc'[t] # "done" /\ UNCHANGED position
        \/ /\ pc'[t] # "done" /\ position[t] = "none"
           /\ position' = [position EXCEPT ![t] = "open"]
        \/ /\ pc'[t] \in Ended /\ position[t] = "open"
           /\ position' = [position EXCEPT ![t] = "protected"]
    BY <1>2 DEF IInv, Controls, Refuse, Call, RequestRefresh, Goto, exchangeVars
  <2>. QED
    BY <2>1, <2>2, PromiseMove
<1>3. ASSUME NEW t \in Trades, Access(t) \/ ResumeAccess(t)
      PROVE  Promised
  BY <1>3
  DEF IInv, Controls, Tasks, Promised, Promise!vars, Access, ResumeAccess, Goto,
      exchangeVars
<1>4. ASSUME NEW t \in Trades, Prepare(t)
      PROVE  Promised
  <2>1. /\ pc[t] \notin Ended
        /\ \A u \in Trades \ {t} : pc'[u] = pc[u]
    BY <1>4 DEF IInv, Controls, Ended, Tasks, Prepare, Finish, Goto
  <2>2. \/ pc'[t] # "done" /\ UNCHANGED position
        \/ /\ pc'[t] # "done" /\ position[t] = "none"
           /\ position' = [position EXCEPT ![t] = "open"]
        \/ /\ pc'[t] \in Ended /\ position[t] = "open"
           /\ position' = [position EXCEPT ![t] = "protected"]
    BY <1>4 DEF IInv, Controls, Prepare, Finish, Goto, exchangeVars
  <2>. QED
    BY <2>1, <2>2, PromiseMove
<1>5. ASSUME NEW t \in Trades, Confirm(t)
      PROVE  Promised
  BY <1>5
  DEF IInv, Controls, Tasks, Promised, Promise!vars, Confirm, Goto, exchangeVars
<1>6. ASSUME NEW t \in Trades, ResumeLock(t)
      PROVE  Promised
  BY <1>6
  DEF IInv, Controls, Tasks, Promised, Promise!vars, ResumeLock, Goto,
      exchangeVars
<1>7. ASSUME NEW t \in Trades, LeverageAccepted(t)
      PROVE  Promised
  BY <1>7 DEF IInv, Promised, Promise!vars, LeverageAccepted, Goto
<1>8. ASSUME NEW t \in Trades, LeverageFails(t)
      PROVE  Promised
  <2>1. /\ pc[t] \notin Ended
        /\ \A u \in Trades \ {t} : pc'[u] = pc[u]
    BY <1>8 DEF IInv, Ended, LeverageFails, Finish, Goto
  <2>2. \/ pc'[t] # "done" /\ UNCHANGED position
        \/ /\ pc'[t] # "done" /\ position[t] = "none"
           /\ position' = [position EXCEPT ![t] = "open"]
        \/ /\ pc'[t] \in Ended /\ position[t] = "open"
           /\ position' = [position EXCEPT ![t] = "protected"]
    BY <1>8 DEF IInv, LeverageFails, Finish, Goto
  <2>. QED
    BY <2>1, <2>2, PromiseMove
<1>9. ASSUME NEW t \in Trades, EntryAnswered(t) \/ EntryFails(t)
      PROVE  Promised
  <2>1. /\ pc[t] \notin Ended
        /\ \A u \in Trades \ {t} : pc'[u] = pc[u]
    BY <1>9
    DEF IInv, Controls, Ended, Tasks, EntryAnswered, EntryFails, Finish, Goto
  <2>2. \/ pc'[t] # "done" /\ UNCHANGED position
        \/ /\ pc'[t] # "done" /\ position[t] = "none"
           /\ position' = [position EXCEPT ![t] = "open"]
        \/ /\ pc'[t] \in Ended /\ position[t] = "open"
           /\ position' = [position EXCEPT ![t] = "protected"]
    BY <1>9
    DEF IInv, Controls, Positions, Ended, EntryAnswered, EntryFails, Finish,
        Goto
  <2>. QED
    BY <2>1, <2>2, PromiseMove
<1>10. ASSUME NEW t \in Trades, StopAccepted(t) \/ StopFails(t)
      PROVE  Promised
  <2>1. /\ pc[t] \notin Ended
        /\ \A u \in Trades \ {t} : pc'[u] = pc[u]
    BY <1>10
    DEF IInv, Controls, Ended, Tasks, StopAccepted, StopFails, Finish, Goto
  <2>2. \/ pc'[t] # "done" /\ UNCHANGED position
        \/ /\ pc'[t] # "done" /\ position[t] = "none"
           /\ position' = [position EXCEPT ![t] = "open"]
        \/ /\ pc'[t] \in Ended /\ position[t] = "open"
           /\ position' = [position EXCEPT ![t] = "protected"]
    BY <1>10
    DEF IInv, Controls, Positions, Ended, Tasks, StopAccepted, StopFails,
        Finish, Goto
  <2>. QED
    BY <2>1, <2>2, PromiseMove
<1>11. ASSUME NEW u \in Tasks, EnterRefresh(u) \/ ParkAgain(u)
      PROVE  Promised
  BY <1>11
  DEF IInv, Controls, Tasks, Promised, Promise!vars, EnterRefresh, ParkAgain,
      Goto, exchangeVars
<1>12. ASSUME NEW u \in Tasks, RefreshSucceeds(u) \/ RefreshFails(u)
      PROVE  Promised
  <2>1. CASE u = Loop
    BY <1>12, <2>1
    DEF IInv, Controls, Tasks, Promised, Promise!vars, RefreshSucceeds,
        RefreshFails, Goto, exchangeVars
  <2>2. CASE u # Loop
    <3>1. u \in Trades /\ pc[u] \notin Ended /\ UNCHANGED position
      BY <1>12, <2>2
      DEF Tasks, Ended, RefreshSucceeds, RefreshFails, exchangeVars
    <3>2. pc'[u] # "done" /\ \A v \in Trades \ {u} : pc'[v] = pc[v]
      BY <1>12, <2>2
      DEF IInv, Controls, Tasks, RefreshSucceeds, RefreshFails, Goto
    <3>. QED
      BY <3>1, <3>2, PromiseMove
  <2>. QED
    BY <2>1, <2>2
<1>13. CASE Environment \/ UNCHANGED vars
  BY <1>13
  DEF IInv, Promised, Promise!vars, Environment, MetadataExpires, PriceTick,
      PriceExpires, ConfirmationExpires, ListingChanges, vars, exchangeVars
<1>14. ASSUME NEW t \in Trades, LeverageApplied(t)
      PROVE  Promised
  BY <1>14
  DEF Promised, Promise!vars, LeverageApplied
<1>. QED
  BY <1>1, <1>2, <1>3, <1>4, <1>5, <1>6, <1>7, <1>8, <1>9, <1>10, <1>11, <1>12,
     <1>13, <1>14
  DEF Next, TradeStep, RefreshStep

-----------------------------------------------------------------------------
(* The theorems *)

LEMMA InitInv == Init => IInv
<1>. SUFFICES ASSUME Init PROVE IInv
  OBVIOUS
<1>. USE WorkflowAssumption DEF Init, Tasks, Ended, Inside
<1>1. GateHeld
  <2>1. /\ \A place : Gate!In(place) = IF place = "out" THEN Tasks ELSE {}
        /\ active_trades = 0 /\ waiting_trades = 0 /\ maintenance_active = FALSE
        /\ notified = {} /\ at \in [Tasks -> Gate!Places]
    BY DEF Gate!Init, Gate!In, Gate!Places
  <2>2. Gate!Cardinality({}) = 0
    BY SameCardinality, FS_EmptySet
  <2>. QED
    BY <2>1, <2>2 DEF GateHeld, Gate!TypeOK, Gate!CountersExact, Gate!Exclusion
<1>2. Controls
  BY DEF Controls
<1>3. Values
  BY DEF Values, Listing
<1>4. Locks /\ Answered
  BY DEF Locks, Answered
<1>5. Admitted /\ Sized /\ SnapshotStable
  BY DEF Admitted, Sized, SnapshotStable
<1>6. Suspected /\ Positions /\ ConfirmedInForce /\ EntryLeverageInForce
  BY DEF Suspected, Positions, ConfirmedInForce, EntryLeverageInForce
<1>. QED
  BY <1>1, <1>2, <1>3, <1>4, <1>5, <1>6 DEF IInv

\* The invariant that carries the rest holds of every behaviour of
\* place_market_order, the maintenance loop and their environment.
THEOREM Invariance == Spec => []IInv
<1>1. IInv /\ [Next]_vars => IInv'
  BY GateHeldStep, ControlsStep, ValuesStep, LocksStep, AnsweredStep, AdmittedStep, SizedStep,
     SuspectedStep, PositionsStep, SnapshotStep, ConfirmedStep, EntryStep
  DEF IInv
<1>. QED
  BY InitInv, <1>1, PTL DEF Spec

\* Every variable of the controller and of the gate keeps its type, the lines
\* of the leverage locks among them.
THEOREM TypeCorrect == Spec => []TypeOK
<1>1. IInv => TypeOK
  BY DEF IInv, GateHeld, Controls, Values, Locks, TypeOK
<1>. QED
  BY <1>1, Invariance, PTL

\* No refresh replaces the metadata of a symbol between the sizing of an order
\* and the end of its call.
THEOREM SnapshotKept == Spec => []SnapshotStable
<1>1. IInv => SnapshotStable
  BY DEF IInv
<1>. QED
  BY <1>1, Invariance, PTL

\* What is recorded in confirmed_leverage is in force at the exchange, unless
\* the leverage moved and no answer has told the controller: the request that
\* moved it is still under way, or failed afterwards.
THEOREM Confirmed == Spec => []ConfirmedInForce
<1>1. IInv => ConfirmedInForce
  BY DEF IInv
<1>. QED
  BY <1>1, Invariance, PTL

\* With the same proviso an entry under way executes at the leverage it was
\* sized for, however many calls contend for the lock of the symbol.
THEOREM EntryAtItsLeverage == Spec => []EntryLeverageInForce
<1>1. IInv => EntryLeverageInForce
  BY DEF IInv
<1>. QED
  BY <1>1, Invariance, PTL

\* Once an entry failed, _confirm_leverage asks the exchange before the next
\* entry of the symbol: an invalidated symbol has no confirmed leverage, and a
\* sized order has one to compare with it.
THEOREM AsksAfterFailedEntry == Spec => NoSkipAfterFailedEntry
<1>1. IInv /\ [Next]_vars =>
          [\A t \in Trades : SkipsRequest(t) => ~suspect[SymbolOf[t]]]_vars
  BY SkipStep DEF Unsuspected
<1>. QED
  BY <1>1, Invariance, PTL DEF Spec, NoSkipAfterFailedEntry

\* place_market_order keeps its promise: one end, at most one position, a stop
\* only for an open position, a result only with the stop in place.
THEOREM KeepsPromise == Spec => RefinesPromise
<1>1. Init => Promise!Init
  BY WorkflowAssumption DEF Init, Promise!Init, Tasks
<1>2. IInv /\ [Next]_vars => [Promise!Next]_Promise!vars
  BY PromiseStep DEF Promised
<1>. QED
  BY <1>1, <1>2, Invariance, PTL DEF Spec, RefinesPromise, Promise!Spec
=============================================================================
