----------------------------- MODULE OrderPromise -----------------------------
(***************************************************************************)
(* What a caller of BinanceController.place_market_order may rely on.       *)
(*                                                                          *)
(* A call ends once, with a result or an exception.  It opens at most one   *)
(* position, it asks for a trailing stop only for a position it opened, and *)
(* it returns a result only when that stop is in place.  An exception       *)
(* promises nothing about the position: the answer of an entry or of a stop *)
(* request may have been lost after the exchange acted on it.  The None a   *)
(* call returns at once when trading is disabled counts as an exception: no *)
(* order came of it.                                                        *)
(***************************************************************************)
CONSTANT Trades

VARIABLES
    status,     \* "active" until the call ends in "result" or "exception"
    position    \* what the call has done on the exchange

vars == <<status, position>>

TypeOK ==
    /\ status \in [Trades -> {"active", "result", "exception"}]
    /\ position \in [Trades -> {"none", "open", "protected"}]

Init ==
    /\ status = [t \in Trades |-> "active"]
    /\ position = [t \in Trades |-> "none"]

EndIn(t, outcomes) ==
    \E outcome \in outcomes : status' = [status EXCEPT ![t] = outcome]

\* The entry is executed; its answer arrives or is lost.
Open(t) ==
    /\ status[t] = "active"
    /\ position[t] = "none"
    /\ position' = [position EXCEPT ![t] = "open"]
    /\ EndIn(t, {"active", "exception"})

\* The stop is accepted; its answer arrives or is lost.
Protect(t) ==
    /\ status[t] = "active"
    /\ position[t] = "open"
    /\ position' = [position EXCEPT ![t] = "protected"]
    /\ EndIn(t, {"result", "exception"})

Fail(t) ==
    /\ status[t] = "active"
    /\ EndIn(t, {"exception"})
    /\ UNCHANGED position

Next == \E t \in Trades : Open(t) \/ Protect(t) \/ Fail(t)

Spec == Init /\ [][Next]_vars
=============================================================================
