------------------------------ MODULE OrderSizing ------------------------------
(***************************************************************************)
(* The arithmetic of an order: BinanceController._calculate_order_size and  *)
(* ._calculate_quantity, as _prepare_market_order calls them.               *)
(*                                                                          *)
(* Decimals are scaled to integers.  Money and quantities are numbers of a  *)
(* smallest unit, rates are in thousandths, and 1/leverage > distance is    *)
(* 1000 > leverage * distance.  The quotients the code rounds to 28 digits  *)
(* are exact here: the amounts and steps of an exchange have far fewer.     *)
(***************************************************************************)
EXTENDS Integers, Sequences

CONSTANTS
    Margins,         \* values of ORDER_MARGIN_AMOUNT
    CallbackRates,
    SafetyRates,     \* values of ORDER_LIQUIDATION_SAFETY_RATE
    Prices,
    BracketTables,   \* leverage brackets of a symbol, as Binance returns them
    LotRules         \* the MARKET_LOT_SIZE and MIN_NOTIONAL filters of a symbol

Bracket == [floor : Nat, cap : Nat, leverage : Nat \ {0}, rate : Nat]

Lot == [step : Nat \ {0}, min : Nat, max : Nat, min_notional : Nat]

\* A table starts at zero, has no gaps and no overlaps, and allows less
\* leverage at a higher maintenance rate the larger the notional.
Table(brackets) ==
    /\ brackets[1].floor = 0
    /\ \A i, j \in DOMAIN brackets :
           /\ j = i + 1 => brackets[i].cap = brackets[j].floor
           /\ i < j => /\ brackets[i].cap <= brackets[j].floor
                       /\ brackets[i].leverage >= brackets[j].leverage
                       /\ brackets[i].rate <= brackets[j].rate

ASSUME SizingAssumption ==
    /\ Margins \subseteq Nat \ {0}
    /\ CallbackRates \subseteq Nat
    /\ SafetyRates \subseteq Nat
    /\ Prices \subseteq Nat \ {0}
    /\ BracketTables \subseteq Seq(Bracket) \ {<<>>}
    /\ \A brackets \in BracketTables : Table(brackets)
    /\ LotRules \subseteq Lot
    /\ \A lot \in LotRules : lot.min <= lot.max

VARIABLES
    request,   \* the configured amounts, and what is known of the symbol
    outcome,   \* "pending", "sized", or why the call raised
    leverage,
    quantity

vars == <<request, outcome, leverage, quantity>>

Requests ==
    [margin : Margins, callback : CallbackRates, safety : SafetyRates,
     price : Prices, brackets : BracketTables, lot : LotRules]

Init ==
    /\ request \in Requests
    /\ outcome = "pending"
    /\ leverage = 0
    /\ quantity = 0

-----------------------------------------------------------------------------
(* Faulty variants of definitions below; see README, "Mutants". *)

Covers_CapIncluded(bracket, notional) ==
    bracket.floor <= notional /\ notional <= bracket.cap

RoundToStep_Up(notional, price, step) ==
    ((notional + price * step - 1) \div (price * step)) * step

LeverageRange_FromTwo(brackets) ==
    UNION {2..brackets[i].leverage : i \in DOMAIN brackets}

BelowMinimum_CheckedBeforeClamp(lot, rounded, price) ==
    rounded < lot.min \/ rounded * price < lot.min_notional

-----------------------------------------------------------------------------
(* _calculate_order_size *)

Covers(bracket, notional) ==
    bracket.floor <= notional /\ notional < bracket.cap

\* The first bracket that covers the notional, as next() finds it.
IsApplicable(brackets, notional, i) ==
    /\ i \in DOMAIN brackets
    /\ Covers(brackets[i], notional)
    /\ \A j \in DOMAIN brackets : j < i => ~Covers(brackets[j], notional)

Distance(r, bracket) == r.callback + r.safety + bracket.rate

\* The bracket permits the leverage, and liquidation is further away than the
\* callback, the safety allowance and the maintenance margin together.
SafeIn(bracket, l, r) ==
    /\ l <= bracket.leverage
    /\ l * Distance(r, bracket) < 1000

\* range(1, max(initial_leverage) + 1)
LeverageRange(brackets) ==
    UNION {1..brackets[i].leverage : i \in DOMAIN brackets}

IsCandidate(r, l) ==
    /\ l \in LeverageRange(r.brackets)
    /\ \E i \in DOMAIN r.brackets :
           /\ IsApplicable(r.brackets, r.margin * l, i)
           /\ SafeIn(r.brackets[i], l, r)

Candidates(r) == {l \in LeverageRange(r.brackets) : IsCandidate(r, l)}

IsGreatest(l, S) == l \in S /\ \A m \in S : m <= l

-----------------------------------------------------------------------------
(* _calculate_quantity *)

\* The notional as a quantity, rounded down to a multiple of the step.
RoundToStep(notional, price, step) ==
    (notional \div (price * step)) * step

\* A quantity above the maximum is cut to the maximum.
Clamp(lot, rounded) == IF rounded > lot.max THEN lot.max ELSE rounded

\* The minimum quantity is compared before the cut, the notional after it.
BelowMinimum(lot, rounded, price) ==
    \/ rounded < lot.min
    \/ Clamp(lot, rounded) * price < lot.min_notional

Rounded(l) == RoundToStep(request.margin * l, request.price, request.lot.step)

-----------------------------------------------------------------------------
(* The synchronous part of _prepare_market_order, by its outcome. *)

NoSafeLeverage ==
    /\ outcome = "pending"
    /\ Candidates(request) = {}
    /\ outcome' = "no safe leverage"
    /\ UNCHANGED <<request, leverage, quantity>>

Undersized ==
    /\ outcome = "pending"
    /\ \E l \in Candidates(request) :
           /\ IsGreatest(l, Candidates(request))
           /\ BelowMinimum(request.lot, Rounded(l), request.price)
    /\ outcome' = "undersized"
    /\ UNCHANGED <<request, leverage, quantity>>

Sized ==
    /\ outcome = "pending"
    /\ \E l \in Candidates(request) :
           /\ IsGreatest(l, Candidates(request))
           /\ ~BelowMinimum(request.lot, Rounded(l), request.price)
           /\ leverage' = l
           /\ quantity' = Clamp(request.lot, Rounded(l))
    /\ outcome' = "sized"
    /\ UNCHANGED request

Next == NoSafeLeverage \/ Undersized \/ Sized

Spec == Init /\ [][Next]_vars

-----------------------------------------------------------------------------
TypeOK ==
    /\ request \in Requests
    /\ outcome \in {"pending", "sized", "no safe leverage", "undersized"}
    /\ leverage \in Nat
    /\ quantity \in Nat

\* The margin the position needs never exceeds the configured budget.
MarginWithinBudget ==
    outcome = "sized" =>
        quantity * request.price <= request.margin * leverage

\* The order is safe where it lands: rounding and the cut to the maximum may
\* move the actual notional into another bracket than the one the leverage
\* was chosen in, and that bracket too permits the leverage at a sufficient
\* distance from liquidation.
SafeWhereItLands ==
    outcome = "sized" =>
        \A i \in DOMAIN request.brackets :
            LET bracket == request.brackets[i]
                notional == quantity * request.price
            IN  bracket.floor <= notional /\ notional < bracket.cap
                    => SafeIn(bracket, leverage, request)

\* What is sent is within the minimum and the maximum of the lot and reaches the
\* minimum notional.  It is a multiple of the step unless it was cut: the
\* maximum is sent as it is, also where it is off the step.
PassesFilters ==
    outcome = "sized" =>
        /\ quantity % request.lot.step = 0 \/ quantity = request.lot.max
        /\ request.lot.min <= quantity /\ quantity <= request.lot.max
        /\ request.lot.min_notional <= quantity * request.price

\* Leverage is refused only when the budget itself, unlevered, is too large
\* for the brackets or too close to liquidation: safety is monotone, so no
\* higher leverage could have been safe where leverage 1 is not.
UnleveredDecides ==
    outcome = "no safe leverage" =>
        \A i \in DOMAIN request.brackets :
            LET bracket == request.brackets[i]
            IN  bracket.floor <= request.margin /\ request.margin < bracket.cap
                    => Distance(request, bracket) >= 1000
=============================================================================
