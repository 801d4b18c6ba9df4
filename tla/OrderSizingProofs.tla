-------------------------- MODULE OrderSizingProofs --------------------------
(***************************************************************************)
(* Theorems of OrderSizing for every budget, price, rate, lot and bracket   *)
(* table the assumption admits.  The state takes one step, so each property *)
(* is proved from the definitions of the arithmetic; the invariant keeps    *)
(* what the step knew when it chose the leverage and the quantity.          *)
(***************************************************************************)
EXTENDS OrderSizing, TLAPS

\* How a sized order came about.
Chosen ==
    outcome = "sized" =>
        /\ leverage \in Candidates(request)
        /\ ~BelowMinimum(request.lot, Rounded(leverage), request.price)
        /\ quantity = Clamp(request.lot, Rounded(leverage))

Refused == outcome = "no safe leverage" => Candidates(request) = {}

IInv == TypeOK /\ Chosen /\ Refused

-----------------------------------------------------------------------------
\* A number of whole steps leaves no remainder.
LEMMA Multiple ==
    ASSUME NEW q \in Nat, NEW step \in Nat \ {0}
    PROVE  (q * step) % step = 0
<1>. DEFINE m == q * step
            k == m \div step
<1>1. m \in Nat
  OBVIOUS
<1>. HIDE DEF m
<1>2. /\ k \in Nat /\ m % step \in 0..(step - 1)
      /\ m = step * k + (m % step)
  BY <1>1
<1>. HIDE DEF k
<1>3. m % step = step * (q - k)
  <2>1. m = step * q /\ step * (q - k) = step * q - step * k
    BY <1>2 DEF m
  <2>. QED
    BY <1>2, <2>1
<1>4. q - k \in Int /\ m % step \in Int
  BY <1>2
<1>. DEFINE z == q - k
<1>. HIDE DEF z
<1>5. z <= 0
  <2>1. ASSUME z >= 1 PROVE FALSE
    <3>1. step * z >= step
      BY <1>4, <2>1 DEF z
    <3>. QED
      BY <1>2, <1>3, <3>1 DEF z
  <2>. QED
    BY <1>4, <2>1 DEF z
<1>6. z >= 0
  <2>1. ASSUME z <= -1 PROVE FALSE
    <3>1. step * z <= -step
      BY <1>4, <2>1 DEF z
    <3>. QED
      BY <1>2, <1>3, <3>1 DEF z
  <2>. QED
    BY <1>4, <2>1 DEF z
<1>. QED
  BY <1>3, <1>4, <1>5, <1>6 DEF z, m

\* Rounding down gives a multiple of the step that never exceeds the notional.
LEMMA RoundedFits ==
    ASSUME NEW notional \in Nat, NEW price \in Nat \ {0}, NEW step \in Nat \ {0}
    PROVE  /\ RoundToStep(notional, price, step) \in Nat
           /\ RoundToStep(notional, price, step) % step = 0
           /\ RoundToStep(notional, price, step) * price <= notional
<1>. DEFINE d == price * step
            q == notional \div d
<1>1. d \in Nat \ {0}
  OBVIOUS
<1>. HIDE DEF d
<1>2. q \in Nat /\ d * q <= notional
  BY <1>1
<1>. HIDE DEF q
<1>3. (q * step) * price = d * q
  BY <1>1, <1>2 DEF d
<1>4. q * step \in Nat
  BY <1>2
<1>5. (q * step) % step = 0
  BY <1>2, Multiple
<1>. QED
  BY <1>2, <1>3, <1>4, <1>5 DEF RoundToStep, d, q

\* What the types say of the parts of a request.
LEMMA RequestParts ==
    ASSUME TypeOK
    PROVE  /\ request.margin \in Nat \ {0}
           /\ request.price \in Nat \ {0}
           /\ request.callback \in Nat /\ request.safety \in Nat
           /\ request.lot \in Lot /\ request.lot.min <= request.lot.max
           /\ request.brackets \in Seq(Bracket) \ {<<>>}
           /\ Table(request.brackets)
           /\ \A i \in DOMAIN request.brackets :
                  /\ i \in Int
                  /\ request.brackets[i] \in Bracket
                  /\ request.brackets[i].floor \in Nat
                  /\ request.brackets[i].cap \in Nat
                  /\ request.brackets[i].leverage \in Nat \ {0}
                  /\ request.brackets[i].rate \in Nat
<1>1. request.margin \in Margins /\ request.price \in Prices
      /\ request.callback \in CallbackRates /\ request.safety \in SafetyRates
      /\ request.lot \in LotRules /\ request.brackets \in BracketTables
  BY DEF TypeOK, Requests
<1>2. request.brackets \in Seq(Bracket) \ {<<>>} /\ Table(request.brackets)
  BY <1>1, SizingAssumption
<1>3. ASSUME NEW i \in DOMAIN request.brackets
      PROVE  /\ i \in Int
             /\ request.brackets[i] \in Bracket
             /\ request.brackets[i].floor \in Nat
             /\ request.brackets[i].cap \in Nat
             /\ request.brackets[i].leverage \in Nat \ {0}
             /\ request.brackets[i].rate \in Nat
  <2>1. i \in Int /\ request.brackets[i] \in Bracket
    BY <1>2
  <2>. QED
    BY <2>1 DEF Bracket
<1>4. /\ request.margin \in Nat \ {0} /\ request.price \in Nat \ {0}
      /\ request.callback \in Nat /\ request.safety \in Nat
  BY <1>1, SizingAssumption
<1>5. request.lot \in Lot /\ request.lot.min <= request.lot.max
  BY <1>1, SizingAssumption
<1>. QED
  BY <1>2, <1>3, <1>4, <1>5

LEMMA CandidateIsNat ==
    ASSUME TypeOK, NEW l \in Candidates(request)
    PROVE  l \in Nat \ {0}
  BY RequestParts DEF Candidates, LeverageRange, Bracket

LEMMA RoundedIsNat ==
    ASSUME TypeOK, NEW l \in Nat
    PROVE  /\ Rounded(l) \in Nat
           /\ Rounded(l) % request.lot.step = 0
           /\ Rounded(l) * request.price <= request.margin * l
           /\ Clamp(request.lot, Rounded(l)) \in Nat
           /\ Clamp(request.lot, Rounded(l)) <= Rounded(l)
<1>1. request.margin * l \in Nat /\ request.lot.step \in Nat \ {0}
      /\ request.lot.max \in Nat
  BY RequestParts DEF Lot
<1>2. /\ Rounded(l) \in Nat /\ Rounded(l) % request.lot.step = 0
      /\ Rounded(l) * request.price <= request.margin * l
  BY <1>1, RequestParts, RoundedFits DEF Rounded
<1>. QED
  BY <1>1, <1>2 DEF Clamp

-----------------------------------------------------------------------------
LEMMA Invariance == Spec => []IInv
<1>1. Init => IInv
  BY DEF Init, IInv, TypeOK, Chosen, Refused
<1>2. ASSUME IInv, [Next]_vars PROVE IInv'
  <2>1. CASE NoSafeLeverage
    BY <1>2, <2>1 DEF NoSafeLeverage, IInv, TypeOK, Chosen, Refused
  <2>2. CASE Undersized
    BY <1>2, <2>2 DEF Undersized, IInv, TypeOK, Chosen, Refused
  <2>3. CASE Sized
    <3>1. PICK l \in Candidates(request) :
              /\ ~BelowMinimum(request.lot, Rounded(l), request.price)
              /\ leverage' = l
              /\ quantity' = Clamp(request.lot, Rounded(l))
      BY <2>3 DEF Sized
    <3>2. l \in Nat /\ Clamp(request.lot, Rounded(l)) \in Nat
      BY <1>2, CandidateIsNat, RoundedIsNat DEF IInv
    <3>3. request' = request /\ outcome' = "sized"
      BY <2>3 DEF Sized
    <3>4. TypeOK'
      BY <1>2, <3>1, <3>2, <3>3 DEF IInv, TypeOK
    <3>5. Rounded(l)' = Rounded(l)
      BY <3>3 DEF Rounded
    <3>6. Chosen' /\ Refused'
      BY <3>1, <3>3, <3>5 DEF Chosen, Refused, Rounded
    <3>. QED
      BY <3>4, <3>6 DEF IInv
  <2>4. CASE UNCHANGED vars
    BY <1>2, <2>4 DEF vars, IInv, TypeOK, Chosen, Refused, Rounded
  <2>. QED
    BY <1>2, <2>1, <2>2, <2>3, <2>4 DEF Next
<1>. QED
  BY <1>1, <1>2, PTL DEF Spec

-----------------------------------------------------------------------------
\* For every input the initial margin of a sized order is within the budget.
THEOREM BudgetHolds == Spec => []MarginWithinBudget
<1>1. ASSUME IInv PROVE MarginWithinBudget
  <2>. SUFFICES ASSUME outcome = "sized"
                PROVE  quantity * request.price <= request.margin * leverage
    BY DEF MarginWithinBudget
  <2>1. leverage \in Nat /\ request.price \in Nat
    BY <1>1, RequestParts DEF IInv, TypeOK
  <2>2. /\ quantity \in Nat /\ Rounded(leverage) \in Nat
        /\ quantity <= Rounded(leverage)
        /\ Rounded(leverage) * request.price <= request.margin * leverage
    BY <1>1, <2>1, RoundedIsNat DEF IInv, Chosen
  <2>3. request.margin * leverage \in Nat
    BY <1>1, <2>1, RequestParts DEF IInv
  <2>4. quantity * request.price <= Rounded(leverage) * request.price
    BY <2>1, <2>2
  <2>5. quantity * request.price \in Nat /\ Rounded(leverage) * request.price \in Nat
    BY <2>1, <2>2
  <2>. QED
    BY <2>2, <2>3, <2>4, <2>5
<1>. QED
  BY <1>1, Invariance, PTL

\* For every input a sized order is within the limits of its lot, reaches the
\* minimum notional, and is on the step unless it was cut to the maximum.
THEOREM FiltersPass == Spec => []PassesFilters
<1>1. ASSUME IInv PROVE PassesFilters
  <2>. SUFFICES ASSUME outcome = "sized"
                PROVE  /\ \/ quantity % request.lot.step = 0
                          \/ quantity = request.lot.max
                       /\ request.lot.min <= quantity /\ quantity <= request.lot.max
                       /\ request.lot.min_notional <= quantity * request.price
    BY DEF PassesFilters
  <2>1. /\ leverage \in Nat /\ request.price \in Nat
        /\ request.lot \in Lot /\ request.lot.min <= request.lot.max
    BY <1>1, RequestParts DEF IInv, TypeOK
  <2>2. /\ Rounded(leverage) \in Nat /\ quantity \in Nat
        /\ Rounded(leverage) % request.lot.step = 0
    BY <1>1, <2>1, RoundedIsNat DEF IInv, TypeOK
  <2>3. /\ quantity = Clamp(request.lot, Rounded(leverage))
        /\ ~(Rounded(leverage) < request.lot.min)
        /\ ~(quantity * request.price < request.lot.min_notional)
    BY <1>1 DEF IInv, Chosen, BelowMinimum
  <2>4. quantity * request.price \in Nat
    BY <2>1, <2>2
  <2>5. request.lot.min \in Nat /\ request.lot.max \in Nat
        /\ request.lot.min_notional \in Nat
    BY <2>1 DEF Lot
  <2>. QED
    BY <2>1, <2>2, <2>3, <2>4, <2>5 DEF Clamp
<1>. QED
  BY <1>1, Invariance, PTL

\* For every monotone bracket table a sized order is safe in the bracket its
\* actual notional falls in, not only in the one it was chosen in.
THEOREM SafeAfterRounding == Spec => []SafeWhereItLands
<1>1. ASSUME IInv PROVE SafeWhereItLands
  <2>. DEFINE brackets == request.brackets
              actual == quantity * request.price
              target == request.margin * leverage
  <2>. SUFFICES ASSUME outcome = "sized", NEW j \in DOMAIN brackets,
                       brackets[j].floor <= actual, actual < brackets[j].cap
                PROVE  SafeIn(brackets[j], leverage, request)
    BY DEF SafeWhereItLands
  <2>1. leverage \in Candidates(request)
    BY <1>1 DEF IInv, Chosen
  <2>2. PICK i \in DOMAIN brackets :
            IsApplicable(brackets, target, i) /\ SafeIn(brackets[i], leverage, request)
    BY <2>1 DEF Candidates, IsCandidate
  <2>3. /\ brackets \in Seq(Bracket) /\ Table(brackets)
        /\ brackets[i] \in Bracket /\ brackets[j] \in Bracket
        /\ brackets[i].rate \in Nat /\ brackets[j].rate \in Nat
        /\ request.callback \in Nat /\ request.safety \in Nat
    BY <1>1, RequestParts DEF IInv
  <2>4. actual \in Nat /\ target \in Nat /\ leverage \in Nat
    BY <1>1, RequestParts DEF IInv, TypeOK
  <2>5. actual <= target
    <3>1. Rounded(leverage) \in Nat /\ quantity \in Nat /\ request.price \in Nat
          /\ quantity <= Rounded(leverage)
          /\ Rounded(leverage) * request.price <= target
      BY <1>1, <2>4, RoundedIsNat, RequestParts DEF IInv, Chosen, TypeOK
    <3>2. quantity * request.price <= Rounded(leverage) * request.price
      BY <3>1
    <3>3. Rounded(leverage) * request.price \in Nat
      BY <3>1
    <3>. QED
      BY <2>4, <3>1, <3>2, <3>3
  <2>6. target < brackets[i].cap
    BY <2>2 DEF IsApplicable, Covers
  <2>. HIDE DEF actual, target
  \* A bracket above the chosen one starts beyond the target.
  <2>7. i \in Int /\ j \in Int /\ ~(i < j)
    <3>1. i \in Int /\ j \in Int
      BY <2>3
    <3>2. i < j => brackets[i].cap <= brackets[j].floor
      BY <2>3 DEF Table
    <3>. QED
      BY <2>3, <2>4, <2>5, <2>6, <3>1, <3>2 DEF Bracket
  <2>8. /\ brackets[i].leverage <= brackets[j].leverage
        /\ brackets[j].rate <= brackets[i].rate
    <3>1. CASE i = j
      BY <2>3, <3>1 DEF Bracket
    <3>2. CASE j < i
      BY <2>3, <3>2 DEF Table
    <3>. QED
      BY <2>7, <3>1, <3>2
  <2>9. leverage <= brackets[j].leverage
    BY <2>2, <2>3, <2>4, <2>8 DEF SafeIn, Bracket
  <2>10. leverage * Distance(request, brackets[j]) < 1000
    <3>0. /\ brackets[i].rate \in Nat /\ brackets[j].rate \in Nat
          /\ request.callback \in Nat /\ request.safety \in Nat
      BY <2>3
    <3>1. /\ Distance(request, brackets[i]) \in Nat
          /\ Distance(request, brackets[j]) \in Nat
          /\ Distance(request, brackets[j]) <= Distance(request, brackets[i])
      BY <2>8, <3>0 DEF Distance
    <3>2. leverage * Distance(request, brackets[i]) < 1000
      BY <2>2 DEF SafeIn
    <3>3. leverage * Distance(request, brackets[j])
              <= leverage * Distance(request, brackets[i])
      BY <2>4, <3>1
    <3>4. leverage * Distance(request, brackets[j]) \in Nat
          /\ leverage * Distance(request, brackets[i]) \in Nat
      BY <2>4, <3>1
    <3>. QED
      BY <3>2, <3>3, <3>4
  <2>. QED
    BY <2>9, <2>10 DEF SafeIn
<1>. QED
  BY <1>1, Invariance, PTL

\* For every monotone bracket table a leverage is found unless the unlevered
\* budget is already outside the brackets or unsafe.
THEOREM RefusalJustified == Spec => []UnleveredDecides
<1>1. ASSUME IInv PROVE UnleveredDecides
  <2>. DEFINE brackets == request.brackets
  <2>0. SUFFICES ASSUME outcome = "no safe leverage", NEW i \in DOMAIN brackets,
                       Covers(brackets[i], request.margin)
                PROVE  Distance(request, brackets[i]) >= 1000
    BY DEF UnleveredDecides, Covers
  <2>1. /\ request.margin \in Nat /\ request.callback \in Nat
        /\ request.safety \in Nat
        /\ brackets[i].leverage \in Nat \ {0} /\ brackets[i].rate \in Nat
    BY <1>1, RequestParts DEF IInv
  <2>2. Table(brackets)
    BY <1>1, RequestParts DEF IInv
  <2>3. \A j \in DOMAIN brackets :
            j \in Int /\ brackets[j].floor \in Nat /\ brackets[j].cap \in Nat
    BY <1>1, RequestParts DEF IInv
  <2>. HIDE DEF brackets
  <2>4. 1 \in LeverageRange(brackets)
    <3>1. 1 \in 1..brackets[i].leverage
      BY <2>1
    <3>. QED
      BY <2>0, <3>1 DEF LeverageRange
  \* No earlier bracket covers the margin too: they end before this one starts.
  <2>5. IsApplicable(brackets, request.margin, i)
    <3>1. ASSUME NEW j \in DOMAIN brackets, j < i,
                 Covers(brackets[j], request.margin)
          PROVE  FALSE
      <4>1. brackets[j].cap <= brackets[i].floor
        BY <2>2, <3>1 DEF Table
      <4>2. request.margin < brackets[j].cap /\ brackets[i].floor <= request.margin
        BY <2>0, <3>1 DEF Covers
      <4>. QED
        BY <2>1, <2>3, <4>1, <4>2
    <3>. QED
      BY <2>0, <3>1 DEF IsApplicable
  <2>6. Distance(request, brackets[i]) < 1000 => SafeIn(brackets[i], 1, request)
    <3>1. Distance(request, brackets[i]) \in Nat
      BY <2>1 DEF Distance
    <3>. QED
      BY <2>1, <3>1 DEF SafeIn
  <2>7. request.margin * 1 = request.margin
    BY <2>1
  <2>8. 1 \notin Candidates(request)
    BY <1>1, <2>0 DEF IInv, Refused
  <2>9. ~SafeIn(brackets[i], 1, request)
    BY <2>0, <2>4, <2>5, <2>7, <2>8 DEF Candidates, IsCandidate, brackets
  <2>10. Distance(request, brackets[i]) \in Nat
    BY <2>1 DEF Distance
  <2>. QED
    BY <2>6, <2>9, <2>10
<1>. QED
  BY <1>1, Invariance, PTL
=============================================================================
