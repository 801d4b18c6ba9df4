----------------------------- MODULE ReplayProofs -----------------------------
(***************************************************************************)
(* Theorems of Replay: what the feed promises, and that the simulations     *)
(* compute what they are defined to compute, for all trades.                *)
(*                                                                          *)
(* The simulations are loops, modelled as recursive functions.  Each is     *)
(* shown to be what its rounds say (it exists by Chains), and its rounds    *)
(* are followed by induction: the high watermark is the greatest price so   *)
(* far, the volume loop keeps Tracks.                                       *)
(***************************************************************************)
EXTENDS Replay, BinanceTickFeedProofs

-----------------------------------------------------------------------------
(* The feed *)

\* The invariant of the feed holds in every replay.
LEMMA Invariance == Spec => []FeedInv
<1>1. Init => FeedInv
  BY FeedStarts DEF Init
<1>2. ASSUME FeedInv, [Next]_vars PROVE FeedInv'
  <2>1. CASE Market \/ Fetch \/ Break
    BY <1>2, <2>1, FeedSteps
  <2>2. CASE Begin
    <3>1. PICK from \in 0..now, to \in 0..LastTime : from <= to /\ Open(from, to)
      BY <2>2 DEF Begin
    <3>2. from \in 0..LastTime
      BY <1>2, FeedAssumption DEF FeedInv, FeedTypeOK
    <3>. QED
      BY <1>2, <3>1, <3>2, OpenStep
  <2>3. CASE Again
    <3>1. start \in 0..LastTime /\ end \in 0..LastTime /\ start <= end
      BY <1>2 DEF FeedInv, FeedTypeOK, Chronological
    <3>. QED
      BY <1>2, <2>3, <3>1, OpenStep DEF Again
  <2>4. CASE UNCHANGED vars
    BY <1>2, <2>4, FeedStutters DEF vars
  <2>. QED
    BY <1>2, <2>1, <2>2, <2>3, <2>4 DEF Next
<1>. QED
  BY <1>1, <1>2, PTL DEF Spec

\* The clock, the trades, the files and the place of the generator have their types.
THEOREM TypeCorrect == Spec => []TypeOK
<1>1. FeedInv => TypeOK
  BY DEF FeedInv, TypeOK
<1>. QED
  BY <1>1, Invariance, PTL

\* The feed hands out the trades of the range in order, once and without a gap,
\* for every size of page, window and archive, however often it is stopped and
\* read again, and whatever is traded meanwhile.
THEOREM FeedReadsAll == Spec => []ReadsAll
<1>1. FeedInv => ReadsAll
  BY FeedPromises
<1>. QED
  BY <1>1, Invariance, PTL

\* A transfer that raises or is killed leaves no broken archive in the cache.
THEOREM ArchivesComplete == Spec => []CacheComplete
<1>1. FeedInv => CacheComplete
  BY FeedPromises
<1>. QED
  BY <1>1, Invariance, PTL

-----------------------------------------------------------------------------
(* Loops over trades *)

Deals == [time : Nat, tick : [price : Nat, quantity : Nat]]

\* The fields of a trade are numbers.
LEMMA Fields ==
    ASSUME NEW ts \in Seq(Deals)
    PROVE  /\ Len(ts) \in Nat /\ DOMAIN ts = 1..Len(ts)
           /\ \A k \in 1..Len(ts) : /\ ts[k].time \in Nat
                                    /\ ts[k].tick.price \in Nat
                                    /\ ts[k].tick.quantity \in Nat
<1>1. Len(ts) \in Nat /\ DOMAIN ts = 1..Len(ts) /\ \A k \in 1..Len(ts) : ts[k] \in Deals
  OBVIOUS
<1>2. \A d \in Deals : d.time \in Nat /\ d.tick.price \in Nat /\ d.tick.quantity \in Nat
  BY DEF Deals
<1>. QED
  BY <1>1, <1>2

\* The values of a loop whose first round is 1.
Chain(V, v, step, n) ==
    {f \in [1..n -> V] : f[1] = v /\ \A k \in 2..n : f[k] = step[<<k, f[k - 1]>>]}

\* There are such values.
LEMMA Chains ==
    ASSUME NEW V, NEW v \in V, NEW step \in [Nat \X V -> V], NEW n \in Nat \ {0}
    PROVE  Chain(V, v, step, n) # {}
<1>. DEFINE later == [p \in Nat \X V |-> step[<<p[1] + 1, p[2]>>]]
<1>1. later \in [Nat \X V -> V]
  <2>1. \A p \in Nat \X V : <<p[1] + 1, p[2]>> \in Nat \X V
    OBVIOUS
  <2>. QED
    BY <2>1
<1>2. \A m \in Nat, x \in V : later[<<m, x>>] = step[<<m + 1, x>>]
  OBVIOUS
<1>. HIDE DEF later
<1>3. PICK f \in Rounds(V, v, later, n) : TRUE
  BY <1>1, Recursion
<1>4. /\ f \in [0..n -> V] /\ f[0] = v
      /\ \A m \in 1..n : f[m] = later[<<m, f[m - 1]>>]
  BY <1>3 DEF Rounds
<1>. DEFINE g == [k \in 1..n |-> f[k - 1]]
<1>5. g \in [1..n -> V]
  BY <1>4
<1>6. g[1] = v
  BY <1>4
<1>7. ASSUME NEW k \in 2..n PROVE g[k] = step[<<k, g[k - 1]>>]
  <2>1. /\ k - 1 \in 1..n /\ k - 1 \in Nat /\ (k - 1) - 1 \in 0..n /\ k \in 1..n
        /\ (k - 1) + 1 = k
    OBVIOUS
  <2>2. g[k] = f[k - 1] /\ g[k - 1] = f[(k - 1) - 1] /\ f[(k - 1) - 1] \in V
    BY <1>4, <2>1
  <2>3. f[k - 1] = later[<<k - 1, f[(k - 1) - 1]>>]
    BY <1>4, <2>1
  <2>. HIDE DEF g
  <2>. QED
    BY <1>2, <2>1, <2>2, <2>3
<1>. HIDE DEF g
<1>. QED
  BY <1>5, <1>6, <1>7 DEF Chain

-----------------------------------------------------------------------------
(* The high watermark *)

Highest(ts) ==
    LET high[k \in DOMAIN ts] ==
            IF k = 1 THEN ts[1].tick.price
            ELSE Max({high[k - 1], ts[k].tick.price})
    IN high

\* The larger of two numbers.
LEMMA Larger ==
    ASSUME NEW a \in Nat, NEW b \in Nat
    PROVE  /\ Max({a, b}) \in Nat /\ a <= Max({a, b}) /\ b <= Max({a, b})
           /\ Max({a, b}) = a \/ Max({a, b}) = b
<1>1. {a, b} \in SUBSET Nat /\ {a, b} # {} /\ a + b \in Nat /\ \A i \in {a, b} : i <= a + b
  OBVIOUS
<1>2. Max({a, b}) \in {a, b} /\ \A i \in {a, b} : i <= Max({a, b})
  BY <1>1, Largest
<1>. QED
  BY <1>2

\* Highest is what its rounds say.
LEMMA HighestRounds ==
    ASSUME NEW ts \in Seq(Deals), ts # <<>>
    PROVE  /\ Highest(ts)[1] = ts[1].tick.price
           /\ \A k \in 2..Len(ts) :
                 Highest(ts)[k] = Max({Highest(ts)[k - 1], ts[k].tick.price})
<1>. DEFINE N == Len(ts)
            F(u) == [k \in DOMAIN ts |->
                        IF k = 1 THEN ts[1].tick.price
                        ELSE Max({u[k - 1], ts[k].tick.price})]
            high == CHOOSE u : u = F(u)
            price == [k \in Nat |-> IF k \in 1..N THEN ts[k].tick.price ELSE 0]
            step == [p \in Nat \X Nat |-> Max({p[2], price[p[1]]})]
<1>1. Highest(ts) = high
  BY DEF Highest
<1>2. N \in Nat \ {0} /\ DOMAIN ts = 1..N /\ 1 \in 1..N
  OBVIOUS
<1>3. \A k \in Nat : price[k] \in Nat
  BY Fields
<1>4. \A k \in 1..N : price[k] = ts[k].tick.price
  OBVIOUS
<1>. HIDE DEF price, N
<1>5. step \in [Nat \X Nat -> Nat]
  <2>1. \A p \in Nat \X Nat : p[2] \in Nat /\ price[p[1]] \in Nat
    BY <1>3
  <2>2. \A p \in Nat \X Nat : Max({p[2], price[p[1]]}) \in Nat
    BY <2>1, Larger
  <2>. QED
    BY <2>2
<1>6. \A k, x \in Nat : step[<<k, x>>] = Max({x, price[k]})
  OBVIOUS
<1>. HIDE DEF step
<1>7. PICK f \in Chain(Nat, price[1], step, N) : TRUE
  <2>. DEFINE v == price[1]
  <2>1. v \in Nat
    BY <1>3
  <2>. HIDE DEF v
  <2>2. Chain(Nat, v, step, N) # {}
    BY <1>2, <1>5, <2>1, Chains
  <2>. QED
    BY <2>2 DEF v
<1>8. /\ f \in [1..N -> Nat] /\ f[1] = price[1]
      /\ \A k \in 2..N : f[k] = step[<<k, f[k - 1]>>]
  BY <1>7 DEF Chain
<1>9. f = F(f)
  <2>1. \A k \in 1..N : k = 1 \/ k \in 2..N
    BY <1>2
  <2>2. \A k \in 2..N : k \in Nat /\ k # 1 /\ k \in 1..N /\ f[k - 1] \in Nat
    BY <1>2, <1>8
  <2>3. ASSUME NEW k \in 1..N PROVE f[k] = F(f)[k]
    <3>1. CASE k = 1
      BY <1>2, <1>4, <1>8, <3>1
    <3>2. CASE k \in 2..N
      <4>1. f[k] = Max({f[k - 1], price[k]}) /\ price[k] = ts[k].tick.price
        BY <1>4, <1>6, <1>8, <2>2, <3>2
      <4>. QED
        BY <1>2, <2>2, <3>2, <4>1
    <3>. QED
      BY <2>1, <3>1, <3>2
  <2>4. f = [k \in 1..N |-> f[k]]
    BY <1>8
  <2>. QED
    BY <1>2, <2>3, <2>4
<1>10. high = F(high)
  <2>. HIDE DEF F
  <2>. QED
    BY <1>9
<1>. HIDE DEF high
<1>11. \A k \in 2..N : k \in 1..N /\ k # 1
  BY <1>2
<1>12. high[1] = ts[1].tick.price
  BY <1>2, <1>10
<1>13. \A k \in 2..N : high[k] = Max({high[k - 1], ts[k].tick.price})
  BY <1>2, <1>10, <1>11
<1>. QED
  BY <1>1, <1>12, <1>13 DEF N

\* It is the greatest price so far.
LEMMA HighestSoFar ==
    ASSUME NEW ts \in Seq(Deals), ts # <<>>, NEW k \in 1..Len(ts)
    PROVE  /\ Highest(ts)[k] \in Nat
           /\ \A j \in 1..k : ts[j].tick.price <= Highest(ts)[k]
           /\ \E j \in 1..k : Highest(ts)[k] = ts[j].tick.price
<1>. DEFINE Good(n) == /\ Highest(ts)[n] \in Nat
                       /\ \A j \in 1..n : ts[j].tick.price <= Highest(ts)[n]
                       /\ \E j \in 1..n : Highest(ts)[n] = ts[j].tick.price
            P == {n \in Nat : n \in 1..Len(ts) => Good(n)}
<1>1. /\ Len(ts) \in Nat
      /\ \A n \in 1..Len(ts) : ts[n].tick.price \in Nat
  BY Fields
<1>2. /\ Highest(ts)[1] = ts[1].tick.price
      /\ \A n \in 2..Len(ts) : Highest(ts)[n] = Max({Highest(ts)[n - 1], ts[n].tick.price})
  BY HighestRounds
<1>3. 0 \in P
  OBVIOUS
<1>4. ASSUME NEW n \in Nat, n \in P PROVE n + 1 \in P
  <2>. SUFFICES ASSUME n + 1 \in 1..Len(ts) PROVE Good(n + 1)
    OBVIOUS
  <2>1. CASE n = 0
    <3>1. n + 1 = 1 /\ 1 \in 1..Len(ts) /\ \A j \in 1..1 : j = 1
      BY <2>1
    <3>. QED
      BY <1>1, <1>2, <3>1
  <2>2. CASE n # 0
    <3>. DEFINE h == Highest(ts)[n]
                q == ts[n + 1].tick.price
    <3>1. n \in 1..Len(ts) /\ n + 1 \in 2..Len(ts) /\ (n + 1) - 1 = n
      BY <1>1, <2>2
    <3>2. Good(n)
      BY <1>4, <3>1
    <3>3. Highest(ts)[n + 1] = Max({h, q})
      BY <1>2, <3>1
    <3>4. h \in Nat /\ q \in Nat
      BY <1>1, <3>2
    <3>5. \A j \in 1..(n + 1) : j \in 1..n \/ j = n + 1
      OBVIOUS
    <3>6. 1..n \subseteq 1..(n + 1) /\ n + 1 \in 1..(n + 1)
      OBVIOUS
    <3>. DEFINE m == Max({h, q})
    <3>7. m \in Nat /\ h <= m /\ q <= m /\ (m = h \/ m = q)
      BY <3>4, Larger
    <3>. HIDE DEF h, q, m
    <3>8. \A j \in 1..n : ts[j].tick.price \in Nat /\ ts[j].tick.price <= h
      BY <1>1, <3>1, <3>2 DEF h
    <3>9. \A j \in 1..(n + 1) : ts[j].tick.price <= m
      BY <3>4, <3>5, <3>7, <3>8 DEF q
    <3>10. \E j \in 1..(n + 1) : m = ts[j].tick.price
      BY <3>2, <3>6, <3>7 DEF h, q
    <3>. QED
      BY <3>3, <3>7, <3>9, <3>10 DEF m
  <2>. QED
    BY <2>1, <2>2
<1>5. k \in P
  <2>. HIDE DEF P
  <2>. QED
    BY <1>1, <1>3, <1>4, Induction
<1>. QED
  BY <1>5

\* A factor keeps the order.
LEMMA Scaled ==
    ASSUME NEW a \in Nat, NEW b \in Nat, NEW c \in Nat, a <= b
    PROVE  a * c \in Nat /\ b * c \in Nat /\ a * c <= b * c
<1>1. b - a \in Nat /\ b = a + (b - a)
  OBVIOUS
<1>2. PICK d \in Nat : b = a + d
  BY <1>1
<1>3. b * c = a * c + d * c /\ a * c \in Nat /\ d * c \in Nat
  BY <1>2
<1>. QED
  BY <1>3

\* The first of some places, 0 if there is none.
LEMMA FirstPlace ==
    ASSUME NEW S \in SUBSET (Nat \ {0})
    PROVE  /\ First(S) \in Nat
           /\ S = {} => First(S) = 0
           /\ S # {} => First(S) \in S /\ First(S) # 0 /\ \A i \in S : First(S) <= i
<1>1. CASE S = {}
  BY <1>1 DEF First
<1>2. CASE S # {}
  <2>1. Min(S) \in S /\ \A i \in S : Min(S) <= i
    BY <1>2, Smallest
  <2>. QED
    BY <1>2, <2>1 DEF First
<1>. QED
  BY <1>1, <1>2

\* Falling below the high watermark is falling below some earlier price: the
\* price of the trade itself does not matter.
LEMMA TrailingCorrect ==
    ASSUME NEW ts \in Seq(Deals), NEW ties
    PROVE  TrailingExit(ts, ties) = TrailingReference(ts, ties)
<1>. DEFINE price(k) == ts[k].tick.price
            rest == 100 - StopRate
            E == {k \in DOMAIN ts : k > 1 /\ Below(price(k), Highest(ts)[k], k \in ties)}
            R == {k \in DOMAIN ts : \E j \in 1..k - 1 : Below(price(k), price(j), k \in ties)}
<1>1. TrailingExit(ts, ties) = First(E)
  BY DEF TrailingExit, Highest
<1>2. TrailingReference(ts, ties) = First(R)
  BY DEF TrailingReference
<1>3. rest \in Nat /\ StopRate \in Nat /\ StopRate >= 1 /\ rest = 100 - StopRate
  BY ExitAssumption
<1>4. /\ Len(ts) \in Nat /\ DOMAIN ts = 1..Len(ts)
      /\ \A k \in 1..Len(ts) : price(k) \in Nat
  BY Fields
<1>. HIDE DEF price, rest
<1>5. ASSUME NEW k \in DOMAIN ts PROVE k \in E <=> k \in R
  <2>. DEFINE h == Highest(ts)[k]
  <2>1. ts # <<>> /\ k \in 1..Len(ts) /\ k \in Nat
    BY <1>4
  <2>2. /\ h \in Nat /\ \A j \in 1..k : price(j) <= h
        /\ \E j \in 1..k : h = price(j)
    BY <2>1, HighestSoFar DEF price
  <2>3. \A j \in 1..k : price(j) \in Nat
    BY <1>4, <2>1
  <2>. DEFINE Falls(high) ==
                  \/ 100 * price(k) < high * rest
                  \/ k \in ties /\ 100 * price(k) = high * rest
  <2>4. /\ k \in E <=> k > 1 /\ Falls(h)
        /\ k \in R <=> \E j \in 1..k - 1 : Falls(price(j))
    BY DEF Below, rest
  <2>. HIDE DEF h, E, R
  <2>5. ASSUME k \in R PROVE k \in E
    <3>1. PICK j \in 1..k - 1 : Falls(price(j))
      BY <2>4, <2>5
    <3>2. j \in 1..k /\ k > 1
      BY <2>1
    <3>3. price(j) * rest \in Nat /\ h * rest \in Nat /\ price(j) * rest <= h * rest
      BY <1>3, <2>2, <2>3, <3>2, Scaled
    <3>4. Falls(h)
      <4>. DEFINE x == price(j) * rest
                  y == h * rest
      <4>1. x \in Nat /\ y \in Nat /\ x <= y /\ price(k) \in Nat
        BY <2>1, <2>3, <3>3
      <4>2. 100 * price(k) < x \/ (k \in ties /\ 100 * price(k) = x)
        BY <3>1
      <4>. HIDE DEF x, y
      <4>3. 100 * price(k) < y \/ (k \in ties /\ 100 * price(k) = y)
        BY <4>1, <4>2
      <4>. QED
        BY <4>3 DEF y
    <3>. QED
      BY <2>4, <3>2, <3>4
  <2>6. ASSUME k \in E PROVE k \in R
    <3>1. k > 1 /\ Falls(h)
      BY <2>4, <2>6
    <3>2. PICK j \in 1..k : h = price(j)
      BY <2>2
    <3>3. CASE j # k
      <4>1. j \in 1..k - 1
        BY <2>1, <3>3
      <4>. QED
        BY <2>4, <3>1, <3>2, <4>1
    <3>4. CASE j = k
      <4>1. h * rest = 100 * h - h * StopRate /\ h * StopRate >= h
        <5>1. h * (100 - StopRate) = 100 * h - h * StopRate
          BY <1>3, <2>2
        <5>2. h = 1 * h /\ StopRate * h = h * StopRate
          BY <1>3, <2>2
        <5>3. 1 * h <= StopRate * h
          BY <1>3, <2>2, Scaled
        <5>. QED
          BY <1>3, <2>2, <5>1, <5>2, <5>3
      <4>2. 100 * h < h * rest \/ (k \in ties /\ 100 * h = h * rest)
        BY <3>1, <3>2, <3>4
      <4>3. h = 0
        <5>. DEFINE x == h * StopRate
                    y == h * rest
        <5>1. /\ x \in Nat /\ y \in Nat /\ y = 100 * h - x /\ x >= h
              /\ 100 * h < y \/ 100 * h = y
          BY <1>3, <2>2, <4>1, <4>2
        <5>. HIDE DEF x, y
        <5>. QED
          BY <2>2, <5>1
      <4>4. price(1) = 0 /\ price(k) = 0 /\ 1 \in 1..k - 1
        BY <2>1, <2>2, <2>3, <3>1, <4>3
      <4>5. k \in ties
        BY <1>3, <4>2, <4>3
      <4>6. Falls(price(1))
        BY <1>3, <4>4, <4>5
      <4>. QED
        BY <2>4, <4>4, <4>6
    <3>. QED
      BY <3>3, <3>4
  <2>. QED
    BY <2>5, <2>6
<1>6. E = R
  <2>1. E \subseteq DOMAIN ts /\ R \subseteq DOMAIN ts
    OBVIOUS
  <2>. QED
    BY <1>5, <2>1
<1>. QED
  BY <1>1, <1>2, <1>6

\* The loop of calculate_max_pnl ends with the greatest price.
LEMMA MaximumCorrect ==
    ASSUME NEW ts \in Seq(Deals)
    PROVE  MaximumPrice(ts) = MaximumReference(ts)
<1>1. CASE ts = <<>>
  BY <1>1 DEF MaximumPrice, MaximumReference
<1>2. CASE ts # <<>>
  <2>. DEFINE N == Len(ts)
              h == Highest(ts)[N]
              prices == {ts[k].tick.price : k \in DOMAIN ts}
  <2>1. N \in Nat /\ N \in 1..N /\ DOMAIN ts = 1..N
    BY <1>2
  <2>2. MaximumPrice(ts) = h
    BY <1>2 DEF MaximumPrice, Highest
  <2>3. /\ h \in Nat /\ \A j \in 1..N : ts[j].tick.price <= h
        /\ \E j \in 1..N : h = ts[j].tick.price
    BY <1>2, <2>1, HighestSoFar
  <2>4. \A j \in 1..N : ts[j].tick.price \in Nat
    BY Fields
  <2>. HIDE DEF h, N
  <2>5. /\ prices \in SUBSET Nat /\ h \in prices
        /\ \A i \in prices : i <= h
    BY <2>1, <2>3, <2>4
  <2>. HIDE DEF prices
  <2>6. prices # {}
    BY <2>5
  <2>7. Max(prices) \in prices /\ \A i \in prices : i <= Max(prices)
    BY <2>3, <2>5, <2>6, Largest
  <2>8. Max(prices) = h
    <3>. DEFINE m == Max(prices)
    <3>1. m \in Nat /\ m <= h /\ h <= m
      BY <2>5, <2>7
    <3>. HIDE DEF m
    <3>2. m = h
      BY <2>3, <3>1
    <3>. QED
      BY <3>2 DEF m
  <2>. QED
    BY <1>2, <2>2, <2>8 DEF MaximumReference, prices
<1>. QED
  BY <1>1, <1>2

-----------------------------------------------------------------------------
(* Reading part of the range *)

\* The beginning of a sequence.
Begins(s, t) ==
    Len(s) <= Len(t) /\ \A k \in 1..Len(s) : s[k] = t[k]

\* Ascending lists of a set and of the lower part of it agree as far as they go.
LEMMA LowerPart ==
    ASSUME NEW A \in SUBSET Nat, NEW B \in SUBSET A,
           NEW s \in Seq(B), Range(s) = B, Increasing(s),
           NEW t \in Seq(A), Range(t) = A, Increasing(t),
           \A i \in A, g \in B : i < g => i \in B
    PROVE  Begins(s, t)
<1>1. /\ Len(s) \in Nat /\ DOMAIN s = 1..Len(s) /\ \A k \in 1..Len(s) : s[k] \in B
      /\ Len(t) \in Nat /\ DOMAIN t = 1..Len(t) /\ \A k \in 1..Len(t) : t[k] \in A
  OBVIOUS
<1>2. /\ \A i \in B : \E k \in 1..Len(s) : s[k] = i
      /\ \A i \in A : \E k \in 1..Len(t) : t[k] = i
  BY <1>1 DEF Range
<1>3. /\ \A k, l \in 1..Len(s) : k < l => s[k] < s[l]
      /\ \A k, l \in 1..Len(t) : k < l => t[k] < t[l]
  BY <1>1 DEF Increasing
<1>. DEFINE Same(n) == n <= Len(t) /\ \A k \in 1..n : s[k] = t[k]
            P == {n \in Nat : n <= Len(s) => Same(n)}
<1>4. 0 \in P
  BY <1>1
<1>5. ASSUME NEW n \in Nat, n \in P PROVE n + 1 \in P
  <2>. SUFFICES ASSUME n + 1 <= Len(s) PROVE Same(n + 1)
    OBVIOUS
  <2>. DEFINE m == n + 1
  <2>1. m \in Nat /\ m \in 1..Len(s) /\ n <= Len(s) /\ \A k \in 1..m : k \in 1..n \/ k = m
    BY <1>1
  <2>2. n <= Len(t) /\ \A k \in 1..n : s[k] = t[k] /\ k \in 1..Len(s) /\ k \in 1..Len(t) /\ k < m
    BY <1>1, <1>5, <2>1
  <2>. HIDE DEF m
  <2>3. \A k \in Nat : k \in 1..n \/ k < 1 \/ k >= m
    BY DEF m
  <2>4. PICK l \in 1..Len(t) : t[l] = s[m]
    BY <1>1, <1>2, <2>1
  <2>5. l >= m
    <3>1. ASSUME l \in 1..n PROVE FALSE
      <4>1. s[l] = s[m] /\ s[l] < s[m] /\ s[m] \in Nat
        BY <1>1, <1>3, <2>1, <2>2, <2>4, <3>1
      <4>. QED
        BY <4>1
    <3>. QED
      BY <2>3, <3>1
  <2>6. m \in 1..Len(t)
    BY <1>1, <2>1, <2>5
  <2>7. t[m] <= s[m] /\ t[m] \in Nat /\ s[m] \in Nat
    <3>1. m = l \/ m < l
      BY <2>1, <2>5
    <3>2. t[m] \in A /\ t[l] \in A /\ s[m] = t[l]
      BY <1>1, <2>4, <2>6
    <3>3. t[m] \in Nat /\ t[l] \in Nat
      BY <3>2
    <3>4. t[m] = t[l] \/ t[m] < t[l]
      BY <1>3, <2>6, <3>1
    <3>. QED
      BY <3>2, <3>3, <3>4
  <2>8. t[m] \in B
    <3>1. t[m] < s[m] \/ t[m] = s[m]
      BY <2>7
    <3>. QED
      BY <1>1, <2>1, <2>6, <3>1
  <2>9. PICK j \in 1..Len(s) : s[j] = t[m]
    BY <1>2, <2>8
  <2>10. j >= m
    <3>1. ASSUME j \in 1..n PROVE FALSE
      <4>1. t[j] = t[m] /\ t[j] < t[m]
        BY <1>3, <2>2, <2>6, <2>9, <3>1
      <4>. QED
        BY <2>7, <4>1
    <3>. QED
      BY <2>3, <3>1
  <2>11. s[m] <= t[m]
    <3>1. m = j \/ m < j
      BY <2>1, <2>10
    <3>. QED
      BY <1>3, <2>1, <2>7, <2>9, <3>1
  <2>12. s[m] = t[m]
    BY <2>7, <2>11
  <2>13. m <= Len(t)
    BY <2>6
  <2>14. \A k \in 1..m : s[k] = t[k]
    BY <2>1, <2>2, <2>12
  <2>. QED
    BY <2>13, <2>14 DEF m
<1>6. Len(s) \in P
  <2>. HIDE DEF P
  <2>. QED
    BY <1>1, <1>4, <1>5, Induction
<1>. QED
  BY <1>1, <1>6 DEF Begins

\* The trades of some ids, in order.
LEMMA Deliveries ==
    ASSUME FeedInv, NEW S \in SUBSET Ids
    PROVE  /\ Of(S) \in Seq(Deals) /\ Len(Of(S)) = Len(Ascending(S))
           /\ \A k \in 1..Len(Of(S)) : /\ Ascending(S)[k] \in Ids
                                       /\ Of(S)[k] = trades[Ascending(S)[k]]
<1>. DEFINE a == Ascending(S)
<1>1. Len(trades) \in Nat /\ Ids = 1..Len(trades)
  BY Types DEF FeedInv
<1>2. a \in Seq(S)
  BY <1>1, Listing
<1>3. \A i \in Ids : trades[i] \in Deals
  <2>. DEFINE T == [time : Nat, tick : Ticks]
  <2>1. trades \in Seq(T)
    BY DEF FeedInv, FeedTypeOK
  <2>2. T \subseteq Deals
    BY TickAssumption DEF Deals
  <2>. HIDE DEF T
  <2>. QED
    BY <1>1, <2>1, <2>2
<1>4. Of(S) = [k \in DOMAIN a |-> trades[a[k]]]
  BY DEF Of
<1>. HIDE DEF a
<1>5. Len(a) \in Nat /\ DOMAIN a = 1..Len(a) /\ \A k \in 1..Len(a) : a[k] \in Ids
  BY <1>2
<1>6. \A k \in 1..Len(a) : trades[a[k]] \in Deals
  BY <1>3, <1>5
<1>7. Of(S) \in Seq(Deals) /\ Len(Of(S)) = Len(a)
  BY <1>4, <1>5, <1>6
<1>8. \A k \in 1..Len(Of(S)) : a[k] \in Ids /\ Of(S)[k] = trades[a[k]]
  BY <1>4, <1>5, <1>7
<1>. QED
  BY <1>7, <1>8 DEF a

\* What was taken so far is the beginning of what there is to take, in the
\* order of the times.
LEMMA TakenBegins ==
    ASSUME FeedInv
    PROVE  /\ Taken \in Seq(Deals) /\ Of(Wanted) \in Seq(Deals)
           /\ Begins(Taken, Of(Wanted))
           /\ feed = "over" => Taken = Of(Wanted)
           /\ \A k, l \in 1..Len(Taken) : k <= l => Taken[k].time <= Taken[l].time
<1>1. /\ Ids \subseteq Nat /\ Len(trades) \in Nat /\ Ids = 1..Len(trades)
      /\ Given \subseteq Ids /\ Wanted \subseteq Ids
      /\ \A i \in Ids : trades[i].time \in Nat
  BY Types DEF FeedInv
<1>2. Handed /\ Finished /\ Chronological
  BY DEF FeedInv
<1>3. Taken = Of(Given)
  BY DEF Taken, Given
<1>. DEFINE s == Ascending(Given)
            t == Ascending(Wanted)
<1>4. /\ s \in Seq(Given) /\ Range(s) = Given /\ Increasing(s)
      /\ t \in Seq(Wanted) /\ Range(t) = Wanted /\ Increasing(t)
  BY <1>1, Listing
<1>5. /\ Of(Given) \in Seq(Deals) /\ Len(Of(Given)) = Len(s)
      /\ \A k \in 1..Len(Of(Given)) : s[k] \in Ids /\ Of(Given)[k] = trades[s[k]]
  BY <1>1, Deliveries
<1>6. /\ Of(Wanted) \in Seq(Deals) /\ Len(Of(Wanted)) = Len(t)
      /\ \A k \in 1..Len(Of(Wanted)) : t[k] \in Ids /\ Of(Wanted)[k] = trades[t[k]]
  BY <1>1, Deliveries
<1>. HIDE DEF s, t
<1>7. Begins(s, t)
  <2>1. /\ Wanted \in SUBSET Nat /\ Given \in SUBSET Wanted
        /\ \A i \in Wanted, g \in Given : i < g => i \in Given
    BY <1>1, <1>2 DEF Handed
  <2>. HIDE DEF Given, Wanted
  <2>. QED
    BY <1>4, <2>1, LowerPart
<1>8. Begins(Taken, Of(Wanted))
  <2>1. Len(s) \in Nat /\ Len(t) \in Nat
    BY <1>4
  <2>2. Len(s) <= Len(t) /\ \A k \in 1..Len(s) : s[k] = t[k] /\ k \in 1..Len(t)
    BY <1>7, <2>1 DEF Begins
  <2>. QED
    BY <1>3, <1>5, <1>6, <2>2 DEF Begins
<1>9. feed = "over" => Taken = Of(Wanted)
  <2>1. feed = "over" => Given = Wanted
    BY <1>2 DEF Handed, Finished
  <2>. QED
    BY <1>3, <2>1
<1>10. ASSUME NEW k \in 1..Len(Taken), NEW l \in 1..Len(Taken), k <= l
       PROVE  Taken[k].time <= Taken[l].time
  <2>1. s[k] \in Ids /\ s[l] \in Ids /\ k \in DOMAIN s /\ l \in DOMAIN s
    BY <1>3, <1>4, <1>5
  <2>2. s[k] <= s[l]
    <3>1. k < l \/ k = l
      BY <1>10
    <3>. QED
      BY <1>1, <1>4, <2>1, <3>1 DEF Increasing
  <2>3. trades[s[k]].time <= trades[s[l]].time
    BY <1>2, <2>1, <2>2 DEF Chronological
  <2>. QED
    BY <1>3, <1>5, <2>3
<1>. QED
  BY <1>3, <1>5, <1>6, <1>8, <1>9, <1>10

\* A trailing stop that was found in the beginning is the one of the whole.
LEMMA TrailingFinal ==
    ASSUME NEW s \in Seq(Deals), NEW t \in Seq(Deals), NEW ties, Begins(s, t),
           TrailingReference(s, ties) # 0
    PROVE  TrailingReference(s, ties) = TrailingReference(t, ties)
<1>. DEFINE Falls(u, k) ==
                \E j \in 1..k - 1 :
                   Below(u[k].tick.price, u[j].tick.price, k \in ties)
            S == {k \in DOMAIN s : Falls(s, k)}
            T == {k \in DOMAIN t : Falls(t, k)}
<1>1. TrailingReference(s, ties) = First(S) /\ TrailingReference(t, ties) = First(T)
  BY DEF TrailingReference
<1>2. /\ Len(s) \in Nat /\ DOMAIN s = 1..Len(s) /\ Len(t) \in Nat /\ DOMAIN t = 1..Len(t)
      /\ Len(s) <= Len(t) /\ \A k \in 1..Len(s) : s[k] = t[k]
  BY DEF Begins
<1>3. \A k \in 1..Len(s) : k \in 1..Len(t) /\ \A j \in 1..k - 1 : j \in 1..Len(s)
  BY <1>2
<1>4. \A k \in 1..Len(s) : Falls(s, k) <=> Falls(t, k)
  BY <1>2, <1>3
<1>. HIDE DEF Falls
<1>5. S \in SUBSET (Nat \ {0}) /\ T \in SUBSET (Nat \ {0})
  BY <1>2
<1>6. \A k \in 1..Len(s) : k \in S <=> k \in T
  BY <1>2, <1>3, <1>4
<1>7. S \subseteq 1..Len(s) /\ T \subseteq 1..Len(t)
  BY <1>2
<1>. HIDE DEF S, T
<1>8. S # {} /\ First(S) \in S /\ \A i \in S : First(S) <= i
  BY <1>1, <1>5, FirstPlace
<1>9. T # {} /\ First(T) \in T /\ \A i \in T : First(T) <= i
  <2>1. First(S) \in T
    BY <1>6, <1>7, <1>8
  <2>. QED
    BY <1>5, <2>1, FirstPlace
<1>10. First(T) <= First(S) /\ First(S) \in 1..Len(s) /\ First(T) \in 1..Len(t)
  BY <1>6, <1>7, <1>8, <1>9
<1>11. First(T) \in S
  BY <1>2, <1>6, <1>9, <1>10
<1>12. First(S) <= First(T)
  BY <1>8, <1>11
<1>. QED
  BY <1>1, <1>2, <1>10, <1>12

-----------------------------------------------------------------------------
(* Volumes *)

\* Volume adds up in an order that CHOOSE picks.  Sums adds up in the order of
\* the trades; the two agree, so the order does not matter.
Sums(ts, K) ==
    CHOOSE f \in Rounds(Nat, 0,
                        [p \in Nat \X Nat |->
                            IF p[1] \in 1..Len(ts) /\ p[1] \in K
                            THEN p[2] + ts[p[1]].tick.quantity ELSE p[2]],
                        Len(ts)) : TRUE

\* Sums is what its rounds say.
LEMMA SumsRounds ==
    ASSUME NEW ts \in Seq(Deals), NEW K \in SUBSET (1..Len(ts))
    PROVE  /\ \A n \in 0..Len(ts) : Sums(ts, K)[n] \in Nat
           /\ Sums(ts, K)[0] = 0
           /\ \A n \in 1..Len(ts) :
                 Sums(ts, K)[n] = IF n \in K
                                  THEN Sums(ts, K)[n - 1] + ts[n].tick.quantity
                                  ELSE Sums(ts, K)[n - 1]
<1>. DEFINE N == Len(ts)
            step == [p \in Nat \X Nat |->
                        IF p[1] \in 1..N /\ p[1] \in K
                        THEN p[2] + ts[p[1]].tick.quantity ELSE p[2]]
            f == Sums(ts, K)
<1>1. N \in Nat /\ \A n \in 1..N : ts[n].tick.quantity \in Nat
  BY Fields
<1>2. step \in [Nat \X Nat -> Nat]
  <2>1. ASSUME NEW p \in Nat \X Nat
        PROVE  (IF p[1] \in 1..N /\ p[1] \in K
                THEN p[2] + ts[p[1]].tick.quantity ELSE p[2]) \in Nat
    <3>1. p[2] \in Nat /\ (p[1] \in 1..N => ts[p[1]].tick.quantity \in Nat)
      BY <1>1
    <3>. QED
      BY <3>1
  <2>. QED
    BY <2>1
<1>3. \A n \in 1..N, x \in Nat :
         step[<<n, x>>] = IF n \in K THEN x + ts[n].tick.quantity ELSE x
  BY <1>1
<1>4. f = CHOOSE g \in Rounds(Nat, 0, step, N) : TRUE
  BY DEF Sums
<1>. HIDE DEF step, f, N
<1>5. f \in Rounds(Nat, 0, step, N)
  <2>1. 0 \in Nat
    OBVIOUS
  <2>2. Rounds(Nat, 0, step, N) # {}
    BY <1>1, <1>2, <2>1, Recursion
  <2>. QED
    BY <1>4, <2>2
<1>6. /\ f \in [0..N -> Nat] /\ f[0] = 0
      /\ \A n \in 1..N : f[n] = step[<<n, f[n - 1]>>]
  BY <1>5 DEF Rounds
<1>7. \A n \in 1..N : n - 1 \in 0..N
  BY <1>1
<1>8. \A n \in 1..N : f[n] = IF n \in K THEN f[n - 1] + ts[n].tick.quantity ELSE f[n - 1]
  BY <1>3, <1>6, <1>7
<1>. QED
  BY <1>6, <1>8 DEF f, N

\* Nothing adds up to 0.
LEMMA SumOfNone ==
    ASSUME NEW ts \in Seq(Deals)
    PROVE  Sums(ts, {})[Len(ts)] = 0
<1>. DEFINE f == Sums(ts, {})
            P == {n \in Nat : n <= Len(ts) => f[n] = 0}
<1>1. /\ Len(ts) \in Nat /\ f[0] = 0
      /\ \A n \in 1..Len(ts) : f[n] = f[n - 1]
  BY Fields, SumsRounds
<1>. HIDE DEF f
<1>2. 0 \in P
  BY <1>1
<1>3. ASSUME NEW n \in Nat, n \in P PROVE n + 1 \in P
  <2>. SUFFICES ASSUME n + 1 <= Len(ts) PROVE f[n + 1] = 0
    OBVIOUS
  <2>1. n <= Len(ts) /\ n + 1 \in 1..Len(ts) /\ (n + 1) - 1 = n
    BY <1>1
  <2>. QED
    BY <1>1, <1>3, <2>1
<1>4. Len(ts) \in P
  <2>. HIDE DEF P
  <2>. QED
    BY <1>1, <1>2, <1>3, Induction
<1>. QED
  BY <1>1, <1>4 DEF f

\* Any trade can be added last.
LEMMA SumWithout ==
    ASSUME NEW ts \in Seq(Deals), NEW K \in SUBSET (1..Len(ts)), NEW x \in K
    PROVE  Sums(ts, K)[Len(ts)] = ts[x].tick.quantity + Sums(ts, K \ {x})[Len(ts)]
<1>. DEFINE N == Len(ts)
            f == Sums(ts, K)
            g == Sums(ts, K \ {x})
            q(n) == ts[n].tick.quantity
            Same(n) == f[n] = IF n < x THEN g[n] ELSE q(x) + g[n]
            P == {n \in Nat : n <= N => Same(n)}
<1>1. N \in Nat /\ x \in 1..N /\ \A n \in 1..N : q(n) \in Nat
  BY Fields
<1>2. /\ \A n \in 0..N : f[n] \in Nat
      /\ f[0] = 0
      /\ \A n \in 1..N : f[n] = IF n \in K THEN f[n - 1] + q(n) ELSE f[n - 1]
  BY SumsRounds
<1>3. /\ \A n \in 0..N : g[n] \in Nat
      /\ g[0] = 0
      /\ \A n \in 1..N : g[n] = IF n \in K \ {x} THEN g[n - 1] + q(n) ELSE g[n - 1]
  <2>1. K \ {x} \in SUBSET (1..Len(ts))
    OBVIOUS
  <2>. QED
    BY <2>1, SumsRounds
<1>. HIDE DEF f, g, q, N
<1>4. 0 \in P
  BY <1>1, <1>2, <1>3
<1>5. ASSUME NEW n \in Nat, n \in P PROVE n + 1 \in P
  <2>. SUFFICES ASSUME n + 1 <= N PROVE Same(n + 1)
    OBVIOUS
  <2>1. n <= N /\ n \in 0..N /\ n + 1 \in 1..N /\ (n + 1) - 1 = n
    BY <1>1
  <2>2. Same(n)
    BY <1>5, <2>1
  <2>3. /\ f[n + 1] = IF n + 1 \in K THEN f[n] + q(n + 1) ELSE f[n]
        /\ g[n + 1] = IF n + 1 \in K \ {x} THEN g[n] + q(n + 1) ELSE g[n]
        /\ f[n] \in Nat /\ g[n] \in Nat /\ q(n + 1) \in Nat /\ q(x) \in Nat
    BY <1>1, <1>2, <1>3, <2>1
  <2>4. CASE n + 1 = x
    <3>1. n < x /\ ~(n + 1 < x)
      BY <2>4
    <3>. QED
      BY <2>2, <2>3, <2>4, <3>1
  <2>5. CASE n + 1 # x
    <3>1. n < x <=> n + 1 < x
      BY <1>1, <2>5
    <3>. QED
      BY <2>2, <2>3, <2>5, <3>1
  <2>. QED
    BY <2>4, <2>5
<1>6. N \in P
  <2>. HIDE DEF P
  <2>. QED
    BY <1>1, <1>4, <1>5, Induction
<1>7. f[N] = q(x) + g[N]
  BY <1>1, <1>6
<1>. QED
  BY <1>7 DEF f, g, q, N

\* Volume is that sum, whatever trade CHOOSE picks next.
LEMMA VolumeIsSum ==
    ASSUME NEW ts \in Seq(Deals), NEW K \in SUBSET (1..Len(ts))
    PROVE  Volume(ts, K) = Sums(ts, K)[Len(ts)]
<1>. DEFINE pick(s) == CHOOSE x \in s : TRUE
            q(n) == ts[n].tick.quantity
            F(u) == [s \in SUBSET K |->
                        IF s = {} THEN 0 ELSE q(pick(s)) + u[s \ {pick(s)}]]
            iter == CHOOSE u : u = F(u)
            total == [s \in SUBSET K |-> Sums(ts, s)[Len(ts)]]
<1>1. Volume(ts, K) = iter[K]
  BY DEF Volume, MapThenSumSet, MapThenFoldSet
<1>2. \A s \in SUBSET K : s # {} => pick(s) \in s /\ s \ {pick(s)} \in SUBSET K
  OBVIOUS
<1>. HIDE DEF pick
<1>3. \A s \in SUBSET K : s # {} => total[s] = q(pick(s)) + total[s \ {pick(s)}]
  <2>. SUFFICES ASSUME NEW s \in SUBSET K, s # {}
                PROVE  total[s] = q(pick(s)) + total[s \ {pick(s)}]
    OBVIOUS
  <2>1. s \in SUBSET (1..Len(ts)) /\ pick(s) \in s /\ s \ {pick(s)} \in SUBSET K
    BY <1>2
  <2>2. Sums(ts, s)[Len(ts)] = q(pick(s)) + Sums(ts, s \ {pick(s)})[Len(ts)]
    BY <2>1, SumWithout
  <2>. QED
    BY <2>1, <2>2
<1>4. total[{}] = 0
  BY SumOfNone
<1>5. total = F(total)
  <2>. DEFINE G == F(total)
  <2>1. total = [s \in SUBSET K |-> total[s]]
    OBVIOUS
  <2>. HIDE DEF total
  <2>2. \A s \in SUBSET K : G[s] = total[s]
    BY <1>3, <1>4
  <2>3. G = [s \in SUBSET K |-> G[s]]
    OBVIOUS
  <2>. HIDE DEF G
  <2>4. G = total
    BY <2>1, <2>2, <2>3
  <2>. QED
    BY <2>4 DEF G
<1>6. iter = F(iter)
  <2>. HIDE DEF F, total
  <2>. QED
    BY <1>5
<1>. HIDE DEF iter
<1>7. /\ iter[{}] = 0
      /\ \A s \in SUBSET K : s # {} => iter[s] = q(pick(s)) + iter[s \ {pick(s)}]
  <2>1. {} \in SUBSET K
    OBVIOUS
  <2>. QED
    BY <1>6, <2>1
<1>. HIDE DEF total, q
<1>8. \A s \in SUBSET K : IsFiniteSet(s) /\ Cardinality(s) \in Nat
  <2>1. IsFiniteSet(K)
    <3>1. Len(ts) \in Nat /\ IsFiniteSet(1..Len(ts))
      BY Fields, FS_Interval
    <3>. QED
      BY <3>1, FS_Subset
  <2>2. \A s \in SUBSET K : IsFiniteSet(s)
    BY <2>1, FS_Subset
  <2>. QED
    BY <2>2, FS_CardinalityType
<1>. DEFINE P == {n \in Nat : \A s \in SUBSET K : Cardinality(s) = n => iter[s] = total[s]}
<1>9. 0 \in P
  <2>1. \A s \in SUBSET K : Cardinality(s) = 0 => s = {}
    BY <1>8, FS_EmptySet
  <2>. QED
    BY <1>4, <1>7, <2>1
<1>10. ASSUME NEW n \in Nat, n \in P PROVE n + 1 \in P
  <2>. SUFFICES ASSUME NEW s \in SUBSET K, Cardinality(s) = n + 1
                PROVE  iter[s] = total[s]
    OBVIOUS
  <2>1. s # {}
    <3>1. n + 1 # 0
      OBVIOUS
    <3>. QED
      BY <3>1, FS_EmptySet
  <2>. DEFINE r == s \ {pick(s)}
  <2>2. pick(s) \in s /\ r \in SUBSET K
    BY <1>2, <2>1
  <2>3. Cardinality(r) = n
    <3>1. Cardinality(r) = Cardinality(s) - 1
      BY <1>8, <2>2, FS_RemoveElement
    <3>. QED
      BY <3>1
  <2>4. iter[r] = total[r]
    BY <1>10, <2>2, <2>3
  <2>. QED
    BY <1>3, <1>7, <2>1, <2>4
<1>11. Cardinality(K) \in P
  <2>1. Cardinality(K) \in Nat
    BY <1>8
  <2>. HIDE DEF P
  <2>. QED
    BY <1>9, <1>10, <2>1, Induction
<1>12. iter[K] = total[K]
  BY <1>11
<1>. QED
  BY <1>1, <1>12 DEF total

\* What a volume is, one trade at a time.
LEMMA Volumes ==
    ASSUME NEW ts \in Seq(Deals)
    PROVE  /\ Volume(ts, {}) = 0
           /\ \A K \in SUBSET (1..Len(ts)) :
                 /\ Volume(ts, K) \in Nat
                 /\ \A k \in (1..Len(ts)) \ K :
                       Volume(ts, K \cup {k}) = Volume(ts, K) + ts[k].tick.quantity
<1>1. Volume(ts, {}) = 0
  <2>1. {} \in SUBSET (1..Len(ts))
    OBVIOUS
  <2>. QED
    BY <2>1, VolumeIsSum, SumOfNone
<1>2. ASSUME NEW K \in SUBSET (1..Len(ts))
      PROVE  Volume(ts, K) \in Nat
  <2>1. Len(ts) \in 0..Len(ts)
    BY Fields
  <2>2. Sums(ts, K)[Len(ts)] \in Nat
    BY <2>1, SumsRounds
  <2>. QED
    BY <2>2, VolumeIsSum
<1>3. ASSUME NEW K \in SUBSET (1..Len(ts)), NEW k \in (1..Len(ts)) \ K
      PROVE  Volume(ts, K \cup {k}) = Volume(ts, K) + ts[k].tick.quantity
  <2>. DEFINE L == K \cup {k}
  <2>1. L \in SUBSET (1..Len(ts)) /\ k \in L /\ L \ {k} = K
    OBVIOUS
  <2>. HIDE DEF L
  <2>2. Sums(ts, L)[Len(ts)] = ts[k].tick.quantity + Sums(ts, K)[Len(ts)]
    BY <2>1, SumWithout
  <2>3. Volume(ts, L) = Sums(ts, L)[Len(ts)] /\ Volume(ts, K) = Sums(ts, K)[Len(ts)]
    BY <2>1, VolumeIsSum
  <2>4. ts[k].tick.quantity \in Nat /\ Volume(ts, K) \in Nat
    BY <1>2, Fields
  <2>. QED
    BY <2>2, <2>3, <2>4 DEF L
<1>. QED
  BY <1>1, <1>2, <1>3

-----------------------------------------------------------------------------
(* The volume exit *)

LoopStates ==
    [phase : {"benchmark", "watch", "exit"}, benchmark : Nat, volume : Nat,
     check : Nat, exit : Nat]

LoopFirst(ts) ==
    [phase |-> "benchmark", benchmark |-> ts[1].tick.quantity, volume |-> 0,
     check |-> ts[1].time + CheckEvery, exit |-> 0]

LoopStep(ts, ties, k, before) ==
    CASE before.phase = "benchmark" /\ ~EndsInterval(ts[k].time, before.check) ->
            [before EXCEPT !.benchmark = @ + ts[k].tick.quantity]
      [] before.phase = "benchmark" /\ EndsInterval(ts[k].time, before.check) ->
            [before EXCEPT !.phase = "watch", !.check = @ + CheckEvery]
      [] before.phase = "watch" /\ ~EndsInterval(ts[k].time, before.check) ->
            [before EXCEPT !.volume = @ + ts[k].tick.quantity]
      [] before.phase = "watch" /\ EndsInterval(ts[k].time, before.check) ->
            IF Dried(before.volume, before.benchmark, before.check \in ties)
            THEN [before EXCEPT !.phase = "exit", !.exit = k]
            ELSE [before EXCEPT !.volume = ts[k].tick.quantity, !.check = @ + CheckEvery]
      [] before.phase = "exit" -> before

\* What a round does, case by case.
LEMMA LoopCases ==
    ASSUME NEW ts \in Seq(Deals), NEW ties, NEW k \in 1..Len(ts), NEW b \in LoopStates
    PROVE  LET a == LoopStep(ts, ties, k, b)
               q == ts[k].tick.quantity
               over == ts[k].time >= b.check
           IN /\ a \in LoopStates
              /\ b.phase = "benchmark" /\ ~over =>
                    /\ a.phase = "benchmark" /\ a.benchmark = b.benchmark + q
                    /\ a.volume = b.volume /\ a.check = b.check /\ a.exit = b.exit
              /\ b.phase = "benchmark" /\ over =>
                    /\ a.phase = "watch" /\ a.benchmark = b.benchmark
                    /\ a.volume = b.volume /\ a.check = b.check + CheckEvery
                    /\ a.exit = b.exit
              /\ b.phase = "watch" /\ ~over =>
                    /\ a.phase = "watch" /\ a.benchmark = b.benchmark
                    /\ a.volume = b.volume + q /\ a.check = b.check /\ a.exit = b.exit
              /\ b.phase = "watch" /\ over /\ Dried(b.volume, b.benchmark, b.check \in ties) =>
                    /\ a.phase = "exit" /\ a.exit = k
              /\ b.phase = "watch" /\ over /\ ~Dried(b.volume, b.benchmark, b.check \in ties) =>
                    /\ a.phase = "watch" /\ a.benchmark = b.benchmark
                    /\ a.volume = q /\ a.check = b.check + CheckEvery /\ a.exit = b.exit
              /\ b.phase = "exit" => a = b
<1>1. /\ k \in Nat /\ ts[k].time \in Nat /\ ts[k].tick.quantity \in Nat
      /\ CheckEvery \in Nat
  BY Fields, ExitAssumption
<1>2. /\ b.phase \in {"benchmark", "watch", "exit"} /\ b.benchmark \in Nat
      /\ b.volume \in Nat /\ b.check \in Nat /\ b.exit \in Nat
  BY DEF LoopStates
<1>. DEFINE q == ts[k].tick.quantity
            over == ts[k].time >= b.check
<1>3. CASE b.phase = "benchmark" /\ ~over
  <2>1. LoopStep(ts, ties, k, b) = [b EXCEPT !.benchmark = b.benchmark + q]
    BY <1>3 DEF LoopStep, EndsInterval
  <2>. QED
    BY <1>1, <1>2, <1>3, <2>1 DEF LoopStates
<1>4. CASE b.phase = "benchmark" /\ over
  <2>1. LoopStep(ts, ties, k, b) = [b EXCEPT !.phase = "watch", !.check = b.check + CheckEvery]
    BY <1>4 DEF LoopStep, EndsInterval
  <2>. DEFINE a == LoopStep(ts, ties, k, b)
  <2>2. a \in LoopStates
    <3>. DEFINE c == b.check + CheckEvery
    <3>1. c \in Nat /\ a = [b EXCEPT !.phase = "watch", !.check = c]
      BY <1>1, <1>2, <2>1
    <3>. HIDE DEF c, a
    <3>. QED
      BY <3>1 DEF LoopStates
  <2>3. /\ a.phase = "watch" /\ a.benchmark = b.benchmark /\ a.volume = b.volume
        /\ a.check = b.check + CheckEvery /\ a.exit = b.exit
    BY <2>1 DEF LoopStates
  <2>. HIDE DEF a, q
  <2>. QED
    BY <1>4, <2>2, <2>3 DEF a
<1>5. CASE b.phase = "watch" /\ ~over
  <2>1. LoopStep(ts, ties, k, b) = [b EXCEPT !.volume = b.volume + q]
    BY <1>5 DEF LoopStep, EndsInterval
  <2>. QED
    BY <1>1, <1>2, <1>5, <2>1 DEF LoopStates
<1>6. CASE b.phase = "watch" /\ over /\ Dried(b.volume, b.benchmark, b.check \in ties)
  <2>1. LoopStep(ts, ties, k, b) = [b EXCEPT !.phase = "exit", !.exit = k]
    BY <1>6 DEF LoopStep, EndsInterval
  <2>. QED
    BY <1>1, <1>2, <1>6, <2>1 DEF LoopStates
<1>7. CASE b.phase = "watch" /\ over /\ ~Dried(b.volume, b.benchmark, b.check \in ties)
  <2>1. LoopStep(ts, ties, k, b) = [b EXCEPT !.volume = q, !.check = b.check + CheckEvery]
    BY <1>7 DEF LoopStep, EndsInterval
  <2>. DEFINE a == LoopStep(ts, ties, k, b)
  <2>2. a \in LoopStates
    <3>. DEFINE c == b.check + CheckEvery
    <3>1. c \in Nat /\ q \in Nat /\ a = [b EXCEPT !.volume = q, !.check = c]
      BY <1>1, <1>2, <2>1
    <3>. HIDE DEF c, q, a
    <3>. QED
      BY <3>1 DEF LoopStates
  <2>3. /\ a.phase = "watch" /\ a.benchmark = b.benchmark /\ a.volume = q
        /\ a.check = b.check + CheckEvery /\ a.exit = b.exit
    BY <1>7, <2>1 DEF LoopStates
  <2>. HIDE DEF a
  <2>. QED
    BY <1>7, <2>2, <2>3 DEF a
<1>8. CASE b.phase = "exit"
  <2>1. LoopStep(ts, ties, k, b) = b
    BY <1>8 DEF LoopStep
  <2>. QED
    BY <1>8, <2>1
<1>. QED
  BY <1>2, <1>3, <1>4, <1>5, <1>6, <1>7, <1>8

\* VolumeLoop is what its rounds say.
LEMMA LoopRounds ==
    ASSUME NEW ts \in Seq(Deals), NEW ties, ts # <<>>
    PROVE  /\ \A k \in 1..Len(ts) : VolumeLoop(ts, ties)[k] \in LoopStates
           /\ VolumeLoop(ts, ties)[1] = LoopFirst(ts)
           /\ \A k \in 2..Len(ts) :
                 VolumeLoop(ts, ties)[k] = LoopStep(ts, ties, k, VolumeLoop(ts, ties)[k - 1])
<1>. DEFINE N == Len(ts)
            F(u) == [k \in DOMAIN ts |->
                        IF k = 1 THEN LoopFirst(ts) ELSE LoopStep(ts, ties, k, u[k - 1])]
            loop == CHOOSE u : u = F(u)
            v == LoopFirst(ts)
            step == [p \in Nat \X LoopStates |->
                        IF p[1] \in 1..N THEN LoopStep(ts, ties, p[1], p[2]) ELSE p[2]]
<1>1. VolumeLoop(ts, ties) = loop
  BY DEF VolumeLoop, LoopFirst, LoopStep
<1>2. N \in Nat \ {0} /\ DOMAIN ts = 1..N /\ 1 \in 1..N
  OBVIOUS
<1>3. v \in LoopStates
  <2>1. ts[1].time + CheckEvery \in Nat /\ ts[1].tick.quantity \in Nat
    BY <1>2, Fields, ExitAssumption
  <2>. QED
    BY <2>1 DEF LoopFirst, LoopStates
<1>4. \A k \in 1..N, b \in LoopStates : LoopStep(ts, ties, k, b) \in LoopStates
  BY LoopCases
<1>. HIDE DEF v, N
<1>5. step \in [Nat \X LoopStates -> LoopStates]
  <2>1. ASSUME NEW p \in Nat \X LoopStates
        PROVE  (IF p[1] \in 1..N THEN LoopStep(ts, ties, p[1], p[2]) ELSE p[2]) \in LoopStates
    BY <1>4
  <2>. QED
    BY <2>1
<1>6. \A k \in 1..N, b \in LoopStates : step[<<k, b>>] = LoopStep(ts, ties, k, b)
  <2>1. \A k \in 1..N : k \in Nat
    BY <1>2
  <2>. QED
    BY <2>1
<1>. HIDE DEF step
<1>7. PICK f \in Chain(LoopStates, v, step, N) : TRUE
  BY <1>2, <1>3, <1>5, Chains
<1>8. /\ f \in [1..N -> LoopStates] /\ f[1] = v
      /\ \A k \in 2..N : f[k] = step[<<k, f[k - 1]>>]
  BY <1>7 DEF Chain
<1>9. f = F(f)
  <2>1. \A k \in 1..N : k = 1 \/ k \in 2..N
    BY <1>2
  <2>2. \A k \in 2..N : k # 1 /\ k \in 1..N /\ k - 1 \in 1..N
    BY <1>2
  <2>3. ASSUME NEW k \in 1..N PROVE f[k] = F(f)[k]
    <3>1. CASE k = 1
      BY <1>2, <1>8, <3>1 DEF v
    <3>2. CASE k \in 2..N
      <4>1. f[k - 1] \in LoopStates /\ f[k] = step[<<k, f[k - 1]>>]
        BY <1>8, <2>2, <3>2
      <4>2. f[k] = LoopStep(ts, ties, k, f[k - 1])
        BY <1>6, <4>1
      <4>. QED
        BY <1>2, <2>2, <3>2, <4>2
    <3>. QED
      BY <2>1, <3>1, <3>2
  <2>4. f = [k \in 1..N |-> f[k]]
    BY <1>8
  <2>. QED
    BY <1>2, <2>3, <2>4
<1>10. loop = F(loop)
  <2>. HIDE DEF F
  <2>. QED
    BY <1>9
<1>. HIDE DEF loop
<1>11. \A k \in 2..N : k \in 1..N /\ k # 1 /\ k - 1 \in 1..N
  BY <1>2
<1>12. loop[1] = v
  BY <1>2, <1>10 DEF v
<1>13. \A k \in 2..N : loop[k] = LoopStep(ts, ties, k, loop[k - 1])
  BY <1>2, <1>10, <1>11
<1>14. \A k \in 1..N : loop[k] \in LoopStates
  <2>. DEFINE P == {n \in Nat : n \in 1..N => loop[n] \in LoopStates}
  <2>1. 0 \in P
    OBVIOUS
  <2>2. ASSUME NEW n \in Nat, n \in P PROVE n + 1 \in P
    <3>. SUFFICES ASSUME n + 1 \in 1..N PROVE loop[n + 1] \in LoopStates
      OBVIOUS
    <3>1. CASE n = 0
      BY <1>3, <1>12, <3>1
    <3>2. CASE n # 0
      <4>1. n \in 1..N /\ n + 1 \in 2..N /\ (n + 1) - 1 = n
        BY <1>2, <3>2
      <4>2. loop[n] \in LoopStates
        BY <2>2, <4>1
      <4>3. loop[n + 1] = LoopStep(ts, ties, n + 1, loop[n])
        BY <1>13, <4>1
      <4>. QED
        BY <1>4, <4>2, <4>3
    <3>. QED
      BY <3>1, <3>2
  <2>3. Nat \subseteq P
    <3>. HIDE DEF P
    <3>. QED
      BY <2>1, <2>2, Induction
  <2>4. \A k \in 1..N : k \in Nat
    BY <1>2
  <2>. QED
    BY <2>3, <2>4
<1>. QED
  BY <1>1, <1>12, <1>13, <1>14 DEF N, v

\* What holds after each round, by induction.
LEMMA LoopInduction ==
    ASSUME NEW n \in Nat, NEW Good,
           1 \in Good, \A k \in 2..n : k - 1 \in Good => k \in Good
    PROVE  \A k \in 1..n : k \in Good
<1>. DEFINE P == {k \in Nat : k \in 1..n => k \in Good}
<1>1. 0 \in P
  OBVIOUS
<1>2. ASSUME NEW k \in Nat, k \in P PROVE k + 1 \in P
  <2>. SUFFICES ASSUME k + 1 \in 1..n PROVE k + 1 \in Good
    OBVIOUS
  <2>1. CASE k = 0
    BY <2>1
  <2>2. CASE k # 0
    <3>1. k \in 1..n /\ k + 1 \in 2..n /\ (k + 1) - 1 = k
      BY <2>2
    <3>. QED
      BY <1>2, <3>1
  <2>. QED
    BY <2>1, <2>2
<1>3. Nat \subseteq P
  <2>. HIDE DEF P
  <2>. QED
    BY <1>1, <1>2, Induction
<1>. QED
  BY <1>3

\* The volume exit waits for two intervals.
LEMMA ExitWaits ==
    ASSUME NEW ts \in Seq(Deals), NEW ties, ts # <<>>, NEW k \in 1..Len(ts)
    PROVE  LET s == VolumeLoop(ts, ties)[k]
               from == ts[1].time
           IN /\ s.phase = "benchmark" => s.check = from + CheckEvery /\ s.exit = 0
              /\ s.phase = "watch" => s.check >= from + 2 * CheckEvery /\ s.exit = 0
              /\ s.phase = "exit" =>
                    s.exit \in 2..k /\ ts[s.exit].time >= from + 2 * CheckEvery
<1>. DEFINE from == ts[1].time
            loop == VolumeLoop(ts, ties)
            N == Len(ts)
            Waits(m) ==
                /\ loop[m].phase = "benchmark" =>
                      loop[m].check = from + CheckEvery /\ loop[m].exit = 0
                /\ loop[m].phase = "watch" =>
                      loop[m].check >= from + 2 * CheckEvery /\ loop[m].exit = 0
                /\ loop[m].phase = "exit" =>
                      /\ loop[m].exit \in 2..m
                      /\ ts[loop[m].exit].time >= from + 2 * CheckEvery
            Good == {m \in 1..N : Waits(m)}
<1>1. /\ N \in Nat /\ 1 \in 1..N /\ from \in Nat /\ CheckEvery \in Nat
      /\ \A m \in 1..N : ts[m].time \in Nat
  BY Fields, ExitAssumption
<1>2. /\ \A m \in 1..N : loop[m] \in LoopStates
      /\ loop[1] = LoopFirst(ts)
      /\ \A m \in 2..N : loop[m] = LoopStep(ts, ties, m, loop[m - 1])
  BY LoopRounds
<1>. HIDE DEF loop
<1>3. 1 \in Good
  <2>1. /\ loop[1].phase = "benchmark" /\ loop[1].check = from + CheckEvery
        /\ loop[1].exit = 0
    BY <1>2 DEF LoopFirst
  <2>. QED
    BY <1>1, <2>1
<1>4. ASSUME NEW m \in 2..N, m - 1 \in Good PROVE m \in Good
  <2>. DEFINE b == loop[m - 1]
              a == loop[m]
  <2>1. m \in 1..N /\ m - 1 \in 1..N /\ m \in Nat /\ Waits(m - 1)
    BY <1>1, <1>4
  <2>2. /\ b \in LoopStates /\ a = LoopStep(ts, ties, m, b)
    BY <1>2, <2>1
  <2>3. /\ b.phase \in {"benchmark", "watch", "exit"} /\ b.check \in Nat
        /\ ts[m].time \in Nat
    BY <1>1, <2>1, <2>2 DEF LoopStates
  <2>. HIDE DEF a, b
  <2>4. CASE b.phase = "benchmark"
    <3>1. b.check = from + CheckEvery /\ b.exit = 0
      BY <2>1, <2>4 DEF b
    <3>2. \/ a.phase = "benchmark" /\ a.check = b.check /\ a.exit = b.exit
          \/ a.phase = "watch" /\ a.check = b.check + CheckEvery /\ a.exit = b.exit
      BY <2>1, <2>2, <2>4, LoopCases
    <3>3. b.check + CheckEvery >= from + 2 * CheckEvery
      BY <1>1, <3>1
    <3>. QED
      BY <2>1, <3>1, <3>2, <3>3 DEF a
  <2>5. CASE b.phase = "watch"
    <3>1. b.check >= from + 2 * CheckEvery /\ b.exit = 0
      BY <2>1, <2>5 DEF b
    <3>2. \/ a.phase = "watch" /\ a.check = b.check /\ a.exit = b.exit
          \/ a.phase = "watch" /\ a.check = b.check + CheckEvery /\ a.exit = b.exit
          \/ a.phase = "exit" /\ a.exit = m /\ ts[m].time >= b.check
      BY <2>1, <2>2, <2>5, LoopCases
    <3>3. b.check + CheckEvery >= from + 2 * CheckEvery
      BY <1>1, <2>3, <3>1
    <3>4. ts[m].time >= b.check => ts[m].time >= from + 2 * CheckEvery
      BY <1>1, <2>3, <3>1
    <3>5. m \in 2..m
      BY <2>1
    <3>. QED
      BY <2>1, <3>1, <3>2, <3>3, <3>4, <3>5 DEF a
  <2>6. CASE b.phase = "exit"
    <3>1. a = b
      BY <2>1, <2>2, <2>6, LoopCases
    <3>2. b.exit \in 2..m - 1 /\ ts[b.exit].time >= from + 2 * CheckEvery
      BY <2>1, <2>6 DEF b
    <3>3. b.exit \in 2..m
      BY <2>1, <3>2
    <3>. QED
      BY <2>1, <2>6, <3>1, <3>2, <3>3 DEF a
  <2>. QED
    BY <2>3, <2>4, <2>5, <2>6
<1>5. k \in Good
  <2>. HIDE DEF Good
  <2>. QED
    BY <1>1, <1>3, <1>4, LoopInduction
<1>. QED
  BY <1>5 DEF loop

\* A time is n intervals after another if and only if its interval is n or later.
LEMMA Reached ==
    ASSUME NEW a \in Nat, NEW n \in Nat
    PROVE  /\ a \div CheckEvery \in Nat
           /\ a >= n * CheckEvery <=> a \div CheckEvery >= n
<1>. DEFINE d == a \div CheckEvery
<1>1. CheckEvery \in Nat \ {0}
  BY ExitAssumption
<1>2. d \in Nat /\ CheckEvery * d <= a /\ a < CheckEvery * d + CheckEvery
  BY <1>1, SMTT(60)
<1>3. d * CheckEvery = CheckEvery * d /\ (d + 1) * CheckEvery = CheckEvery * d + CheckEvery
  BY <1>1, <1>2
<1>. HIDE DEF d
<1>. DEFINE low == d * CheckEvery
            high == (d + 1) * CheckEvery
            mark == n * CheckEvery
<1>4. low \in Nat /\ high \in Nat /\ mark \in Nat /\ low <= a /\ a < high
  BY <1>1, <1>2, <1>3
<1>5. ASSUME d >= n PROVE mark <= low
  BY <1>1, <1>2, <1>5, Scaled
<1>6. ASSUME ~(d >= n) PROVE high <= mark
  <2>1. d + 1 \in Nat /\ d + 1 <= n
    BY <1>2, <1>6
  <2>. QED
    BY <1>1, <2>1, Scaled
<1>. HIDE DEF low, high, mark
<1>7. a >= mark <=> d >= n
  BY <1>4, <1>5, <1>6
<1>. QED
  BY <1>2, <1>7 DEF d, mark

InOrder(ts) == \A k, l \in 1..Len(ts) : k <= l => ts[k].time <= ts[l].time

\* Intervals do not run backwards, and a trade is in the interval that its time
\* has reached.
LEMMA Intervals ==
    ASSUME NEW ts \in Seq(Deals), ts # <<>>, InOrder(ts)
    PROVE  /\ \A k \in 1..Len(ts) : IntervalOf(ts, k) \in Nat
           /\ IntervalOf(ts, 1) = 0
           /\ \A k, l \in 1..Len(ts) : k <= l => IntervalOf(ts, k) <= IntervalOf(ts, l)
           /\ \A k \in 1..Len(ts), n \in Nat :
                 ts[k].time >= ts[1].time + n * CheckEvery <=> IntervalOf(ts, k) >= n
<1>. DEFINE from == ts[1].time
            N == Len(ts)
            after(k) == ts[k].time - from
            I(k) == IntervalOf(ts, k)
<1>1. /\ N \in Nat /\ 1 \in 1..N /\ CheckEvery \in Nat \ {0} /\ from \in Nat
      /\ \A k \in 1..N : ts[k].time \in Nat /\ 1 <= k
  BY Fields, ExitAssumption
<1>2. \A k \in 1..N : after(k) \in Nat /\ ts[k].time = from + after(k)
  <2>1. \A k \in 1..N : from <= ts[k].time
    BY <1>1 DEF InOrder
  <2>. QED
    BY <1>1, <2>1
<1>3. \A k \in 1..N : I(k) = after(k) \div CheckEvery
  BY DEF IntervalOf
<1>. HIDE DEF after, I
<1>4. \A k \in 1..N : I(k) \in Nat
  BY <1>2, <1>3, Reached
<1>5. ASSUME NEW k \in 1..N, NEW n \in Nat
      PROVE  ts[k].time >= from + n * CheckEvery <=> I(k) >= n
  <2>. DEFINE mark == n * CheckEvery
  <2>1. mark \in Nat
    BY <1>1
  <2>2. after(k) >= mark <=> I(k) >= n
    BY <1>2, <1>3, Reached
  <2>. HIDE DEF mark
  <2>3. ts[k].time >= from + mark <=> after(k) >= mark
    BY <1>1, <1>2, <2>1
  <2>. QED
    BY <2>2, <2>3 DEF mark
<1>6. I(1) = 0
  <2>1. after(1) = 0
    BY <1>1 DEF after
  <2>2. ~(after(1) >= 1 * CheckEvery)
    BY <1>1, <2>1
  <2>3. ~(I(1) >= 1)
    BY <1>1, <1>2, <1>3, <2>2, Reached
  <2>. QED
    BY <1>1, <1>4, <2>3
<1>7. ASSUME NEW k \in 1..N, NEW l \in 1..N, k <= l PROVE I(k) <= I(l)
  <2>. DEFINE mark == I(k) * CheckEvery
  <2>1. mark \in Nat /\ I(k) \in Nat /\ I(k) >= I(k) /\ ts[k].time <= ts[l].time
    BY <1>1, <1>4, <1>7 DEF InOrder
  <2>2. ts[k].time >= from + mark
    BY <1>5, <2>1
  <2>. HIDE DEF mark
  <2>3. ts[l].time >= from + mark
    BY <1>1, <2>1, <2>2
  <2>4. I(l) >= I(k)
    BY <1>5, <2>1, <2>3 DEF mark
  <2>. QED
    BY <1>4, <2>1, <2>4
<1>. QED
  BY <1>4, <1>5, <1>6, <1>7 DEF I

\* Without a gap the interval goes up by one at most.
LEMMA NoJump ==
    ASSUME NEW ts \in Seq(Deals), ts # <<>>, InOrder(ts), Gapless(ts), NEW k \in 2..Len(ts)
    PROVE  IntervalOf(ts, k) <= IntervalOf(ts, k - 1) + 1
<1>. DEFINE N == Len(ts)
            I(l) == IntervalOf(ts, l)
<1>1. /\ \A l \in 1..N : I(l) \in Nat
      /\ \A l, m \in 1..N : l <= m => I(l) <= I(m)
  BY Intervals
<1>2. N \in Nat /\ k \in 1..N /\ k - 1 \in 1..N /\ N \in 1..N /\ k <= N /\ DOMAIN ts = 1..N
  BY Fields
<1>3. \A n \in 0..I(N) : \E l \in 1..N : I(l) = n
  BY <1>2 DEF Gapless
<1>. HIDE DEF I, N
<1>. SUFFICES ASSUME I(k) > I(k - 1) + 1 PROVE FALSE
  BY <1>1, <1>2 DEF I
<1>4. I(k) <= I(N) /\ I(k) \in Nat /\ I(N) \in Nat /\ I(k - 1) \in Nat
  BY <1>1, <1>2
<1>5. I(k - 1) + 1 \in 0..I(N)
  BY <1>4
<1>6. PICK l \in 1..N : I(l) = I(k - 1) + 1
  BY <1>3, <1>5
<1>7. CASE l <= k - 1
  BY <1>1, <1>2, <1>4, <1>6, <1>7
<1>8. CASE k <= l
  BY <1>1, <1>2, <1>4, <1>6, <1>8
<1>. QED
  BY <1>2, <1>7, <1>8

\* The counted trades of interval n up to trade k.
CountedSoFar(ts, n, k) == {j \in Counted(ts, n) : j <= k}

Dry(ts, ties, n) ==
    Dried(Volume(ts, Counted(ts, n)), Volume(ts, Counted(ts, 0)),
          ts[1].time + (n + 1) * CheckEvery \in ties)

\* How the counted trades grow.  The one that opens interval 1 is left out.
LEMMA CountedGrows ==
    ASSUME NEW ts \in Seq(Deals), ts # <<>>, InOrder(ts), NEW k \in 2..Len(ts)
    PROVE  LET before == IntervalOf(ts, k - 1)
               n == IntervalOf(ts, k)
           IN /\ n = before => /\ k \notin CountedSoFar(ts, n, k - 1)
                               /\ CountedSoFar(ts, n, k) = CountedSoFar(ts, n, k - 1) \cup {k}
              /\ n > before => /\ CountedSoFar(ts, before, k - 1) = Counted(ts, before)
                               /\ n = 1 => CountedSoFar(ts, n, k) = {}
                               /\ n # 1 => CountedSoFar(ts, n, k) = {k}
<1>. DEFINE N == Len(ts)
            I(l) == IntervalOf(ts, l)
            Inside(n) == {l \in 1..N : I(l) = n}
            n == I(k)
            before == I(k - 1)
<1>1. /\ \A l \in 1..N : I(l) \in Nat
      /\ \A l, m \in 1..N : l <= m => I(l) <= I(m)
  BY Intervals
<1>2. N \in Nat /\ k \in 1..N /\ k - 1 \in 1..N /\ k \in Nat /\ DOMAIN ts = 1..N
  BY Fields
<1>3. \A m \in Nat : Counted(ts, m) = IF m = 1 THEN Inside(m) \ {First(Inside(m))} ELSE Inside(m)
  BY <1>2 DEF Counted
<1>. HIDE DEF I, N
<1>4. \A m \in Nat : Inside(m) \in SUBSET (Nat \ {0}) /\ Inside(m) \subseteq 1..N
  BY <1>2
<1>5. \A m \in Nat : /\ First(Inside(m)) \in Nat
                     /\ Inside(m) # {} => /\ First(Inside(m)) \in Inside(m)
                                          /\ \A l \in Inside(m) : First(Inside(m)) <= l
  BY <1>4, FirstPlace
<1>6. \A l \in 1..N, m \in Nat : l \in Inside(m) <=> I(l) = m
  OBVIOUS
<1>. HIDE DEF Inside
<1>7. n \in Nat /\ before \in Nat /\ k \in Inside(n) /\ k - 1 \in Inside(before)
  BY <1>1, <1>2, <1>6
<1>. DEFINE C(m) == Counted(ts, m)
            Z(m, l) == CountedSoFar(ts, m, l)
<1>8. \A m, l \in Nat : \A j : j \in Z(m, l) <=> j \in C(m) /\ j <= l
  BY DEF CountedSoFar
<1>9. \A m \in Nat : C(m) \subseteq Inside(m) /\ (m # 1 => C(m) = Inside(m))
  BY <1>3
<1>10. \A j \in C(1) : j # First(Inside(1))
  BY <1>3
<1>11. \A j \in Inside(1) : j # First(Inside(1)) => j \in C(1)
  BY <1>3
<1>. HIDE DEF C, Z, n, before
<1>12. ASSUME n = before
       PROVE  k \notin Z(n, k - 1) /\ Z(n, k) = Z(n, k - 1) \cup {k}
  <2>1. k - 1 \in Nat /\ ~(k <= k - 1)
    BY <1>2
  <2>2. k \notin Z(n, k - 1)
    BY <1>7, <1>8, <2>1
  <2>3. k \in C(n)
    <3>1. CASE n = 1
      <4>1. k - 1 \in Inside(1) /\ First(Inside(1)) <= k - 1 /\ First(Inside(1)) \in Nat
        BY <1>5, <1>7, <1>12, <3>1
      <4>2. k # First(Inside(1))
        BY <1>2, <4>1
      <4>. QED
        BY <1>7, <1>11, <3>1, <4>2
    <3>2. CASE n # 1
      BY <1>7, <1>9, <3>2
    <3>. QED
      BY <3>1, <3>2
  <2>4. ASSUME NEW j PROVE j \in Z(n, k) <=> j \in Z(n, k - 1) \/ j = k
    <3>1. ASSUME j \in C(n) PROVE j <= k <=> j <= k - 1 \/ j = k
      <4>1. j \in 1..N
        BY <1>4, <1>7, <1>9, <3>1
      <4>. QED
        BY <1>2, <4>1
    <3>2. k <= k
      BY <1>2
    <3>. QED
      BY <1>2, <1>7, <1>8, <2>1, <2>3, <3>1, <3>2
  <2>. QED
    BY <2>2, <2>4
<1>13. ASSUME n > before
       PROVE  /\ Z(before, k - 1) = C(before)
              /\ n = 1 => Z(n, k) = {}
              /\ n # 1 => Z(n, k) = {k}
  <2>1. k - 1 \in Nat
    BY <1>2
  <2>2. ASSUME NEW j \in 1..N
        PROVE  /\ j \in Inside(before) => j <= k - 1
               /\ j \in Inside(n) /\ j <= k => j = k
               /\ j \in Inside(n) => k <= j
    <3>1. j <= k - 1 \/ k <= j
      BY <1>2
    <3>2. j <= k - 1 => I(j) <= before /\ I(j) \in Nat
      BY <1>1, <1>2 DEF before
    <3>3. k <= j => n <= I(j) /\ I(j) \in Nat
      BY <1>1, <1>2 DEF n
    <3>4. j \in Inside(before) => I(j) = before
      BY <1>6, <1>7
    <3>5. j \in Inside(n) => I(j) = n
      BY <1>6, <1>7
    <3>6. k <= j /\ j <= k => j = k
      BY <1>2
    <3>. QED
      BY <1>7, <1>13, <3>1, <3>2, <3>3, <3>4, <3>5, <3>6
  <2>3. \A j : j \in Z(before, k - 1) <=> j \in C(before)
    <3>1. \A j \in C(before) : j <= k - 1
      BY <1>4, <1>7, <1>9, <2>2
    <3>. QED
      BY <1>7, <1>8, <2>1, <3>1
  <2>4. \A j \in Z(n, k) : j = k
    BY <1>2, <1>4, <1>7, <1>8, <1>9, <2>2
  <2>5. ASSUME n = 1 PROVE k \notin Z(n, k)
    <3>1. First(Inside(1)) = k
      <4>1. First(Inside(1)) \in Inside(1) /\ First(Inside(1)) <= k
        BY <1>5, <1>7, <2>5
      <4>2. First(Inside(1)) \in 1..N
        BY <1>4, <4>1
      <4>. QED
        BY <2>2, <2>5, <4>1, <4>2
    <3>. QED
      BY <1>2, <1>7, <1>8, <1>10, <2>5, <3>1
  <2>6. ASSUME n # 1 PROVE k \in Z(n, k)
    <3>1. k \in C(n) /\ k <= k
      BY <1>2, <1>7, <1>9, <2>6
    <3>. QED
      BY <1>2, <1>7, <1>8, <3>1
  <2>7. Z(before, k - 1) = C(before)
    BY <2>3
  <2>8. n = 1 => Z(n, k) = {}
    BY <2>4, <2>5
  <2>9. n # 1 => Z(n, k) = {k}
    BY <2>4, <2>6
  <2>. QED
    BY <2>7, <2>8, <2>9
<1>. QED
  BY <1>12, <1>13 DEF n, before, Z, C, I

\* What a round of the loop knows: the benchmark is the volume of the first
\* interval, the volume that of the current one, the check its end, and no
\* interval before it was dry.  An exit is the first trade after the first dry
\* interval.
Tracks(ts, ties, k, s) ==
    /\ s.phase = "benchmark" =>
          /\ IntervalOf(ts, k) = 0 /\ s.volume = 0
          /\ s.check = ts[1].time + 1 * CheckEvery
          /\ s.benchmark = Volume(ts, CountedSoFar(ts, 0, k))
    /\ s.phase = "watch" =>
          /\ IntervalOf(ts, k) >= 1
          /\ s.check = ts[1].time + (IntervalOf(ts, k) + 1) * CheckEvery
          /\ s.benchmark = Volume(ts, Counted(ts, 0))
          /\ s.volume = Volume(ts, CountedSoFar(ts, IntervalOf(ts, k), k))
          /\ \A n \in 1..IntervalOf(ts, k) - 1 : ~Dry(ts, ties, n)
    /\ s.phase = "exit" =>
          /\ s.exit \in 2..k
          /\ LET n == IntervalOf(ts, s.exit - 1)
             IN /\ n >= 1 /\ Dry(ts, ties, n) /\ IntervalOf(ts, s.exit) = n + 1
                /\ \A m \in 1..n - 1 : ~Dry(ts, ties, m)

\* A round keeps track.
LEMMA TracksStep ==
    ASSUME NEW ts \in Seq(Deals), NEW ties, ts # <<>>,
           InOrder(ts), Gapless(ts), NEW k \in 2..Len(ts),
           NEW b \in LoopStates, Tracks(ts, ties, k - 1, b)
    PROVE  Tracks(ts, ties, k, LoopStep(ts, ties, k, b))
<1>. DEFINE N == Len(ts)
            I(l) == IntervalOf(ts, l)
            n == I(k)
            was == I(k - 1)
            a == LoopStep(ts, ties, k, b)
            q == ts[k].tick.quantity
            from == ts[1].time
            over == ts[k].time >= b.check
            V(K) == Volume(ts, K)
            Z(m, l) == CountedSoFar(ts, m, l)
            C(m) == Counted(ts, m)
<1>1. /\ N \in Nat /\ k \in 1..N /\ k - 1 \in 1..N /\ k \in Nat
      /\ CheckEvery \in Nat \ {0} /\ from \in Nat
      /\ ts[k].time \in Nat /\ q \in Nat /\ 1 \in 1..N
  BY Fields, ExitAssumption
<1>2. /\ n \in Nat /\ was \in Nat /\ was <= n /\ n <= was + 1
      /\ \A m \in Nat : ts[k].time >= from + m * CheckEvery <=> n >= m
  <2>1. n <= was + 1
    BY NoJump
  <2>2. /\ n \in Nat /\ was \in Nat /\ was <= n
    <3>1. k - 1 <= k
      BY <1>1
    <3>2. /\ \A l \in 1..N : I(l) \in Nat
          /\ \A l, m \in 1..N : l <= m => I(l) <= I(m)
      BY Intervals
    <3>. HIDE DEF I, N
    <3>. QED
      BY <1>1, <3>1, <3>2
  <2>3. \A m \in Nat : ts[k].time >= from + m * CheckEvery <=> n >= m
    <3>1. \A l \in 1..N, m \in Nat : ts[l].time >= from + m * CheckEvery <=> I(l) >= m
      BY Intervals
    <3>. HIDE DEF I, N
    <3>. QED
      BY <1>1, <3>1
  <2>. QED
    BY <2>1, <2>2, <2>3
<1>3. /\ n = was => k \notin Z(n, k - 1) /\ Z(n, k) = Z(n, k - 1) \cup {k}
      /\ n > was => /\ Z(was, k - 1) = C(was)
                    /\ n = 1 => Z(n, k) = {}
                    /\ n # 1 => Z(n, k) = {k}
  BY CountedGrows
<1>4. /\ V({}) = 0
      /\ \A K \in SUBSET (1..N) :
            /\ V(K) \in Nat
            /\ \A l \in (1..N) \ K : V(K \cup {l}) = V(K) + ts[l].tick.quantity
  BY Volumes
<1>5. \A m, l : Z(m, l) \in SUBSET (1..N)
  BY <1>1 DEF CountedSoFar, Counted
<1>6. n = was => V(Z(n, k)) = V(Z(n, k - 1)) + q
  BY <1>1, <1>3, <1>4, <1>5
<1>7. V({k}) = q
  <2>1. {} \in SUBSET (1..N) /\ {} \cup {k} = {k} /\ k \in (1..N) \ {}
    BY <1>1
  <2>2. V({} \cup {k}) = V({}) + q
    BY <1>4, <2>1
  <2>. QED
    BY <1>1, <1>4, <2>1, <2>2
<1>8. /\ b.phase \in {"benchmark", "watch", "exit"}
      /\ b.check \in Nat /\ b.volume \in Nat /\ b.benchmark \in Nat
  BY DEF LoopStates
<1>9. /\ b.phase = "benchmark" =>
            /\ was = 0 /\ b.volume = 0 /\ b.check = from + 1 * CheckEvery
            /\ b.benchmark = V(Z(0, k - 1))
      /\ b.phase = "watch" =>
            /\ was >= 1 /\ b.check = from + (was + 1) * CheckEvery
            /\ b.benchmark = V(C(0)) /\ b.volume = V(Z(was, k - 1))
            /\ \A m \in 1..was - 1 : ~Dry(ts, ties, m)
      /\ b.phase = "exit" =>
            /\ b.exit \in 2..k - 1
            /\ LET m == I(b.exit - 1)
               IN /\ m >= 1 /\ Dry(ts, ties, m) /\ I(b.exit) = m + 1
                  /\ \A j \in 1..m - 1 : ~Dry(ts, ties, j)
  BY DEF Tracks
<1>10. /\ b.phase = "benchmark" /\ ~over =>
             /\ a.phase = "benchmark" /\ a.benchmark = b.benchmark + q
             /\ a.volume = b.volume /\ a.check = b.check
       /\ b.phase = "benchmark" /\ over =>
             /\ a.phase = "watch" /\ a.benchmark = b.benchmark
             /\ a.volume = b.volume /\ a.check = b.check + CheckEvery
       /\ b.phase = "watch" /\ ~over =>
             /\ a.phase = "watch" /\ a.benchmark = b.benchmark
             /\ a.volume = b.volume + q /\ a.check = b.check
       /\ b.phase = "watch" /\ over /\ Dried(b.volume, b.benchmark, b.check \in ties) =>
             a.phase = "exit" /\ a.exit = k
       /\ b.phase = "watch" /\ over /\ ~Dried(b.volume, b.benchmark, b.check \in ties) =>
             /\ a.phase = "watch" /\ a.benchmark = b.benchmark
             /\ a.volume = q /\ a.check = b.check + CheckEvery
       /\ b.phase = "exit" => a = b
  BY <1>1, LoopCases
<1>11. (was + 1) * CheckEvery + CheckEvery = (was + 1 + 1) * CheckEvery
  BY <1>1, <1>2
<1>12. n = was \/ n = was + 1
  BY <1>2
<1>. HIDE DEF I, n, was, a, q, from, over, V, Z, C, N
<1>13. CASE b.phase = "benchmark" /\ ~over
  <2>1. n = 0 /\ was = 0
    BY <1>2, <1>9, <1>12, <1>13 DEF over
  <2>2. a.benchmark = V(Z(0, k))
    BY <1>6, <1>9, <1>10, <1>13, <2>1
  <2>. QED
    BY <1>9, <1>10, <1>13, <2>1, <2>2 DEF Tracks, a, n, from, V, Z, I
<1>14. CASE b.phase = "benchmark" /\ over
  <2>1. n = 1 /\ was = 0 /\ n > was
    BY <1>2, <1>9, <1>12, <1>14 DEF over
  <2>2. a.phase = "watch" /\ a.benchmark = V(C(0)) /\ a.volume = V(Z(n, k))
    BY <1>3, <1>4, <1>9, <1>10, <1>14, <2>1
  <2>3. a.check = from + (n + 1) * CheckEvery
    <3>1. a.check = from + 1 * CheckEvery + CheckEvery
      BY <1>9, <1>10, <1>14
    <3>2. (n + 1) * CheckEvery = 1 * CheckEvery + CheckEvery
      BY <1>1, <2>1
    <3>3. 1 * CheckEvery \in Nat
      BY <1>1
    <3>. QED
      BY <1>1, <3>1, <3>2, <3>3
  <2>4. 1..n - 1 = {} /\ n >= 1
    BY <2>1
  <2>. QED
    BY <2>2, <2>3, <2>4 DEF Tracks, a, n, from, V, Z, C, I
<1>15. CASE b.phase = "watch" /\ ~over
  <2>1. n = was
    BY <1>2, <1>9, <1>12, <1>15 DEF over
  <2>2. /\ a.phase = "watch" /\ a.benchmark = V(C(0)) /\ a.volume = V(Z(n, k))
        /\ a.check = from + (n + 1) * CheckEvery
    BY <1>6, <1>9, <1>10, <1>15, <2>1
  <2>3. n >= 1 /\ \A m \in 1..n - 1 : ~Dry(ts, ties, m)
    BY <1>9, <1>15, <2>1
  <2>. QED
    BY <2>2, <2>3 DEF Tracks, a, n, from, V, Z, C, I
<1>16. CASE b.phase = "watch" /\ over
  <2>1. n = was + 1 /\ was >= 1 /\ n # 1 /\ n > was
    BY <1>2, <1>9, <1>12, <1>16 DEF over
  <2>2. b.benchmark = V(C(0)) /\ b.volume = V(C(was))
    BY <1>3, <1>9, <1>16, <2>1
  <2>3. Dried(b.volume, b.benchmark, b.check \in ties) <=> Dry(ts, ties, was)
    BY <1>9, <1>16, <2>2 DEF Dry, V, C, from
  <2>4. \A m \in 1..was - 1 : ~Dry(ts, ties, m)
    BY <1>9, <1>16
  <2>5. CASE Dry(ts, ties, was)
    <3>1. a.phase = "exit" /\ a.exit = k /\ k \in 2..k
      BY <1>1, <1>10, <1>16, <2>3, <2>5
    <3>. QED
      BY <2>1, <2>4, <2>5, <3>1 DEF Tracks, a, n, was, I
  <2>6. CASE ~Dry(ts, ties, was)
    <3>1. /\ a.phase = "watch" /\ a.benchmark = V(C(0)) /\ a.volume = V(Z(n, k))
          /\ a.check = from + (was + 1) * CheckEvery + CheckEvery
      BY <1>3, <1>7, <1>9, <1>10, <1>16, <2>1, <2>2, <2>3, <2>6
    <3>2. a.check = from + (n + 1) * CheckEvery
      <4>. DEFINE x == (was + 1) * CheckEvery
                  y == (was + 1 + 1) * CheckEvery
      <4>1. x \in Nat /\ y \in Nat /\ x + CheckEvery = y
        BY <1>1, <1>2, <1>11
      <4>2. a.check = from + x + CheckEvery
        BY <3>1
      <4>. HIDE DEF x, y
      <4>3. a.check = from + y
        BY <1>1, <4>1, <4>2
      <4>. QED
        BY <2>1, <4>3 DEF y
    <3>3. \A m \in 1..n - 1 : m \in 1..was - 1 \/ m = was
      BY <1>2, <2>1
    <3>4. n >= 1 /\ \A m \in 1..n - 1 : ~Dry(ts, ties, m)
      BY <1>2, <2>1, <2>4, <2>6, <3>3
    <3>. QED
      BY <3>1, <3>2, <3>4 DEF Tracks, a, n, from, V, Z, C, I
  <2>. QED
    BY <2>5, <2>6
<1>17. CASE b.phase = "exit"
  <2>1. a = b
    BY <1>10, <1>17
  <2>2. b.exit \in 2..k - 1 /\ b.exit \in 2..k
    BY <1>1, <1>9, <1>17
  <2>. QED
    BY <1>9, <1>17, <2>1, <2>2 DEF Tracks, a, I
<1>. QED
  BY <1>8, <1>13, <1>14, <1>15, <1>16, <1>17

\* The loop keeps track in every round.
LEMMA LoopTracks ==
    ASSUME NEW ts \in Seq(Deals), NEW ties, ts # <<>>,
           InOrder(ts), Gapless(ts), NEW k \in 1..Len(ts)
    PROVE  Tracks(ts, ties, k, VolumeLoop(ts, ties)[k])
<1>. DEFINE N == Len(ts)
            loop == VolumeLoop(ts, ties)
            Good == {m \in 1..N : Tracks(ts, ties, m, loop[m])}
<1>1. /\ \A m \in 1..N : loop[m] \in LoopStates
      /\ loop[1] = LoopFirst(ts)
      /\ \A m \in 2..N : loop[m] = LoopStep(ts, ties, m, loop[m - 1])
  BY LoopRounds
<1>2. /\ N \in Nat /\ 1 \in 1..N /\ DOMAIN ts = 1..N
      /\ ts[1].time \in Nat /\ ts[1].tick.quantity \in Nat /\ CheckEvery \in Nat
  BY Fields, ExitAssumption
<1>. HIDE DEF loop
<1>3. 1 \in Good
  <2>1. /\ loop[1].phase = "benchmark" /\ loop[1].volume = 0
        /\ loop[1].check = ts[1].time + 1 * CheckEvery
        /\ loop[1].benchmark = ts[1].tick.quantity
    BY <1>1, <1>2 DEF LoopFirst
  <2>2. IntervalOf(ts, 1) = 0
    BY Intervals
  <2>3. CountedSoFar(ts, 0, 1) = {1}
    <3>1. Counted(ts, 0) = {l \in 1..N : IntervalOf(ts, l) = 0}
      BY <1>2 DEF Counted
    <3>2. \A l \in 1..N : l <= 1 <=> l = 1
      BY <1>2
    <3>. QED
      BY <1>2, <2>2, <3>1, <3>2 DEF CountedSoFar
  <2>4. Volume(ts, {1}) = ts[1].tick.quantity
    <3>1. {} \in SUBSET (1..N) /\ {} \cup {1} = {1} /\ 1 \in (1..N) \ {}
      BY <1>2
    <3>2. Volume(ts, {}) = 0
      BY Volumes
    <3>3. Volume(ts, {} \cup {1}) = Volume(ts, {}) + ts[1].tick.quantity
      BY <3>1, Volumes
    <3>. QED
      BY <1>2, <3>1, <3>2, <3>3
  <2>. QED
    BY <1>2, <2>1, <2>2, <2>3, <2>4 DEF Tracks
<1>4. ASSUME NEW m \in 2..N, m - 1 \in Good PROVE m \in Good
  <2>1. m \in 1..N /\ m - 1 \in 1..N /\ loop[m - 1] \in LoopStates
    BY <1>1, <1>2, <1>4
  <2>2. Tracks(ts, ties, m - 1, loop[m - 1])
    BY <1>4
  <2>3. Tracks(ts, ties, m, LoopStep(ts, ties, m, loop[m - 1]))
    BY <2>1, <2>2, TracksStep
  <2>. QED
    BY <1>1, <2>1, <2>3
<1>5. k \in Good
  <2>. HIDE DEF Good
  <2>. QED
    BY <1>2, <1>3, <1>4, LoopInduction
<1>. QED
  BY <1>5 DEF loop

\* Without a gap the exit is the first trade after a dry interval.
LEMMA VolumeCorrect ==
    ASSUME NEW ts \in Seq(Deals), NEW ties, ts # <<>>, InOrder(ts), Gapless(ts)
    PROVE  VolumeExit(ts, ties) = VolumeReference(ts, ties)
<1>. DEFINE N == Len(ts)
            I(k) == IntervalOf(ts, k)
            s == VolumeLoop(ts, ties)[N]
            dry == {n \in 1..I(N) : Dry(ts, ties, n)}
            After == {k \in 1..N : \E n \in dry : I(k) > n}
<1>1. /\ N \in Nat /\ N \in 1..N /\ DOMAIN ts = 1..N
      /\ \A k \in 1..N : k \in Nat /\ k # 0 /\ k <= N
  BY Fields
<1>2. /\ \A k \in 1..N : I(k) \in Nat
      /\ \A k, l \in 1..N : k <= l => I(k) <= I(l)
  BY Intervals
<1>3. VolumeExit(ts, ties) = s.exit
  BY DEF VolumeExit
<1>4. VolumeReference(ts, ties) = First(After)
  BY <1>1 DEF VolumeReference, Dry
<1>5. /\ s \in LoopStates /\ Tracks(ts, ties, N, s)
      /\ s.phase \in {"benchmark", "watch"} => s.exit = 0
  BY <1>1, LoopRounds, LoopTracks, ExitWaits
<1>6. s.phase \in {"benchmark", "watch", "exit"}
  BY <1>5 DEF LoopStates
<1>7. After \in SUBSET (Nat \ {0})
  BY <1>1
<1>. HIDE DEF s, I, N
<1>8. CASE s.phase = "benchmark"
  <2>1. I(N) = 0
    BY <1>5, <1>8 DEF Tracks, I
  <2>2. dry = {}
    BY <2>1
  <2>3. After = {}
    BY <2>2
  <2>. QED
    BY <1>3, <1>4, <1>5, <1>7, <1>8, <2>3, FirstPlace
<1>9. CASE s.phase = "watch"
  <2>1. \A n \in 1..I(N) - 1 : ~Dry(ts, ties, n)
    BY <1>5, <1>9 DEF Tracks, I
  <2>2. \A n \in dry : n = I(N)
    BY <1>1, <1>2, <2>1
  <2>3. \A k \in 1..N : I(k) <= I(N) /\ I(k) \in Nat /\ I(N) \in Nat
    BY <1>1, <1>2
  <2>4. After = {}
    BY <2>2, <2>3
  <2>. QED
    BY <1>3, <1>4, <1>5, <1>7, <1>9, <2>4, FirstPlace
<1>10. CASE s.phase = "exit"
  <2>. DEFINE e == s.exit
              n == I(e - 1)
  <2>1. /\ e \in 2..N /\ n >= 1 /\ Dry(ts, ties, n) /\ I(e) = n + 1
        /\ \A m \in 1..n - 1 : ~Dry(ts, ties, m)
    BY <1>5, <1>10 DEF Tracks, I
  <2>2. e \in 1..N /\ e - 1 \in 1..N /\ e \in Nat
    BY <1>1, <2>1
  <2>3. n \in Nat /\ I(e) <= I(N) /\ I(N) \in Nat
    BY <1>1, <1>2, <2>2
  <2>. HIDE DEF e, n
  <2>4. n \in dry
    BY <2>1, <2>3
  <2>5. e \in After
    BY <2>1, <2>2, <2>3, <2>4
  <2>6. ASSUME NEW k \in After PROVE e <= k
    <3>1. PICK m \in dry : I(k) > m
      BY <2>6
    <3>2. m \in Nat /\ n <= m
      BY <2>1, <2>3, <3>1
    <3>3. ~(k <= e - 1)
      <4>1. k \in 1..N /\ I(k) \in Nat /\ ~(I(k) <= n)
        BY <1>2, <2>3, <2>6, <3>1, <3>2
      <4>. QED
        BY <1>2, <2>2, <4>1 DEF n
    <3>. QED
      BY <1>1, <2>2, <2>6, <3>3
  <2>. HIDE DEF After
  <2>7. First(After) \in After /\ First(After) \in Nat /\ \A k \in After : First(After) <= k
    BY <1>7, <2>5, FirstPlace
  <2>8. First(After) = e
    BY <2>2, <2>5, <2>6, <2>7
  <2>. QED
    BY <1>3, <1>4, <2>8 DEF e
<1>. QED
  BY <1>6, <1>8, <1>9, <1>10

-----------------------------------------------------------------------------
(* The simulations *)

\* Stopped at its exit or at the end of the range, a simulation has found what
\* its definition finds over all trades of the range, for all prices, stop
\* rates, intervals and cuts into pages and archives, and whichever way the
\* floats of the code round the comparisons that are too close to tell.
THEOREM SimulationsCorrect == Spec => []ResultsMatch
<1>1. ASSUME FeedInv PROVE ResultsMatch
  <2>. DEFINE all == Of(Wanted)
  <2>1. /\ Taken \in Seq(Deals) /\ all \in Seq(Deals) /\ Begins(Taken, all)
        /\ feed = "over" => Taken = all
        /\ InOrder(Taken)
    BY <1>1, TakenBegins DEF InOrder
  <2>. HIDE DEF all
  <2>2. ASSUME NEW ties
        PROVE  Matches(TrailingExit(Taken, ties), TrailingReference(all, ties))
    <3>1. TrailingExit(Taken, ties) = TrailingReference(Taken, ties)
      BY <2>1, TrailingCorrect
    <3>2. TrailingReference(Taken, ties) # 0 =>
             TrailingReference(Taken, ties) = TrailingReference(all, ties)
      BY <2>1, TrailingFinal
    <3>. QED
      BY <2>1, <3>1, <3>2 DEF Matches
  <2>3. ASSUME Taken # <<>>, Gapless(Taken), NEW ties
        PROVE  VolumeExit(Taken, ties) = VolumeReference(Taken, ties)
    BY <2>1, <2>3, VolumeCorrect
  <2>4. ASSUME NEW ties, VolumeExit(Taken, ties) # 0
        PROVE  Taken[VolumeExit(Taken, ties)].time >= Taken[1].time + 2 * CheckEvery
    <3>. DEFINE s == VolumeLoop(Taken, ties)[Len(Taken)]
    <3>1. Taken # <<>> /\ VolumeExit(Taken, ties) = s.exit
      BY <2>4 DEF VolumeExit
    <3>2. Len(Taken) \in 1..Len(Taken)
      BY <2>1, <3>1
    <3>3. s.phase \in {"benchmark", "watch", "exit"}
      BY <2>1, <3>1, <3>2, LoopRounds DEF LoopStates
    <3>4. s.phase # "exit" => s.exit = 0
      BY <2>1, <3>1, <3>2, <3>3, ExitWaits
    <3>5. s.phase = "exit" => Taken[s.exit].time >= Taken[1].time + 2 * CheckEvery
      BY <2>1, <3>1, <3>2, ExitWaits
    <3>. QED
      BY <2>4, <3>1, <3>4, <3>5
  <2>5. feed = "over" => MaximumPrice(Taken) = MaximumReference(all)
    BY <2>1, MaximumCorrect
  <2>. QED
    BY <2>2, <2>3, <2>4, <2>5 DEF ResultsMatch, all
<1>. QED
  BY <1>1, Invariance, PTL
==============================================================================
