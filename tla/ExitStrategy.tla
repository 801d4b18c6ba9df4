----------------------------- MODULE ExitStrategy -----------------------------
(***************************************************************************)
(* The exit simulations of research/util/exit_strategy.py and the maximum   *)
(* of research/util/helper.py, over a sequence of trades                    *)
(* [time, tick |-> [price, quantity]].  An exit is the place of the trade   *)
(* it fills at, 0 when the trades do not reach it; the percentage the code  *)
(* returns follows from that trade and the first.  Rates are in percent.    *)
(*                                                                          *)
(* The code computes in binary floats, the model in whole units of price    *)
(* and quantity.  Rounding can turn a comparison only where the two sides   *)
(* are equal or nearly so: 2 is not <= 10 * (1 - 80/100), and 0.1 + 0.1 +   *)
(* 0.1 is not <= 0.6 * 0.5.  There either answer is allowed, and the exits  *)
(* take a parameter that says which one the floats give.                    *)
(***************************************************************************)
EXTENDS Naturals, Sequences, FiniteSetsExt

CONSTANTS
    StopRate,     \* trailing_stop_percent
    CheckEvery,   \* time_interval_ms
    VolumeDrop,   \* volume_drop_percent
    SumError      \* how far float sums may be off, in hundredths of a unit

ASSUME ExitAssumption ==
    /\ StopRate \in 1..99 /\ VolumeDrop \in 1..99
    /\ CheckEvery \in Nat \ {0}
    /\ SumError \in Nat

First(S) == IF S = {} THEN 0 ELSE Min(S)

-----------------------------------------------------------------------------
(* Faulty variants of definitions below; see README, "Mutants". *)

EndsInterval_Late(time, check) == time > check

-----------------------------------------------------------------------------
\* One product of two floats: for prices of less than 10^11 units only an exact
\* tie depends on its rounding.
Below(price, high, tie) ==
    LET stop == high * (100 - StopRate)
    IN 100 * price < stop \/ (tie /\ 100 * price = stop)

\* calculate_trailing_stop_pnl: the high watermark follows every price.  Of the
\* trades that tie with the stop, those in ties exit.
TrailingExit(ts, ties) ==
    LET high[k \in DOMAIN ts] ==
            IF k = 1 THEN ts[1].tick.price
            ELSE Max({high[k - 1], ts[k].tick.price})
    IN First({k \in DOMAIN ts : k > 1 /\ Below(ts[k].tick.price, high[k], k \in ties)})

EndsInterval(time, check) == time >= check

\* Two float sums: within the error of both either answer is possible.
Dried(volume, benchmark, tie) ==
    LET threshold == benchmark * (100 - VolumeDrop)
    IN \/ 100 * volume + SumError < threshold
       \/ (tie /\ 100 * volume <= threshold + SumError)

\* calculate_volume_exit_pnl.  The trade that ends the first interval is taken
\* from the iterator and counted nowhere.  A check moves on by one interval,
\* however long the market was quiet.  Of the checks, named by their times, that
\* are too close to tell, those in ties exit.
VolumeLoop(ts, ties) ==
    LET loop[k \in DOMAIN ts] ==
            IF k = 1
            THEN [phase |-> "benchmark", benchmark |-> ts[1].tick.quantity, volume |-> 0,
                  check |-> ts[1].time + CheckEvery, exit |-> 0]
            ELSE LET before == loop[k - 1]
                     over == EndsInterval(ts[k].time, before.check)
                     quantity == ts[k].tick.quantity
                 IN CASE before.phase = "benchmark" /\ ~over ->
                            [before EXCEPT !.benchmark = @ + quantity]
                      [] before.phase = "benchmark" /\ over ->
                            [before EXCEPT !.phase = "watch", !.check = @ + CheckEvery]
                      [] before.phase = "watch" /\ ~over ->
                            [before EXCEPT !.volume = @ + quantity]
                      [] before.phase = "watch" /\ over ->
                            IF Dried(before.volume, before.benchmark, before.check \in ties)
                            THEN [before EXCEPT !.phase = "exit", !.exit = k]
                            ELSE [before EXCEPT !.volume = quantity, !.check = @ + CheckEvery]
                      [] before.phase = "exit" -> before
    IN loop

VolumeExit(ts, ties) == IF ts = <<>> THEN 0 ELSE VolumeLoop(ts, ties)[Len(ts)].exit

\* calculate_max_pnl: maximum_price, 0 when there is no trade.
MaximumPrice(ts) ==
    LET maximum[k \in DOMAIN ts] ==
            IF k = 1 THEN ts[1].tick.price ELSE Max({maximum[k - 1], ts[k].tick.price})
    IN IF ts = <<>> THEN 0 ELSE maximum[Len(ts)]

-----------------------------------------------------------------------------
(* Reference definitions *)

\* "fills at the first observed trade at or below the stop threshold", which
\* "follows the highest subsequent trade price" (simulate_trailing_stop).
TrailingReference(ts, ties) ==
    First({k \in DOMAIN ts : \E j \in 1..k - 1 :
              Below(ts[k].tick.price, ts[j].tick.price, k \in ties)})

IntervalOf(ts, k) == (ts[k].time - ts[1].time) \div CheckEvery

\* The times of the checks that the trades reach.
Checks(ts) == {ts[1].time + n * CheckEvery : n \in 2..IntervalOf(ts, Len(ts))}

\* Every interval up to the last trade has a trade.
Gapless(ts) ==
    \A n \in 0..IntervalOf(ts, Len(ts)) : \E k \in DOMAIN ts : IntervalOf(ts, k) = n

Volume(ts, K) == MapThenSumSet(LAMBDA k : ts[k].tick.quantity, K)

\* The trades of interval n that are counted: not the one that ended the first.
Counted(ts, n) ==
    LET inside == {k \in DOMAIN ts : IntervalOf(ts, k) = n}
    IN IF n = 1 THEN inside \ {First(inside)} ELSE inside

\* "Exit position once volume drops under volume_drop_percent from the first
\* time interval" (calculate_volume_exit_pnl): the first trade after an interval
\* whose volume is that low.
VolumeReference(ts, ties) ==
    LET end(n) == ts[1].time + (n + 1) * CheckEvery
        dry == {n \in 1..IntervalOf(ts, Len(ts)) :
                   Dried(Volume(ts, Counted(ts, n)), Volume(ts, Counted(ts, 0)),
                         end(n) \in ties)}
    IN First({k \in DOMAIN ts : \E n \in dry : IntervalOf(ts, k) > n})

MaximumReference(ts) == IF ts = <<>> THEN 0 ELSE Max({ts[k].tick.price : k \in DOMAIN ts})
=============================================================================
