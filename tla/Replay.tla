-------------------------------- MODULE Replay --------------------------------
(***************************************************************************)
(* A replay: simulate_trailing_stop, simulate_volume_exit or                *)
(* calculate_max_pnl drawing trades from a BinanceTickFeed.  The feed is    *)
(* read only as far as the simulation needs, so what it computes must not   *)
(* depend on how the trades were cut into pages, windows and archives.      *)
(***************************************************************************)
EXTENDS BinanceTickFeed, ExitStrategy

vars == feedVars

TypeOK == FeedTypeOK

Init == FeedInit

Begin ==
    /\ feed = "idle"
    /\ \E from \in 0..now, to \in 0..LastTime : from <= to /\ Open(from, to)

\* After a failure or an interruption the same range is read again.
Again ==
    /\ feed \in {"failed", "stopped"}
    /\ Open(start, end)

Next == Market \/ Begin \/ Again \/ Fetch \/ Break

Spec == Init /\ [][Next]_vars

-----------------------------------------------------------------------------
(* Properties *)

\* The trades with the given ids, in order.
Of(ids) ==
    LET places == Ascending(ids)
    IN [k \in DOMAIN places |-> trades[places[k]]]

Taken == Of(Range(yielded))

\* What a simulation has found so far is final; at the end nothing is missing.
Matches(result, reference) == feed = "over" \/ result # 0 => result = reference

\* A simulation that has drawn these trades and stops at its exit finds what
\* its definition finds over all trades of the range on the exchange, although
\* it saw them page by page, or day by day, and whichever way the floats round
\* a comparison that is too close to tell.  The volume exit is compared where
\* no interval is without a trade, since its checks fall behind otherwise; it
\* never comes before two intervals have passed.
ResultsMatch ==
    /\ \A ties \in SUBSET (DOMAIN Taken) :
          Matches(TrailingExit(Taken, ties), TrailingReference(Of(Wanted), ties))
    /\ Taken # <<>> => \A ties \in SUBSET Checks(Taken) :
          LET exit == VolumeExit(Taken, ties)
          IN /\ Gapless(Taken) => exit = VolumeReference(Taken, ties)
             /\ exit # 0 => Taken[exit].time >= Taken[1].time + 2 * CheckEvery
    /\ feed = "over" => MaximumPrice(Taken) = MaximumReference(Of(Wanted))
=============================================================================
