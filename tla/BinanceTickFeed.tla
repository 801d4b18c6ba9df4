--------------------------- MODULE BinanceTickFeed ---------------------------
(***************************************************************************)
(* BinanceTickFeed (research/util/binance_tick_feed.py): the trades of a    *)
(* time range, recent ones from the paged REST endpoint while the market    *)
(* goes on trading, older ones from daily archives kept in a cache.         *)
(*                                                                          *)
(* A trade is identified by its place in the history of the exchange.  The  *)
(* feed is a generator: one action asks for one page, or gets or reads one  *)
(* archive, and its consumer may stop it anywhere.                          *)
(***************************************************************************)
EXTENDS Naturals, Sequences, FiniteSetsExt

CONSTANTS
    Ticks,       \* records [price, quantity] that trades may have
    Window,      \* length of a REST window, REST_WINDOW_MS + 1
    Limit,       \* trades in a full page
    History,     \* REST_HISTORY_MS: how far back REST is used
    Day,         \* length of a day
    LastTime,    \* bound: end of the modelled time
    MaxTrades,   \* bound: trades on the exchange
    MaxRuns      \* bound: times the range is read, with one cache

ASSUME FeedAssumption ==
    /\ Window \in Nat \ {0} /\ Limit \in Nat \ {0} /\ Day \in Nat \ {0}
    /\ History \in Nat /\ LastTime \in Nat /\ MaxTrades \in Nat /\ MaxRuns \in Nat

\* Prices and quantities count the steps of the exchange.
ASSUME TickAssumption == Ticks \subseteq [price : Nat, quantity : Nat]

VARIABLES
    now,           \* the clock
    trades,        \* all trades of the exchange: [time, tick]
    feed,          \* what the generator does next
    start, end,    \* the requested range
    window_start,  \* REST: window_start
    next_id,       \* REST: next_trade_id, 0 for None
    date,          \* archive: current_date
    part,          \* the .zip.part file of each day
    cache,         \* the .zip file of each day
    yielded,       \* ids of the trades handed out
    late,          \* history: trades made after the reader had left their window
    cut_short,     \* history: days whose transfer ended early without an error
    runs           \* readings so far

exchange == <<now, trades>>
range == <<start, end>>
files == <<part, cache, cut_short>>
feedVars == <<exchange, feed, range, window_start, next_id, date, files, yielded, late, runs>>

Ids == DOMAIN trades
Days == 0..(LastTime \div Day)
DayOf(time) == time \div Day

FeedTypeOK ==
    /\ now \in 0..LastTime
    /\ trades \in Seq([time : Nat, tick : Ticks]) /\ Len(trades) <= MaxTrades
    /\ \A i \in Ids : trades[i].time <= now
    /\ feed \in {"idle", "page", "archive", "copying", "copied", "read",
                 "over", "failed", "stopped"}
    /\ start \in 0..LastTime /\ end \in 0..LastTime
    /\ window_start \in 0..LastTime + 1
    /\ next_id \in 0..MaxTrades + 1
    /\ date \in 0..LastTime + 1
    /\ part \in [Days -> {"absent", "begun", "whole"}]
    /\ cache \in [Days -> {"absent", "broken", "whole"}]
    /\ yielded \in Seq(Ids)
    /\ late \subseteq Ids
    /\ cut_short \subseteq Days
    /\ runs \in 0..MaxRuns

FeedInit ==
    /\ now = 0 /\ trades = <<>>
    /\ feed = "idle" /\ start = 0 /\ end = 0
    /\ window_start = 0 /\ next_id = 0 /\ date = 0
    /\ part = [d \in Days |-> "absent"] /\ cache = [d \in Days |-> "absent"]
    /\ yielded = <<>> /\ late = {} /\ cut_short = {}
    /\ runs = 0

-----------------------------------------------------------------------------
(* Faulty variants of definitions below; see README, "Mutants". *)

WindowEnd_PastEnd == window_start + Window - 1

PageFull_Exceeds(page) == Cardinality(page) > Limit

FirstStep_Resumes ==
    IF cache[date] # "absent" THEN "read"
    ELSE IF part[date] # "absent" THEN "copied" ELSE "copying"

-----------------------------------------------------------------------------
(* The exchange *)

Trade(tick) ==
    /\ Len(trades) < MaxTrades
    /\ trades' = Append(trades, [time |-> now, tick |-> tick])
    /\ late' = IF feed \in {"page", "over"} /\ now <= end /\ now < window_start
               THEN late \cup {Len(trades) + 1} ELSE late
    /\ UNCHANGED <<now, feed, range, window_start, next_id, date, files, yielded, runs>>

Clock ==
    /\ now < LastTime
    /\ now' = now + 1
    /\ UNCHANGED <<trades, feed, range, window_start, next_id, date, files,
                   yielded, late, runs>>

-----------------------------------------------------------------------------
(* iter_ticks *)

UsesArchive(from) == from + History < now

Open(from, to) ==
    /\ runs < MaxRuns /\ runs' = runs + 1
    /\ start' = from /\ end' = to
    /\ feed' = IF UsesArchive(from) THEN "archive" ELSE "page"
    /\ window_start' = from /\ next_id' = 0 /\ date' = DayOf(from)
    /\ yielded' = <<>> /\ late' = {}
    /\ UNCHANGED <<exchange, files>>

-----------------------------------------------------------------------------
(* _iter_rest_ticks *)

Earlier(a, b) == IF a <= b THEN a ELSE b

WindowEnd == Earlier(window_start + Window - 1, end)

\* The ids in S in ascending order, as a response or an archive lists them.
Ascending(S) ==
    LET upto[n \in 0..Len(trades)] ==
            IF n = 0 THEN <<>>
            ELSE IF n \in S THEN Append(upto[n - 1], n) ELSE upto[n - 1]
    IN upto[Len(trades)]

Matching ==
    IF next_id = 0 THEN {i \in Ids : trades[i].time \in window_start..WindowEnd}
                   ELSE {i \in Ids : i >= next_id}

\* The endpoint answers with the oldest trades that match.
Page == {i \in Matching : Cardinality({j \in Matching : j < i}) < Limit}

\* What the loop over a page takes before it meets a trade past the window.
InWindow(page, last) ==
    {i \in page : \A j \in page : j <= i => trades[j].time <= last}

Fresh(page) == {i \in page : \A k \in DOMAIN yielded : i > yielded[k]}

NextId(page) == Max(page) + 1

PageFull(page) == Cardinality(page) = Limit

FetchPage ==
    /\ feed = "page"
    /\ yielded' = yielded \o Ascending(Fresh(InWindow(Page, WindowEnd)))
    /\ \/ /\ PageFull(Page) /\ InWindow(Page, WindowEnd) = Page
          /\ next_id' = NextId(Page)
          /\ UNCHANGED <<feed, window_start>>
       \/ /\ ~(PageFull(Page) /\ InWindow(Page, WindowEnd) = Page)
          /\ next_id' = 0
          /\ window_start' = WindowEnd + 1
          /\ feed' = IF WindowEnd < end THEN "page" ELSE "over"
    /\ UNCHANGED <<exchange, range, date, files, late, runs>>

-----------------------------------------------------------------------------
(* _iter_archive_ticks and _download_daily_archive *)

FirstStep == IF cache[date] # "absent" THEN "read" ELSE "copying"

NextArchive ==
    /\ feed = "archive"
    /\ feed' = IF date > DayOf(end) THEN "over" ELSE FirstStep
    /\ UNCHANGED <<exchange, range, window_start, next_id, date, files, yielded,
                   late, runs>>

\* An archive appears some time after its day.  The part file is opened for
\* writing, which truncates what an earlier run left.
Copy ==
    /\ feed = "copying" /\ date < DayOf(now)
    /\ feed' = "copied"
    /\ \/ part' = [part EXCEPT ![date] = "whole"] /\ UNCHANGED cut_short
       \/ part' = [part EXCEPT ![date] = "begun"] /\ cut_short' = cut_short \cup {date}
    /\ UNCHANGED <<exchange, range, window_start, next_id, date, cache, yielded,
                   late, runs>>

Rename ==
    /\ feed = "copied"
    /\ cache' = [cache EXCEPT ![date] = IF part[date] = "whole" THEN "whole" ELSE "broken"]
    /\ part' = [part EXCEPT ![date] = "absent"]
    /\ feed' = "read"
    /\ UNCHANGED <<exchange, range, window_start, next_id, date, cut_short,
                   yielded, late, runs>>

\* There is no archive yet, or the transfer raises: the part file is removed.
DownloadRaises ==
    /\ feed = "copying"
    /\ feed' = "failed" /\ part' = [part EXCEPT ![date] = "absent"]
    /\ UNCHANGED <<exchange, range, window_start, next_id, date, cache,
                   cut_short, yielded, late, runs>>

InRange(i) == trades[i].time \in start..end

\* Archives are taken to be well formed: a row that does not parse is skipped.
Read ==
    /\ feed = "read"
    /\ \/ /\ cache[date] = "whole"
          /\ yielded' = yielded \o
                Ascending({i \in Ids : DayOf(trades[i].time) = date /\ InRange(i)})
          /\ date' = date + 1
          /\ feed' = "archive"
       \/ cache[date] = "broken" /\ feed' = "failed" /\ UNCHANGED <<yielded, date>>
    /\ UNCHANGED <<exchange, range, window_start, next_id, files, late, runs>>

-----------------------------------------------------------------------------
\* A request raises.
PageRaises ==
    /\ feed = "page"
    /\ feed' = "failed"
    /\ UNCHANGED <<exchange, range, window_start, next_id, date, files, yielded,
                   late, runs>>

\* The consumer asks for no more, or the process is killed; a part file stays
\* as it is.
Stopped ==
    /\ feed \in {"page", "archive", "copying", "copied", "read"}
    /\ feed' = "stopped"
    /\ \/ UNCHANGED part
       \/ feed = "copying" /\ part' = [part EXCEPT ![date] = "begun"]
    /\ UNCHANGED <<exchange, range, window_start, next_id, date, cache,
                   cut_short, yielded, late, runs>>

\* After the last reading nothing can be told from the market any more.
Market ==
    /\ feed \notin {"over", "failed", "stopped"} \/ runs < MaxRuns
    /\ (\E tick \in Ticks : Trade(tick)) \/ Clock

Fetch == FetchPage \/ NextArchive \/ Copy \/ Rename \/ Read

Break == PageRaises \/ DownloadRaises \/ Stopped

-----------------------------------------------------------------------------
(* Properties *)

Wanted == {i \in Ids : InRange(i)} \ late

\* The feed hands out the trades of the range in order, each once and without a
\* gap, across pages, windows and days, also when trades share a time or go on
\* being made meanwhile.  All it may leave out is a trade made after its
\* window was read: _iter_rest_ticks runs ahead of the clock.
ReadsAll ==
    /\ \A k \in DOMAIN yielded : yielded[k] \in Wanted
    /\ \A k \in 2..Len(yielded) : yielded[k - 1] < yielded[k]
    /\ \A i \in Wanted :
          feed = "over" \/ (\E k \in DOMAIN yielded : i < yielded[k]) => i \in Range(yielded)

\* A file in the cache is a whole archive, whatever transfer failed or was
\* killed, unless a transfer ended early without an error: that one is
\* renamed into place.
CacheComplete == \A d \in Days : cache[d] = "broken" => d \in cut_short
=============================================================================
