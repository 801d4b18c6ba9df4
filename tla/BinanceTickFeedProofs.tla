------------------------ MODULE BinanceTickFeedProofs ------------------------
(***************************************************************************)
(* The inductive invariant of BinanceTickFeed, for every size of page,      *)
(* window, archive and history, and the lemmas that each of its steps keeps *)
(* it.  A specification with steps of the feed and of its consumer is in    *)
(* Replay; the theorems are in ReplayProofs.                                *)
(*                                                                          *)
(* ReadsAll is not inductive: it needs to know which trades are handed out  *)
(* between two pages (Paging) and between two archives (Archives), that     *)
(* what is traded behind the reader is late (LateOnes), that the reader of  *)
(* archives never gets ahead of the clock (Files), and that ids follow the  *)
(* times (Chronological).                                                   *)
(***************************************************************************)
EXTENDS BinanceTickFeed, FiniteSetTheorems, TLAPS

-----------------------------------------------------------------------------
(* The inductive invariant *)

Increasing(s) == \A k, l \in DOMAIN s : k < l => s[k] < s[l]

Given == Range(yielded)

\* Ids are in the order of the times.
Chronological ==
    /\ start <= end
    /\ \A i, j \in Ids : i <= j => trades[i].time <= trades[j].time

\* What was handed out is wanted, in order, and nothing before it is missing.
Handed ==
    /\ Given \subseteq Wanted
    /\ Increasing(yielded)
    /\ \A i \in Wanted, g \in Given : i < g => i \in Given

\* Between pages the trades before the window, and in it before next_id, are
\* handed out, and no others.
Paging ==
    feed = "page" =>
        /\ start <= window_start /\ window_start <= end
        /\ \A i \in Wanted : i \in Given <=> trades[i].time < window_start \/ i < next_id
        /\ next_id # 0 =>
              /\ next_id - 1 \in Ids
              /\ trades[next_id - 1].time \in window_start..WindowEnd

\* A late trade lies before the window.
LateOnes == \A i \in late : trades[i].time < window_start

ByArchive == {"archive", "copying", "copied", "read"}

\* Between archives the days before date are handed out, and all of them were
\* over by then.
Archives ==
    /\ feed \in ByArchive =>
          /\ start < now /\ late = {}
          /\ date <= DayOf(end) + 1 /\ date <= DayOf(now)
          /\ \A i \in Wanted : i \in Given <=> DayOf(trades[i].time) < date
    /\ feed \in ByArchive \ {"archive"} => date <= DayOf(end)

\* At the end everything wanted is handed out, and what is traded from now on is
\* outside the range, or late.
Finished ==
    feed = "over" =>
        /\ Wanted \subseteq Given
        /\ window_start = end + 1 \/ DayOf(end) < DayOf(now)

\* A whole archive is one of a day that is over; a cache file is broken only
\* where a transfer ended early.
Files ==
    /\ \A d \in Days : cache[d] = "whole" \/ part[d] = "whole" => d < DayOf(now)
    /\ feed = "copied" => part[date] = "whole" \/ date \in cut_short
    /\ feed = "read" => cache[date] # "absent"
    /\ CacheComplete

FeedInv ==
    /\ FeedTypeOK /\ Chronological /\ Handed /\ Paging /\ LateOnes
    /\ Archives /\ Finished /\ Files

-----------------------------------------------------------------------------
(* Lemmas about natural numbers, sets and days *)

\* Induction over the natural numbers, for a set of them.  Among the intervals
\* up to a number outside P one would be the smallest.
LEMMA Induction ==
    ASSUME NEW P, 0 \in P, \A n \in Nat : n \in P => n + 1 \in P
    PROVE  Nat \subseteq P
<1>. SUFFICES ASSUME Nat \ P # {} PROVE FALSE
  OBVIOUS
<1>. DEFINE Intervals == {1..n : n \in Nat \ P}
<1>1. IsWellFoundedOn(StrictSubsetOrdering(Nat), FiniteSubsetsOf(Nat))
  BY FS_StrictSubsetOrderingWellFounded
<1>2. Intervals \subseteq FiniteSubsetsOf(Nat) /\ Intervals # {}
  <2>1. \A n \in Nat : 1..n \subseteq Nat /\ IsFiniteSet(1..n)
    BY FS_Interval
  <2>. QED
    BY <2>1 DEF FiniteSubsetsOf
<1>3. PICK x \in Intervals :
          \A y \in Intervals : <<y, x>> \notin StrictSubsetOrdering(Nat)
  BY <1>1, <1>2, WFMin
<1>4. PICK n \in Nat \ P : x = 1..n
  OBVIOUS
<1>5. n # 0 /\ n - 1 \in Nat /\ n - 1 \notin P
  BY (n - 1) + 1 = n
<1>6. <<1..(n - 1), 1..n>> \in StrictSubsetOrdering(Nat)
  <2>1. /\ n \in 1..n /\ n \notin 1..(n - 1)
        /\ 1..(n - 1) \subseteq 1..n /\ 1..n \subseteq Nat
    BY <1>5
  <2>. QED
    BY <2>1 DEF StrictSubsetOrdering
<1>. QED
  BY <1>3, <1>4, <1>5, <1>6

\* The values that start with v and go on by step, for n rounds.
Rounds(V, v, step, n) ==
    {f \in [0..n -> V] :
        f[0] = v /\ \A m \in 1..n : f[m] = step[<<m, f[m - 1]>>]}

\* There are such values.
LEMMA Recursion ==
    ASSUME NEW V, NEW v \in V, NEW step \in [Nat \X V -> V], NEW n \in Nat
    PROVE  Rounds(V, v, step, n) # {}
<1>. DEFINE Good(m, f) == f[0] = v /\ \A k \in 1..m : f[k] = step[<<k, f[k - 1]>>]
            P == {m \in Nat : \E f \in [0..m -> V] : Good(m, f)}
<1>1. 0 \in P
  <2>1. [k \in 0..0 |-> v] \in [0..0 -> V] /\ Good(0, [k \in 0..0 |-> v])
    OBVIOUS
  <2>. QED
    BY <2>1
<1>2. ASSUME NEW m \in Nat, m \in P PROVE m + 1 \in P
  <2>1. PICK f \in [0..m -> V] : Good(m, f)
    BY <1>2
  <2>. DEFINE g == [k \in 0..(m + 1) |-> IF k <= m THEN f[k] ELSE step[<<m + 1, f[m]>>]]
  <2>2. m \in 0..m /\ f[m] \in V /\ <<m + 1, f[m]>> \in Nat \X V
    OBVIOUS
  <2>3. g \in [0..(m + 1) -> V]
    BY <2>2
  <2>4. g[0] = v /\ \A k \in 0..m : g[k] = f[k]
    BY <2>1
  <2>5. ASSUME NEW k \in 1..(m + 1) PROVE g[k] = step[<<k, g[k - 1]>>]
    <3>1. CASE k <= m
      <4>1. k \in 1..m /\ k \in 0..m /\ k - 1 \in 0..m
        BY <3>1
      <4>. QED
        BY <2>1, <2>4, <4>1
    <3>2. CASE k = m + 1
      <4>1. k - 1 = m /\ m \in 0..m /\ k \in 0..(m + 1) /\ ~(k <= m)
        BY <3>2
      <4>. QED
        BY <2>4, <4>1, <3>2
    <3>. QED
      BY <3>1, <3>2
  <2>6. Good(m + 1, g)
    BY <2>4, <2>5
  <2>. HIDE DEF g, Good
  <2>. QED
    BY <2>3, <2>6
<1>3. n \in P
  <2>. HIDE DEF P
  <2>. QED
    BY <1>1, <1>2, Induction
<1>. QED
  BY <1>3 DEF Rounds

\* A set of natural numbers that is not empty has a smallest element.
LEMMA Smallest ==
    ASSUME NEW S \in SUBSET Nat, S # {}
    PROVE  Min(S) \in S /\ \A i \in S : Min(S) <= i
<1>. DEFINE P == {n \in Nat : \A m \in S : m > n}
<1>1. CASE 0 \in S
  <2>1. \A i \in S : 0 <= i
    OBVIOUS
  <2>. QED
    BY <1>1, <2>1 DEF Min
<1>2. CASE 0 \notin S
  <2>1. 0 \in P
    BY <1>2
  <2>2. PICK n \in Nat : n \in P /\ n + 1 \notin P
    <3>1. ~(Nat \subseteq P)
      <4>1. PICK i \in S : TRUE
        OBVIOUS
      <4>2. i \in Nat /\ ~(i > i)
        OBVIOUS
      <4>. QED
        BY <4>2
    <3>. HIDE DEF P
    <3>. QED
      BY <2>1, <3>1, Induction
  <2>3. n + 1 \in S /\ \A i \in S : n + 1 <= i
    BY <2>2
  <2>. QED
    BY <2>3 DEF Min
<1>. QED
  BY <1>1, <1>2

\* A set of natural numbers that is bounded and not empty has a largest element.
LEMMA Largest ==
    ASSUME NEW S \in SUBSET Nat, S # {}, NEW bound \in Nat, \A i \in S : i <= bound
    PROVE  Max(S) \in S /\ \A i \in S : i <= Max(S)
<1>. DEFINE Bounds == {n \in Nat : \A i \in S : i <= n}
<1>1. Bounds \in SUBSET Nat /\ Bounds # {}
  OBVIOUS
<1>2. PICK b \in Bounds : \A n \in Bounds : b <= n
  <2>. HIDE DEF Bounds
  <2>. QED
    BY <1>1, Smallest
<1>3. b \in S
  <2>. SUFFICES ASSUME b \notin S PROVE FALSE
    OBVIOUS
  <2>1. PICK i \in S : TRUE
    OBVIOUS
  <2>2. b # 0 /\ b - 1 \in Nat /\ \A j \in S : j <= b - 1
    BY <2>1
  <2>3. b - 1 \in Bounds
    BY <2>2
  <2>. QED
    BY <1>2, <2>2, <2>3
<1>. QED
  BY <1>3 DEF Max

\* The day of a time, and days do not run backwards.
LEMMA Division ==
    ASSUME NEW a \in Nat
    PROVE  /\ DayOf(a) \in Nat /\ DayOf(a) <= a
           /\ Day * DayOf(a) <= a /\ a < Day * DayOf(a) + Day
<1>1. Day \in Nat \ {0}
  BY FeedAssumption
<1>. QED
  BY <1>1, SMTT(60) DEF DayOf

LEMMA DaysPass ==
    ASSUME NEW a \in Nat, NEW b \in Nat, a <= b
    PROVE  DayOf(a) <= DayOf(b)
<1>. DEFINE p == DayOf(a)
            q == DayOf(b)
<1>1. p \in Nat /\ q \in Nat /\ Day * p <= a /\ b < Day * q + Day
  BY Division
<1>2. Day \in Nat
  BY FeedAssumption
<1>. HIDE DEF p, q
<1>3. ASSUME p > q PROVE FALSE
  <2>1. p - q - 1 \in Nat /\ p = q + 1 + (p - q - 1)
    BY <1>1, <1>3
  <2>2. PICK k \in Nat : p = q + 1 + k
    BY <2>1
  <2>3. Day * p = Day * q + Day + Day * k /\ Day * k \in Nat /\ Day * q \in Nat
    BY <1>1, <1>2, <2>2
  <2>. QED
    BY <1>1, <1>2, <2>3
<1>4. p <= q
  BY <1>1, <1>3
<1>. QED
  BY <1>4 DEF p, q

\* Ascending has one value for each id, and each follows from the one before.
LEMMA Places ==
    ASSUME Len(trades) \in Nat, NEW S
    PROVE  \E f \in [0..Len(trades) -> Seq(Nat)] :
              /\ Ascending(S) = f[Len(trades)] /\ f[0] = <<>>
              /\ \A n \in 1..Len(trades) :
                    f[n] = IF n \in S THEN Append(f[n - 1], n) ELSE f[n - 1]
<1>. DEFINE N == Len(trades)
            F(u) == [n \in 0..N |->
                        IF n = 0 THEN <<>>
                        ELSE IF n \in S THEN Append(u[n - 1], n) ELSE u[n - 1]]
            all == CHOOSE u : u = F(u)
            step == [p \in Nat \X Seq(Nat) |->
                        IF p[1] \in S THEN Append(p[2], p[1]) ELSE p[2]]
<1>1. Ascending(S) = all[N]
  BY DEF Ascending
<1>2. step \in [Nat \X Seq(Nat) -> Seq(Nat)] /\ <<>> \in Seq(Nat)
  OBVIOUS
<1>3. PICK f \in [0..N -> Seq(Nat)] :
          f[0] = <<>> /\ \A n \in 1..N : f[n] = step[<<n, f[n - 1]>>]
  <2>. DEFINE V == Seq(Nat)
              none == <<>>
  <2>1. N \in Nat /\ none \in V /\ step \in [Nat \X V -> V]
    BY <1>2
  <2>. HIDE DEF step, N, V, none
  <2>2. Rounds(V, none, step, N) # {}
    BY <2>1, Recursion
  <2>. QED
    BY <2>2 DEF V, none, Rounds
<1>4. \A n \in 1..N : f[n] = IF n \in S THEN Append(f[n - 1], n) ELSE f[n - 1]
  <2>1. \A n \in 1..N : n \in Nat /\ n - 1 \in 0..N
    OBVIOUS
  <2>. QED
    BY <1>3, <2>1
<1>5. f = F(f)
  <2>1. \A n \in 0..N : n # 0 => n \in 1..N
    OBVIOUS
  <2>2. \A n \in 0..N : f[n] = F(f)[n]
    BY <1>3, <1>4, <2>1
  <2>3. f = [n \in 0..N |-> f[n]]
    OBVIOUS
  <2>. QED
    BY <2>2, <2>3
<1>6. all = F(all)
  <2>. HIDE DEF F
  <2>. QED
    BY <1>5
<1>7. all \in [0..N -> Seq(Nat)]
  <2>. DEFINE P == {n \in Nat : n \in 0..N => all[n] \in Seq(Nat)}
  <2>. HIDE DEF all
  <2>1. 0 \in P
    BY <1>6
  <2>2. ASSUME NEW n \in Nat, n \in P PROVE n + 1 \in P
    <3>. SUFFICES ASSUME n + 1 \in 0..N PROVE all[n + 1] \in Seq(Nat)
      OBVIOUS
    <3>1. n \in 0..N /\ all[n] \in Seq(Nat) /\ n + 1 # 0 /\ (n + 1) - 1 = n
      BY <2>2
    <3>2. all[n + 1] = IF n + 1 \in S THEN Append(all[n], n + 1) ELSE all[n]
      BY <1>6, <3>1
    <3>. QED
      BY <3>1, <3>2
  <2>3. Nat \subseteq P
    <3>. HIDE DEF P
    <3>. QED
      BY <2>1, <2>2, Induction
  <2>4. \A n \in 0..N : all[n] \in Seq(Nat)
    BY <2>3
  <2>5. all = [n \in 0..N |-> all[n]]
    BY <1>6
  <2>. HIDE DEF F, N
  <2>. QED
    BY <2>4, <2>5
<1>8. /\ all[0] = <<>>
      /\ \A n \in 1..N :
            all[n] = IF n \in S THEN Append(all[n - 1], n) ELSE all[n - 1]
  <2>. HIDE DEF all
  <2>1. 0 \in 0..N /\ \A n \in 1..N : n \in 0..N /\ n # 0
    OBVIOUS
  <2>2. \A n \in 0..N : all[n] =
           IF n = 0 THEN <<>>
           ELSE IF n \in S THEN Append(all[n - 1], n) ELSE all[n - 1]
    BY <1>6
  <2>. QED
    BY <2>1, <2>2
<1>. HIDE DEF all
<1>. QED
  BY <1>1, <1>7, <1>8

\* Ascending(S) lists S, each id once, in order.
LEMMA Listing ==
    ASSUME Len(trades) \in Nat, NEW S \in SUBSET (1..Len(trades))
    PROVE  /\ Ascending(S) \in Seq(S)
           /\ Range(Ascending(S)) = S
           /\ Increasing(Ascending(S))
<1>. DEFINE N == Len(trades)
            Good(s, n) == /\ s \in Seq(S \cap 1..n)
                          /\ \A i \in S \cap 1..n : \E k \in DOMAIN s : s[k] = i
                          /\ Increasing(s)
<1>1. PICK f \in [0..N -> Seq(Nat)] :
          /\ Ascending(S) = f[N] /\ f[0] = <<>>
          /\ \A n \in 1..N : f[n] = IF n \in S THEN Append(f[n - 1], n) ELSE f[n - 1]
  BY Places
<1>. DEFINE P == {n \in Nat : n \in 0..N => Good(f[n], n)}
<1>2. 0 \in P
  <2>1. S \cap 1..0 = {} /\ f[0] = <<>> /\ DOMAIN f[0] = {}
    BY <1>1
  <2>2. <<>> \in Seq(S \cap 1..0)
    OBVIOUS
  <2>. QED
    BY <2>1, <2>2 DEF Increasing
<1>3. ASSUME NEW n \in Nat, n \in P PROVE n + 1 \in P
  <2>. SUFFICES ASSUME n + 1 \in 0..N PROVE Good(f[n + 1], n + 1)
    OBVIOUS
  <2>. DEFINE s == f[n]
              A == S \cap 1..n
              B == S \cap 1..(n + 1)
  <2>1. n \in 0..N /\ Good(s, n) /\ n + 1 \in 1..N /\ (n + 1) - 1 = n
    BY <1>3
  <2>2. f[n + 1] = IF n + 1 \in S THEN Append(s, n + 1) ELSE s
    BY <1>1, <2>1
  <2>3. CASE n + 1 \notin S
    <3>1. B = A
      BY <2>1, <2>3
    <3>. QED
      BY <2>1, <2>2, <2>3, <3>1
  <2>4. CASE n + 1 \in S
    <3>. DEFINE t == Append(s, n + 1)
    <3>1. B = A \cup {n + 1} /\ s \in Seq(A) /\ s \in Seq(B) /\ n + 1 \in B
      BY <2>1, <2>4
    <3>. HIDE DEF s, A, B
    <3>2. /\ t \in Seq(B) /\ Len(s) \in Nat /\ Len(t) = Len(s) + 1
          /\ DOMAIN s = 1..Len(s) /\ DOMAIN t = 1..(Len(s) + 1)
          /\ \A k \in DOMAIN s : k \in DOMAIN t /\ t[k] = s[k] /\ s[k] \in A
          /\ t[Len(s) + 1] = n + 1 /\ Len(s) + 1 \in DOMAIN t
      BY <3>1
    <3>3. \A i \in B : \E k \in DOMAIN t : t[k] = i
      BY <2>1, <3>1, <3>2 DEF A
    <3>4. \A i \in A : i < n + 1 /\ i \in Nat
      BY DEF A
    <3>5. Increasing(t)
      <4>. SUFFICES ASSUME NEW k \in DOMAIN t, NEW l \in DOMAIN t, k < l
                    PROVE  t[k] < t[l]
        BY DEF Increasing
      <4>1. k \in DOMAIN s
        BY <3>2
      <4>2. CASE l \in DOMAIN s
        BY <2>1, <3>2, <4>1, <4>2 DEF Increasing
      <4>3. CASE l = Len(s) + 1
        BY <3>2, <3>4, <4>1, <4>3
      <4>. QED
        BY <3>2, <4>2, <4>3
    <3>. QED
      BY <2>2, <2>4, <3>2, <3>3, <3>5 DEF B
  <2>. QED
    BY <2>3, <2>4
<1>4. Good(f[N], N)
  <2>1. Nat \subseteq P
    <3>. HIDE DEF P
    <3>. QED
      BY <1>2, <1>3, Induction
  <2>. QED
    BY <2>1
<1>5. S \cap 1..N = S
  OBVIOUS
<1>. HIDE DEF N
<1>6. f[N] \in Seq(S) /\ Range(f[N]) = S
  BY <1>4, <1>5 DEF Range
<1>. QED
  BY <1>1, <1>4, <1>6 DEF N

\* The oldest Limit members of a set.
Oldest(M) == {i \in M : Cardinality({j \in M : j < i}) < Limit}

\* A member older than one of the oldest is one of them; the oldest are fewer than
\* Limit only if there are no others; and when they are Limit, one is the last.
LEMMA OldestOnes ==
    ASSUME NEW bound \in Nat, NEW M \in SUBSET (1..bound)
    PROVE  /\ \A i \in Oldest(M), j \in M : j <= i => j \in Oldest(M)
           /\ Oldest(M) # M => Cardinality(Oldest(M)) = Limit
           /\ Cardinality(Oldest(M)) = Limit =>
                 /\ Max(Oldest(M)) \in Oldest(M)
                 /\ \A i \in Oldest(M) : i <= Max(Oldest(M))
<1>. DEFINE P == Oldest(M)
            Before(i) == {j \in M : j < i}
<1>1. /\ M \subseteq Nat /\ IsFiniteSet(M) /\ Limit \in Nat \ {0}
      /\ \A i \in M : i <= bound
  <2>1. M \subseteq Nat /\ \A i \in M : i <= bound
    OBVIOUS
  <2>2. IsFiniteSet(M)
    <3>1. IsFiniteSet(1..bound)
      BY FS_Interval
    <3>. QED
      BY <3>1, FS_Subset
  <2>. QED
    BY <2>1, <2>2, FeedAssumption
<1>2. \A S \in SUBSET M : IsFiniteSet(S) /\ Cardinality(S) \in Nat
  BY <1>1, FS_Subset, FS_CardinalityType
<1>3. \A i \in M : Before(i) \subseteq M
  OBVIOUS
<1>9. P \in SUBSET M /\ \A i \in M : i \in P <=> Cardinality(Before(i)) < Limit
  BY DEF Oldest
<1>10. \A i \in M : \A j : j \in Before(i) <=> j \in M /\ j < i
  OBVIOUS
<1>. HIDE DEF Before, P
<1>4. ASSUME NEW i \in P, NEW j \in M, j <= i PROVE j \in P
  <2>1. Before(j) \in SUBSET Before(i) /\ i \in M
    <3>1. i \in M /\ i \in Nat /\ j \in Nat
      BY <1>1, <1>9
    <3>2. ASSUME NEW k \in Before(j) PROVE k \in Before(i)
      <4>1. k \in M /\ k < j /\ k \in Nat
        BY <1>1, <1>10, <3>2
      <4>. QED
        BY <1>4, <1>10, <3>1, <4>1
    <3>. QED
      BY <3>1, <3>2
  <2>2. Cardinality(Before(j)) <= Cardinality(Before(i))
    BY <1>2, <1>3, <2>1, FS_Subset
  <2>3. /\ Cardinality(Before(i)) < Limit
        /\ Cardinality(Before(i)) \in Nat /\ Cardinality(Before(j)) \in Nat
    BY <1>2, <1>3, <1>9, <2>1
  <2>. QED
    BY <1>1, <1>9, <2>2, <2>3
<1>5. P \in SUBSET M /\ IsFiniteSet(P) /\ Cardinality(P) \in Nat
  BY <1>2, <1>9
<1>6. ASSUME P # {} PROVE Max(P) \in P /\ \A i \in P : i <= Max(P)
  BY <1>1, <1>5, <1>6, Largest
<1>7. Cardinality(P) = Limit => P # {}
  BY <1>1, FS_EmptySet
<1>8. ASSUME P # M PROVE Cardinality(P) = Limit
  <2>. DEFINE i == Min(M \ P)
  <2>1. i \in M \ P /\ \A j \in M \ P : i <= j
    BY <1>1, <1>5, <1>8, Smallest
  <2>. HIDE DEF i
  <2>2. Before(i) = P
    <3>1. ASSUME NEW j \in Before(i) PROVE j \in P
      <4>1. j \in M /\ j < i /\ j \in Nat /\ i \in Nat
        BY <1>1, <1>10, <2>1, <3>1
      <4>. QED
        BY <2>1, <4>1
    <3>2. ASSUME NEW j \in P PROVE j \in Before(i)
      <4>1. ~(i <= j)
        BY <1>4, <2>1
      <4>. QED
        BY <1>1, <1>5, <1>10, <2>1, <4>1
    <3>. QED
      BY <3>1, <3>2
  <2>3. Limit <= Cardinality(P)
    <3>1. ~(Cardinality(Before(i)) < Limit)
      BY <1>9, <2>1
    <3>. QED
      BY <1>1, <1>5, <2>2, <3>1
  <2>4. Max(P) \in P /\ \A j \in P : j <= Max(P)
    <3>1. Cardinality(P) # 0
      BY <1>1, <1>5, <2>3
    <3>. QED
      BY <1>6, <3>1, FS_EmptySet
  <2>. DEFINE m == Max(P)
  <2>. HIDE DEF m
  <2>5. P = Before(m) \cup {m} /\ Cardinality(Before(m)) < Limit
    <3>1. ASSUME NEW j \in Before(m) PROVE j \in P
      <4>1. m \in M /\ m \in P /\ m \in Nat
        BY <1>1, <1>9, <2>4 DEF m
      <4>2. j \in M /\ j < m /\ j \in Nat
        BY <1>1, <1>10, <3>1, <4>1
      <4>. QED
        BY <1>4, <4>1, <4>2
    <3>2. ASSUME NEW j \in P PROVE j \in Before(m) \cup {m}
      <4>1. j <= m /\ j \in Nat /\ m \in Nat /\ j \in M
        BY <1>1, <1>5, <2>4 DEF m
      <4>. QED
        BY <1>9, <1>10, <2>4, <4>1 DEF m
    <3>3. Cardinality(Before(m)) < Limit
      BY <1>9, <2>4 DEF m
    <3>. QED
      BY <2>4, <3>1, <3>2, <3>3 DEF m
  <2>6. Cardinality(P) = Cardinality(Before(m)) + 1
    <3>1. m \notin Before(m) /\ IsFiniteSet(Before(m))
      <4>1. m \in M /\ m \in Nat
        BY <1>1, <1>9, <2>4 DEF m
      <4>. QED
        BY <1>2, <1>3, <1>10, <4>1
    <3>. QED
      BY <2>5, <3>1, FS_AddElement
  <2>7. Cardinality(Before(m)) \in Nat
    BY <1>2, <1>3, <2>4, <1>9 DEF m
  <2>. QED
    BY <1>1, <1>5, <2>3, <2>5, <2>6, <2>7
<1>. QED
  BY <1>4, <1>6, <1>7, <1>8 DEF P

-----------------------------------------------------------------------------
(* Handing out *)

\* What the variables range over, as far as the proofs need it.
LEMMA Types ==
    ASSUME FeedTypeOK
    PROVE  /\ Len(trades) \in Nat /\ Ids = 1..Len(trades)
           /\ \A i \in Ids : i \in Nat /\ trades[i].time \in Nat /\ trades[i].time <= now
           /\ now \in Nat /\ start \in Nat /\ end \in Nat
           /\ window_start \in Nat /\ next_id \in Nat /\ date \in Nat
           /\ Given \subseteq Ids /\ Wanted \subseteq Ids
<1>1. /\ trades \in Seq([time : Nat, tick : Ticks]) /\ yielded \in Seq(Ids)
      /\ \A i \in Ids : trades[i].time <= now
  BY DEF FeedTypeOK
<1>2. Len(trades) \in Nat /\ Ids = 1..Len(trades)
  BY <1>1 DEF Ids
<1>. DEFINE T == [time : Nat, tick : Ticks]
<1>3. \A i \in 1..Len(trades) : i \in Nat /\ trades[i] \in T
  <2>1. trades \in Seq(T)
    BY <1>1
  <2>. HIDE DEF T
  <2>. QED
    BY <2>1
<1>4. \A i \in Ids : i \in Nat /\ trades[i].time \in Nat
  BY <1>2, <1>3
<1>5. /\ now \in Nat /\ start \in Nat /\ end \in Nat
      /\ window_start \in Nat /\ next_id \in Nat /\ date \in Nat
  BY FeedAssumption DEF FeedTypeOK
<1>6. Given \subseteq Ids /\ Wanted \subseteq Ids
  BY <1>1 DEF Given, Range, Wanted
<1>. QED
  BY <1>1, <1>2, <1>4, <1>5, <1>6

\* A reading goes on with trades that come after those it handed out.
LEMMA Extending ==
    ASSUME FeedTypeOK, Increasing(yielded), NEW S \in SUBSET Ids,
           \A g \in Given, i \in S : g < i
    PROVE  /\ yielded \o Ascending(S) \in Seq(Ids)
           /\ Range(yielded \o Ascending(S)) = Given \cup S
           /\ Increasing(yielded \o Ascending(S))
<1>. DEFINE t == Ascending(S)
            s == yielded \o t
<1>1. Len(trades) \in Nat /\ Ids = 1..Len(trades) /\ Ids \subseteq Nat
  BY Types
<1>2. t \in Seq(S) /\ Range(t) = S /\ Increasing(t)
  BY <1>1, Listing
<1>3. yielded \in Seq(Ids) /\ t \in Seq(Ids)
  BY <1>2 DEF FeedTypeOK
<1>. HIDE DEF t
<1>4. /\ s \in Seq(Ids) /\ Len(yielded) \in Nat /\ Len(t) \in Nat
      /\ DOMAIN yielded = 1..Len(yielded) /\ DOMAIN t = 1..Len(t)
      /\ DOMAIN s = 1..(Len(yielded) + Len(t))
      /\ \A k \in DOMAIN yielded : s[k] = yielded[k]
      /\ \A k \in DOMAIN t : s[Len(yielded) + k] = t[k]
  BY <1>3
<1>. HIDE DEF s
<1>5. /\ \A k \in DOMAIN yielded : yielded[k] \in Given /\ k \in DOMAIN s
      /\ \A k \in DOMAIN t : t[k] \in S /\ Len(yielded) + k \in DOMAIN s
  BY <1>2, <1>4 DEF Given, Range
<1>6. \A k \in DOMAIN s :
         \/ k \in DOMAIN yielded
         \/ /\ k - Len(yielded) \in DOMAIN t
            /\ k = Len(yielded) + (k - Len(yielded))
  BY <1>4
<1>7. Range(s) = Given \cup S
  <2>1. ASSUME NEW i \in Range(s) PROVE i \in Given \cup S
    <3>1. PICK k \in DOMAIN s : i = s[k]
      BY <2>1 DEF Range
    <3>. QED
      BY <1>4, <1>5, <1>6, <3>1
  <2>2. ASSUME NEW i \in Given PROVE i \in Range(s)
    <3>1. PICK k \in DOMAIN yielded : i = yielded[k]
      BY <2>2 DEF Given, Range
    <3>2. k \in DOMAIN s /\ s[k] = i
      BY <1>4, <1>5, <3>1
    <3>. QED
      BY <3>2 DEF Range
  <2>3. ASSUME NEW i \in S PROVE i \in Range(s)
    <3>1. PICK k \in DOMAIN t : i = t[k]
      BY <1>2, <2>3 DEF Range
    <3>2. Len(yielded) + k \in DOMAIN s /\ s[Len(yielded) + k] = i
      BY <1>4, <1>5, <3>1
    <3>. QED
      BY <3>2 DEF Range
  <2>. QED
    BY <2>1, <2>2, <2>3
<1>8. Increasing(s)
  <2>. SUFFICES ASSUME NEW k \in DOMAIN s, NEW l \in DOMAIN s, k < l PROVE s[k] < s[l]
    BY DEF Increasing
  <2>1. CASE l \in DOMAIN yielded
    <3>1. k \in DOMAIN yielded
      BY <1>4, <2>1
    <3>. QED
      BY <1>4, <2>1, <3>1 DEF Increasing
  <2>2. CASE k \in DOMAIN yielded /\ l \notin DOMAIN yielded
    <3>1. s[k] \in Given /\ s[l] \in S
      BY <1>4, <1>5, <1>6, <2>2
    <3>. QED
      BY <3>1
  <2>3. CASE k \notin DOMAIN yielded /\ l \notin DOMAIN yielded
    <3>. DEFINE u == k - Len(yielded)
                v == l - Len(yielded)
    <3>1. /\ u \in DOMAIN t /\ v \in DOMAIN t
          /\ k = Len(yielded) + u /\ l = Len(yielded) + v
      BY <1>6, <2>3
    <3>2. u < v
      BY <1>4
    <3>3. s[k] = t[u] /\ s[l] = t[v]
      BY <1>4, <3>1
    <3>. QED
      BY <1>2, <3>1, <3>2, <3>3 DEF Increasing
  <2>. QED
    BY <2>1, <2>2, <2>3
<1>. QED
  BY <1>4, <1>7, <1>8 DEF s, t

\* Handing out the next wanted trades, without a gap.
LEMMA HandsOut ==
    ASSUME FeedTypeOK, Handed, NEW S \in SUBSET Wanted, S \cap Given = {},
           \A i \in Wanted, j \in S : i < j => i \in Given \cup S,
           UNCHANGED <<trades, start, end, late>>,
           yielded' = yielded \o Ascending(S)
    PROVE  yielded' \in Seq(Ids) /\ Given' = Given \cup S /\ Handed'
<1>1. Ids \subseteq Nat /\ Given \subseteq Ids /\ Wanted \subseteq Ids
  BY Types
<1>2. \A g \in Given, i \in S : g < i
  <2>. SUFFICES ASSUME NEW g \in Given, NEW i \in S, ~(g < i) PROVE FALSE
    OBVIOUS
  <2>1. i < g \/ i = g
    BY <1>1
  <2>. QED
    BY <2>1 DEF Handed
<1>3. Increasing(yielded)
  BY DEF Handed
<1>4. /\ yielded' \in Seq(Ids) /\ Range(yielded') = Given \cup S
      /\ Increasing(yielded')
  BY <1>1, <1>2, <1>3, Extending
<1>5. Given' = Given \cup S
  BY <1>4 DEF Given
<1>6. Wanted' = Wanted
  BY DEF Wanted, Ids, InRange
<1>7. \A i \in Wanted, g \in Given \cup S : i < g => i \in Given \cup S
  BY DEF Handed
<1>8. Given \subseteq Wanted
  BY DEF Handed
<1>9. Increasing(yielded)'
  BY <1>4 DEF Increasing
<1>. QED
  BY <1>4, <1>5, <1>6, <1>7, <1>8, <1>9 DEF Handed

-----------------------------------------------------------------------------
(* The exchange *)

\* A new trade is the last one.  It is wanted only if it is still to come in the
\* reading, since what is made behind the window is late.
LEMMA TradeStep ==
    ASSUME FeedInv, NEW tick \in Ticks, Trade(tick)
    PROVE  FeedInv'
<1>. DEFINE n == Len(trades) + 1
<1>1. /\ Len(trades) \in Nat /\ Ids = 1..Len(trades)
      /\ \A i \in Ids : i \in Nat /\ trades[i].time \in Nat /\ trades[i].time <= now
      /\ now \in Nat /\ start \in Nat /\ end \in Nat
      /\ window_start \in Nat /\ next_id \in Nat /\ date \in Nat
      /\ Given \subseteq Ids /\ Wanted \subseteq Ids
  BY Types DEF FeedInv
<1>2. /\ FeedTypeOK /\ Chronological /\ Handed /\ Paging /\ LateOnes
      /\ Archives /\ Finished /\ Files
  BY DEF FeedInv
<1>3. /\ Len(trades) < MaxTrades
      /\ trades' = Append(trades, [time |-> now, tick |-> tick])
      /\ UNCHANGED <<now, feed, start, end, window_start, next_id, date, part, cache,
                     cut_short, yielded, runs>>
  BY DEF Trade, range, files
<1>4. trades \in Seq([time : Nat, tick : Ticks])
  BY <1>2 DEF FeedTypeOK
<1>5. /\ trades' \in Seq([time : Nat, tick : Ticks]) /\ Len(trades') = n
      /\ \A i \in Ids : trades'[i] = trades[i]
      /\ trades'[n].time = now
  <2>. DEFINE T == [time : Nat, tick : Ticks]
              t == [time |-> now, tick |-> tick]
  <2>1. t \in T /\ t.time = now
    BY <1>1
  <2>2. trades \in Seq(T) /\ trades' = Append(trades, t)
    BY <1>3, <1>4
  <2>. HIDE DEF T, t
  <2>3. /\ trades' \in Seq(T) /\ Len(trades') = n /\ trades'[n] = t
        /\ \A i \in 1..Len(trades) : trades'[i] = trades[i]
    BY <2>1, <2>2
  <2>. QED
    BY <1>1, <2>1, <2>3 DEF T
<1>6. Ids' = Ids \cup {n} /\ n \notin Ids /\ n \in Nat /\ \A i \in Ids : i < n
  BY <1>1, <1>5 DEF Ids
<1>7. /\ late \subseteq Ids /\ late \subseteq late' /\ late' \subseteq late \cup {n}
      /\ n \in late' <=> feed \in {"page", "over"} /\ now <= end /\ now < window_start
  <2>1. late \subseteq Ids
    BY <1>2 DEF FeedTypeOK
  <2>. QED
    BY <1>6, <2>1 DEF Trade
<1>8. \A i \in Ids : i \in Wanted' <=> i \in Wanted
  BY <1>3, <1>5, <1>6, <1>7 DEF Wanted, InRange
<1>9. n \in Wanted' <=> now \in start..end /\ n \notin late'
  BY <1>3, <1>5, <1>6 DEF Wanted, InRange
<1>10. Wanted' \subseteq Ids \cup {n}
  BY <1>6 DEF Wanted
<1>11. Given' = Given
  BY <1>3 DEF Given
<1>12. FeedTypeOK'
  <2>1. late' \subseteq Ids'
    BY <1>6, <1>7
  <2>2. yielded' \in Seq(Ids')
    BY <1>2, <1>3, <1>6 DEF FeedTypeOK
  <2>3. Len(trades') <= MaxTrades
    BY <1>1, <1>3, <1>5, FeedAssumption
  <2>4. \A i \in Ids' : trades'[i].time <= now'
    BY <1>1, <1>3, <1>5, <1>6
  <2>. QED
    BY <1>2, <1>3, <1>5, <2>1, <2>2, <2>3, <2>4 DEF FeedTypeOK
<1>13. Chronological'
  <2>1. \A i, j \in Ids' : i <= j => trades'[i].time <= trades'[j].time
    BY <1>1, <1>2, <1>5, <1>6 DEF Chronological
  <2>. QED
    BY <1>2, <1>3, <2>1 DEF Chronological
<1>14. Handed'
  <2>1. Given \subseteq Wanted' /\ Increasing(yielded)'
    BY <1>1, <1>2, <1>3, <1>8 DEF Handed, Increasing
  <2>2. \A i \in Wanted', g \in Given : i < g => i \in Given
    BY <1>1, <1>2, <1>6, <1>8, <1>10 DEF Handed
  <2>. QED
    BY <1>11, <2>1, <2>2 DEF Handed
<1>15. Paging'
  <2>. SUFFICES ASSUME feed = "page" PROVE Paging'
    BY <1>3 DEF Paging
  <2>1. WindowEnd' = WindowEnd
    BY <1>3 DEF WindowEnd, Earlier
  <2>2. next_id # 0 => /\ next_id - 1 \in Ids
                       /\ trades[next_id - 1].time \in window_start..WindowEnd
    BY <1>2 DEF Paging
  <2>3. next_id # 0 => /\ next_id - 1 \in Ids'
                       /\ trades'[next_id - 1].time \in window_start..WindowEnd
    BY <1>5, <1>6, <2>2
  <2>4. ASSUME NEW i \in Wanted'
        PROVE  i \in Given <=> trades'[i].time < window_start \/ i < next_id
    <3>1. CASE i \in Ids
      BY <1>2, <1>5, <1>8, <3>1 DEF Paging
    <3>2. CASE i = n
      <4>1. now <= end /\ ~(now < window_start) /\ n \notin Given
        BY <1>1, <1>6, <1>7, <1>9, <3>2
      <4>2. ~(n < next_id)
        BY <1>1, <1>6, <2>2
      <4>. QED
        BY <1>5, <3>2, <4>1, <4>2
    <3>. QED
      BY <1>10, <3>1, <3>2
  <2>. QED
    BY <1>2, <1>3, <1>11, <2>1, <2>3, <2>4 DEF Paging
<1>16. LateOnes'
  BY <1>2, <1>3, <1>5, <1>7 DEF LateOnes
<1>17. Archives'
  <2>. SUFFICES ASSUME feed \in ByArchive PROVE Archives'
    BY <1>3 DEF Archives, ByArchive
  <2>1. late' = {}
    BY <1>2, <1>7 DEF Archives, ByArchive
  <2>2. date <= DayOf(now) /\ DayOf(now) \in Nat
    BY <1>1, <1>2, Division DEF Archives
  <2>3. ASSUME NEW i \in Wanted' PROVE i \in Given <=> DayOf(trades'[i].time) < date
    <3>1. CASE i \in Ids
      BY <1>2, <1>5, <1>8, <3>1 DEF Archives
    <3>2. CASE i = n
      BY <1>1, <1>5, <1>6, <2>2, <3>2
    <3>. QED
      BY <1>10, <3>1, <3>2
  <2>. QED
    BY <1>2, <1>3, <1>11, <2>1, <2>2, <2>3 DEF Archives, DayOf
<1>18. Finished'
  <2>. SUFFICES ASSUME feed = "over" PROVE Finished'
    BY <1>3 DEF Finished
  <2>1. window_start = end + 1 \/ DayOf(end) < DayOf(now)
    BY <1>2 DEF Finished
  <2>2. n \notin Wanted'
    <3>. SUFFICES ASSUME now \in start..end, n \notin late' PROVE FALSE
      BY <1>9
    <3>1. window_start # end + 1
      BY <1>1, <1>7
    <3>2. DayOf(now) <= DayOf(end) /\ DayOf(now) \in Nat /\ DayOf(end) \in Nat
      BY <1>1, DaysPass, Division
    <3>. QED
      BY <2>1, <3>1, <3>2
  <2>3. Wanted' \subseteq Given
    BY <1>2, <1>8, <1>10, <2>2 DEF Finished
  <2>. QED
    BY <1>3, <1>11, <2>1, <2>3 DEF Finished, DayOf
<1>19. Files'
  BY <1>2, <1>3 DEF Files, CacheComplete, DayOf, Days
<1>. QED
  BY <1>12, <1>13, <1>14, <1>15, <1>16, <1>17, <1>18, <1>19 DEF FeedInv

\* As time goes on more days are over.
LEMMA ClockStep ==
    ASSUME FeedInv, Clock
    PROVE  FeedInv'
<1>1. /\ \A i \in Ids : trades[i].time \in Nat /\ trades[i].time <= now
      /\ now \in Nat /\ start \in Nat /\ end \in Nat /\ date \in Nat
  BY Types DEF FeedInv
<1>2. /\ FeedTypeOK /\ Chronological /\ Handed /\ Paging /\ LateOnes
      /\ Archives /\ Finished /\ Files
  BY DEF FeedInv
<1>3. /\ now < LastTime /\ now' = now + 1
      /\ UNCHANGED <<trades, feed, start, end, window_start, next_id, date, part, cache,
                     cut_short, yielded, late, runs>>
  BY DEF Clock, range, files
<1>4. /\ DayOf(now) <= DayOf(now') /\ DayOf(now) \in Nat /\ DayOf(now') \in Nat
      /\ DayOf(end) \in Nat
  BY <1>1, <1>3, DaysPass, Division
<1>5. Ids' = Ids /\ Given' = Given /\ Wanted' = Wanted /\ WindowEnd' = WindowEnd
  BY <1>3 DEF Ids, Given, Wanted, InRange, WindowEnd, Earlier
<1>6. FeedTypeOK'
  <2>1. now' \in 0..LastTime /\ \A i \in Ids : trades[i].time <= now'
    BY <1>1, <1>3, FeedAssumption
  <2>. QED
    BY <1>2, <1>3, <1>5, <2>1 DEF FeedTypeOK
<1>7. Chronological' /\ Handed' /\ Paging' /\ LateOnes'
  BY <1>2, <1>3, <1>5 DEF Chronological, Handed, Increasing, Paging, LateOnes
<1>8. Archives'
  BY <1>1, <1>2, <1>3, <1>4, <1>5 DEF Archives, DayOf
<1>9. Finished'
  BY <1>2, <1>3, <1>4, <1>5 DEF Finished, DayOf
<1>10. Files'
  <2>1. \A d \in Days : d \in Nat
    BY DEF Days
  <2>2. \A d \in Days : d < DayOf(now) => d < DayOf(now)'
    BY <1>4, <2>1 DEF DayOf
  <2>. QED
    BY <1>2, <1>3, <2>2 DEF Files, CacheComplete, Days
<1>. QED
  BY <1>6, <1>7, <1>8, <1>9, <1>10 DEF FeedInv

-----------------------------------------------------------------------------
(* Opening a range *)

\* Nothing is handed out yet.  Archives are used only for a start in the past.
LEMMA OpenStep ==
    ASSUME FeedInv, NEW from \in 0..LastTime, NEW to \in 0..LastTime, from <= to,
           Open(from, to)
    PROVE  FeedInv'
<1>1. /\ Len(trades) \in Nat /\ Ids = 1..Len(trades)
      /\ \A i \in Ids : i \in Nat /\ trades[i].time \in Nat
      /\ now \in Nat /\ from \in Nat /\ to \in Nat
  BY Types, FeedAssumption DEF FeedInv
<1>2. FeedTypeOK /\ Chronological /\ Files
  BY DEF FeedInv
<1>3. /\ start' = from /\ end' = to /\ window_start' = from /\ next_id' = 0
      /\ date' = DayOf(from) /\ yielded' = <<>> /\ late' = {}
      /\ UNCHANGED <<now, trades, part, cache, cut_short>>
  BY DEF Open, exchange, files
<1>4. /\ feed' \in {"archive", "page"}
      /\ feed' = "archive" => from + History < now
      /\ runs < MaxRuns /\ runs' = runs + 1
  BY DEF Open, UsesArchive
<1>5. Ids' = Ids /\ Given' = {} /\ Wanted' = {i \in Ids : trades[i].time \in from..to}
  <2>1. Given' = {}
    BY <1>3 DEF Given, Range
  <2>. QED
    BY <1>3, <2>1 DEF Ids, Wanted, InRange
<1>6. FeedTypeOK'
  <2>1. runs' \in 0..MaxRuns
    BY <1>2, <1>4, FeedAssumption DEF FeedTypeOK
  <2>2. window_start' \in 0..LastTime + 1 /\ next_id' \in 0..MaxTrades + 1
    BY <1>1, <1>3, FeedAssumption
  <2>3. date' \in 0..LastTime + 1
    BY <1>1, <1>3, Division, FeedAssumption
  <2>4. yielded' \in Seq(Ids) /\ late' \subseteq Ids
    BY <1>3
  <2>. QED
    BY <1>2, <1>3, <1>4, <1>5, <2>1, <2>2, <2>3, <2>4 DEF FeedTypeOK
<1>7. Chronological' /\ LateOnes'
  BY <1>2, <1>3, <1>5 DEF Chronological, LateOnes
<1>8. Handed'
  BY <1>3, <1>5 DEF Handed, Increasing
<1>9. Paging'
  <2>1. \A i \in Wanted' : ~(trades[i].time < from) /\ ~(i < 0)
    BY <1>1, <1>5
  <2>. QED
    BY <1>1, <1>3, <1>5, <2>1 DEF Paging
<1>10. Archives'
  <2>. SUFFICES ASSUME feed' = "archive" PROVE Archives'
    BY <1>4 DEF Archives, ByArchive
  <2>1. from < now
    BY <1>1, <1>4, FeedAssumption
  <2>2. /\ DayOf(from) <= DayOf(to) /\ DayOf(from) <= DayOf(now)
        /\ DayOf(from) \in Nat /\ DayOf(to) \in Nat
    BY <1>1, <2>1, DaysPass, Division
  <2>3. \A i \in Wanted' : ~(DayOf(trades[i].time) < DayOf(from))
    <3>. SUFFICES ASSUME NEW i \in Wanted' PROVE ~(DayOf(trades[i].time) < DayOf(from))
      OBVIOUS
    <3>1. trades[i].time \in Nat /\ from <= trades[i].time
      BY <1>1, <1>5
    <3>2. DayOf(from) <= DayOf(trades[i].time) /\ DayOf(trades[i].time) \in Nat
      BY <1>1, <3>1, DaysPass, Division
    <3>. QED
      BY <2>2, <3>2
  <2>. QED
    BY <1>3, <1>4, <1>5, <2>1, <2>2, <2>3 DEF Archives, ByArchive, DayOf
<1>11. Finished'
  BY <1>4 DEF Finished
<1>12. Files'
  BY <1>2, <1>3, <1>4 DEF Files, CacheComplete, DayOf, Days
<1>. QED
  BY <1>6, <1>7, <1>8, <1>9, <1>10, <1>11, <1>12 DEF FeedInv

-----------------------------------------------------------------------------
(* Pages *)

\* What the feed takes of a page is wanted and new to it.  Nothing wanted is
\* missing before any of it, and if the page is the last of its window, nothing
\* in the window.
LEMMA PageTaken ==
    ASSUME FeedInv, feed = "page",
           NEW Q, Q = InWindow(Page, WindowEnd)
    PROVE  /\ Fresh(Q) = Q /\ Q \subseteq Page /\ Q \subseteq Wanted /\ Q \cap Given = {}
           /\ \A i \in Q : trades[i].time \in window_start..WindowEnd /\ next_id <= i
           /\ \A i \in Wanted, j \in Q : i < j => i \in Given \cup Q
           /\ \/ PageFull(Page) /\ Q = Page
              \/ \A i \in Wanted : trades[i].time <= WindowEnd => i \in Given \cup Q
           /\ PageFull(Page) => Max(Page) \in Page /\ \A i \in Page : i <= Max(Page)
<1>1. /\ Len(trades) \in Nat /\ Ids = 1..Len(trades)
      /\ \A i \in Ids : i \in Nat /\ trades[i].time \in Nat /\ trades[i].time <= now
      /\ now \in Nat /\ start \in Nat /\ end \in Nat
      /\ window_start \in Nat /\ next_id \in Nat
      /\ Given \subseteq Ids /\ Wanted \subseteq Ids
  BY Types DEF FeedInv
<1>2. Chronological /\ Handed /\ Paging /\ LateOnes
  BY DEF FeedInv
<1>3. /\ start <= window_start /\ window_start <= end
      /\ \A i \in Wanted : i \in Given <=> trades[i].time < window_start \/ i < next_id
      /\ next_id # 0 => /\ next_id - 1 \in Ids
                        /\ trades[next_id - 1].time \in window_start..WindowEnd
  BY <1>2 DEF Paging
<1>4. WindowEnd \in Nat /\ window_start <= WindowEnd /\ WindowEnd <= end
  BY <1>1, <1>3, FeedAssumption DEF WindowEnd, Earlier
<1>5. Matching \subseteq Ids /\ \A i \in Matching : trades[i].time >= window_start /\ next_id <= i
  <2>1. CASE next_id = 0
    BY <1>1, <2>1 DEF Matching
  <2>2. CASE next_id # 0
    <3>1. ASSUME NEW i \in Ids, i >= next_id PROVE trades[i].time >= window_start
      <4>1. next_id - 1 \in Ids /\ next_id - 1 <= i
        BY <1>1, <1>3, <2>2, <3>1
      <4>2. trades[next_id - 1].time <= trades[i].time
        BY <1>2, <4>1 DEF Chronological
      <4>. QED
        BY <1>1, <1>3, <1>4, <2>2, <4>1, <4>2
    <3>. QED
      BY <2>2, <3>1 DEF Matching
  <2>. QED
    BY <2>1, <2>2
<1>6. ASSUME NEW i \in Wanted, i \notin Given, trades[i].time <= WindowEnd
      PROVE  i \in Matching
  BY <1>1, <1>3, <1>4, <1>6 DEF Matching
<1>7. /\ \A i \in Page, j \in Matching : j <= i => j \in Page
      /\ Page # Matching => PageFull(Page)
      /\ PageFull(Page) => Max(Page) \in Page /\ \A i \in Page : i <= Max(Page)
  <2>1. Page = Oldest(Matching)
    BY DEF Page, Oldest
  <2>2. Matching \in SUBSET (1..Len(trades))
    BY <1>1, <1>5
  <2>. HIDE DEF Page, Matching
  <2>. QED
    BY <1>1, <2>1, <2>2, OldestOnes DEF PageFull
<1>8. Page \subseteq Matching
  BY DEF Page
<1>9. /\ Q \subseteq Page
      /\ \A i \in Page : i \in Q <=> \A j \in Page : j <= i => trades[j].time <= WindowEnd
  BY DEF InWindow
<1>10. \A i \in Q : trades[i].time \in window_start..WindowEnd /\ next_id <= i
  BY <1>1, <1>4, <1>5, <1>8, <1>9
<1>11. Q \subseteq Wanted
  <2>. SUFFICES ASSUME NEW i \in Q PROVE i \in Wanted
    OBVIOUS
  <2>1. i \in Ids /\ trades[i].time \in window_start..WindowEnd
    BY <1>5, <1>8, <1>9, <1>10
  <2>2. InRange(i)
    BY <1>1, <1>3, <1>4, <2>1 DEF InRange
  <2>3. i \notin late
    BY <1>1, <1>2, <2>1 DEF LateOnes
  <2>. QED
    BY <2>1, <2>2, <2>3 DEF Wanted
<1>12. Q \cap Given = {}
  <2>. SUFFICES ASSUME NEW i \in Q, i \in Given PROVE FALSE
    OBVIOUS
  <2>1. trades[i].time \in Nat /\ i \in Nat /\ i \in Wanted
    BY <1>1, <1>11
  <2>2. window_start <= trades[i].time /\ next_id <= i
    BY <1>10
  <2>. QED
    BY <1>1, <1>3, <2>1, <2>2
<1>13. ASSUME NEW i \in Wanted, NEW j \in Q, i < j PROVE i \in Given \cup Q
  <2>. SUFFICES ASSUME i \notin Given PROVE i \in Q
    OBVIOUS
  <2>1. trades[i].time <= trades[j].time /\ i \in Nat /\ j \in Nat /\ i <= j
    BY <1>1, <1>2, <1>11, <1>13 DEF Chronological
  <2>2. trades[i].time <= WindowEnd
    BY <1>1, <1>4, <1>10, <1>11, <2>1
  <2>3. i \in Page
    BY <1>6, <1>7, <1>9, <2>1, <2>2
  <2>4. \A k \in Page : k <= i => k <= j
    BY <1>1, <1>5, <1>8, <2>1
  <2>. QED
    BY <1>9, <2>3, <2>4
<1>14. Fresh(Q) = Q
  <2>1. ASSUME NEW i \in Q, NEW k \in DOMAIN yielded PROVE i > yielded[k]
    <3>1. yielded[k] \in Given /\ i \in Wanted /\ i \notin Given
      BY <1>11, <1>12 DEF Given, Range
    <3>2. ~(i < yielded[k]) /\ i # yielded[k]
      BY <1>2, <3>1 DEF Handed
    <3>3. i \in Nat /\ yielded[k] \in Nat
      BY <1>1, <3>1
    <3>. QED
      BY <3>2, <3>3
  <2>. QED
    BY <2>1 DEF Fresh
<1>15. ASSUME ~(PageFull(Page) /\ Q = Page),
              NEW i \in Wanted, trades[i].time <= WindowEnd
       PROVE  i \in Given \cup Q
  <2>. SUFFICES ASSUME i \notin Given PROVE i \in Q
    OBVIOUS
  <2>1. i \in Matching
    BY <1>6, <1>15
  <2>2. \A k \in Page : k <= i => trades[k].time <= WindowEnd
    <3>. SUFFICES ASSUME NEW k \in Page, k <= i PROVE trades[k].time <= WindowEnd
      OBVIOUS
    <3>1. k \in Ids /\ i \in Ids /\ trades[k].time <= trades[i].time
      BY <1>1, <1>2, <1>5, <1>8 DEF Chronological
    <3>. QED
      BY <1>1, <1>4, <1>15, <3>1
  <2>3. i \in Page
    <3>. SUFFICES ASSUME i \notin Page PROVE FALSE
      OBVIOUS
    <3>1. PageFull(Page) /\ Q # Page
      BY <1>7, <1>15, <2>1
    <3>2. PICK p \in Page : p \notin Q
      BY <1>9, <3>1
    <3>3. PICK k \in Page : ~(trades[k].time <= WindowEnd)
      BY <1>9, <3>2
    <3>4. ~(i <= k)
      BY <1>7, <2>1
    <3>5. k <= i
      BY <1>1, <1>5, <1>8, <2>1, <3>4
    <3>. QED
      BY <2>2, <3>3, <3>5
  <2>. QED
    BY <1>9, <2>2, <2>3
<1>. QED
  BY <1>7, <1>9, <1>10, <1>11, <1>12, <1>13, <1>14, <1>15

\* A page moves the feed on behind its last trade, or to the next window.
LEMMA PageStep ==
    ASSUME FeedInv, FetchPage
    PROVE  FeedInv'
<1>. DEFINE Q == InWindow(Page, WindowEnd)
            full == PageFull(Page) /\ Q = Page
<1>1. /\ Len(trades) \in Nat /\ Ids = 1..Len(trades)
      /\ \A i \in Ids : i \in Nat /\ trades[i].time \in Nat /\ trades[i].time <= now
      /\ now \in Nat /\ start \in Nat /\ end \in Nat
      /\ window_start \in Nat /\ next_id \in Nat
      /\ Given \subseteq Ids /\ Wanted \subseteq Ids
  BY Types DEF FeedInv
<1>2. /\ FeedTypeOK /\ Chronological /\ Handed /\ Paging /\ LateOnes /\ Files
  BY DEF FeedInv
<1>3. /\ feed = "page"
      /\ yielded' = yielded \o Ascending(Fresh(Q))
      /\ UNCHANGED <<now, trades, start, end, date, part, cache, cut_short, late, runs>>
  BY DEF FetchPage, exchange, range, files
<1>4. \/ /\ full /\ next_id' = Max(Page) + 1
         /\ UNCHANGED <<feed, window_start>>
      \/ /\ ~full /\ next_id' = 0 /\ window_start' = WindowEnd + 1
         /\ feed' = IF WindowEnd < end THEN "page" ELSE "over"
  BY DEF FetchPage, NextId
<1>5. /\ start <= window_start /\ window_start <= end
      /\ \A i \in Wanted : i \in Given <=> trades[i].time < window_start \/ i < next_id
      /\ next_id # 0 => /\ next_id - 1 \in Ids
                        /\ trades[next_id - 1].time \in window_start..WindowEnd
  BY <1>2, <1>3 DEF Paging
<1>6. WindowEnd \in Nat /\ window_start <= WindowEnd /\ WindowEnd <= end
  BY <1>1, <1>5, FeedAssumption DEF WindowEnd, Earlier
<1>7. /\ Fresh(Q) = Q /\ Q \subseteq Page /\ Q \subseteq Wanted /\ Q \cap Given = {}
      /\ \A i \in Q : trades[i].time \in window_start..WindowEnd /\ next_id <= i
      /\ \A i \in Wanted, j \in Q : i < j => i \in Given \cup Q
      /\ full \/ \A i \in Wanted : trades[i].time <= WindowEnd => i \in Given \cup Q
      /\ PageFull(Page) => Max(Page) \in Page /\ \A i \in Page : i <= Max(Page)
  BY <1>3, PageTaken
<1>. HIDE DEF Q
<1>8. yielded' \in Seq(Ids) /\ Given' = Given \cup Q /\ Handed'
  BY <1>2, <1>3, <1>7, HandsOut
<1>9. Ids' = Ids /\ Wanted' = Wanted
  BY <1>3 DEF Ids, Wanted, InRange
<1>10. full => /\ Max(Page) \in Q /\ Max(Page) \in Ids
               /\ trades[Max(Page)].time \in window_start..WindowEnd
  BY <1>1, <1>7
<1>11. FeedTypeOK'
  <2>1. end <= LastTime /\ LastTime \in Nat /\ Len(trades) <= MaxTrades /\ MaxTrades \in Nat
    BY <1>2, FeedAssumption DEF FeedTypeOK
  <2>2. window_start' \in 0..LastTime + 1
    BY <1>2, <1>4, <1>6, <2>1 DEF FeedTypeOK
  <2>3. next_id' \in 0..MaxTrades + 1
    BY <1>1, <1>4, <1>10, <2>1
  <2>4. feed' \in {"page", "over"}
    BY <1>3, <1>4
  <2>. QED
    BY <1>2, <1>3, <1>8, <1>9, <2>2, <2>3, <2>4 DEF FeedTypeOK
<1>12. Chronological'
  BY <1>2, <1>3, <1>9 DEF Chronological
<1>13. LateOnes'
  <2>1. window_start <= window_start' /\ window_start' \in Nat /\ late \subseteq Ids
    BY <1>1, <1>2, <1>4, <1>6 DEF FeedTypeOK
  <2>2. \A i \in late : trades[i].time < window_start'
    BY <1>1, <1>2, <2>1 DEF LateOnes
  <2>. QED
    BY <1>3, <2>2 DEF LateOnes
<1>14. CASE full
  <2>. DEFINE m == Max(Page)
  <2>1. next_id' = m + 1 /\ feed' = feed /\ window_start' = window_start
    BY <1>4, <1>14
  <2>2. m \in Q /\ m \in Ids /\ trades[m].time \in window_start..WindowEnd /\ m \in Nat
    BY <1>1, <1>10, <1>14
  <2>3. next_id <= m /\ \A i \in Q : i <= m
    BY <1>7, <1>14, <2>2
  <2>. HIDE DEF m
  <2>4. ASSUME NEW i \in Wanted
        PROVE  i \in Given \cup Q <=> trades[i].time < window_start \/ i < m + 1
    <3>1. i \in Nat /\ trades[i].time \in Nat
      BY <1>1
    <3>2. i \in Given => trades[i].time < window_start \/ i < m + 1
      BY <1>1, <1>5, <2>2, <2>3, <3>1
    <3>3. i \in Q => i < m + 1
      BY <2>2, <2>3, <3>1
    <3>4. trades[i].time < window_start => i \in Given
      BY <1>5
    <3>5. i < m + 1 => i = m \/ i < m
      BY <2>2, <3>1
    <3>. QED
      BY <1>7, <2>2, <3>2, <3>3, <3>4, <3>5
  <2>5. WindowEnd' = WindowEnd
    BY <1>3, <2>1 DEF WindowEnd, Earlier
  <2>6. (m + 1) - 1 = m
    BY <2>2
  <2>7. Paging'
    BY <1>3, <1>5, <1>8, <1>9, <2>1, <2>2, <2>4, <2>5, <2>6 DEF Paging
  <2>8. Archives' /\ Finished' /\ Files'
    BY <1>2, <1>3, <2>1 DEF Archives, ByArchive, Finished, Files, CacheComplete, DayOf, Days
  <2>. QED
    BY <1>8, <1>11, <1>12, <1>13, <2>7, <2>8 DEF FeedInv
<1>15. CASE ~full
  <2>1. /\ next_id' = 0 /\ window_start' = WindowEnd + 1
        /\ feed' = IF WindowEnd < end THEN "page" ELSE "over"
    BY <1>4, <1>15
  <2>2. ASSUME NEW i \in Wanted
        PROVE  i \in Given \cup Q <=> trades[i].time < WindowEnd + 1
    <3>1. i \in Ids /\ i \in Nat /\ trades[i].time \in Nat
      BY <1>1
    <3>2. ASSUME i \in Given PROVE trades[i].time < WindowEnd + 1
      <4>1. CASE trades[i].time < window_start
        BY <1>1, <1>6, <3>1, <4>1
      <4>2. CASE i < next_id
        <5>1. next_id - 1 \in Ids /\ i <= next_id - 1
          BY <1>1, <1>5, <3>1, <4>2
        <5>2. trades[i].time <= trades[next_id - 1].time
          BY <1>2, <3>1, <5>1 DEF Chronological
        <5>3. trades[next_id - 1].time <= WindowEnd /\ trades[next_id - 1].time \in Nat
          BY <1>1, <1>5, <3>1, <4>2, <5>1
        <5>. QED
          BY <1>6, <3>1, <5>2, <5>3
      <4>. QED
        BY <1>5, <3>2, <4>1, <4>2
    <3>3. i \in Q => trades[i].time < WindowEnd + 1
      BY <1>1, <1>6, <1>7, <3>1
    <3>4. trades[i].time < WindowEnd + 1 => trades[i].time <= WindowEnd
      BY <1>6, <3>1
    <3>. QED
      BY <1>7, <1>15, <3>2, <3>3, <3>4
  <2>3. Paging'
    <3>. SUFFICES ASSUME feed' = "page" PROVE Paging'
      BY DEF Paging
    <3>1. start <= WindowEnd + 1 /\ WindowEnd + 1 <= end
      BY <1>1, <1>5, <1>6, <2>1
    <3>2. \A i \in Wanted : i \in Given \cup Q <=> trades[i].time < WindowEnd + 1 \/ i < 0
      BY <1>1, <2>2
    <3>. QED
      BY <1>3, <1>8, <1>9, <2>1, <3>1, <3>2 DEF Paging
  <2>4. Finished'
    <3>. SUFFICES ASSUME feed' = "over" PROVE Finished'
      BY DEF Finished
    <3>1. WindowEnd = end
      BY <1>1, <1>6, <2>1
    <3>2. \A i \in Wanted : trades[i].time < WindowEnd + 1
      BY <1>1, <1>6, <3>1 DEF Wanted, InRange
    <3>. QED
      BY <1>3, <1>8, <1>9, <2>1, <2>2, <3>1, <3>2 DEF Finished
  <2>5. Archives' /\ Files'
    BY <1>2, <1>3, <2>1 DEF Archives, ByArchive, Files, CacheComplete, DayOf, Days
  <2>. QED
    BY <1>8, <1>11, <1>12, <1>13, <2>3, <2>4, <2>5 DEF FeedInv
<1>. QED
  BY <1>14, <1>15

-----------------------------------------------------------------------------
(* Archives *)

\* A date of the range is one of the days the files are kept for.
LEMMA DateIsDay ==
    ASSUME FeedInv, date <= DayOf(end)
    PROVE  date \in Days
<1>1. end \in Nat /\ LastTime \in Nat /\ end <= LastTime /\ date \in Nat
  BY Types, FeedAssumption DEF FeedInv, FeedTypeOK
<1>2. /\ DayOf(end) \in Nat /\ DayOf(LastTime) \in Nat
      /\ DayOf(end) <= DayOf(LastTime)
  BY <1>1, Division, DaysPass
<1>. QED
  BY <1>1, <1>2 DEF Days, DayOf

\* The feed is over when the date is past the range.
LEMMA NextArchiveStep ==
    ASSUME FeedInv, NextArchive
    PROVE  FeedInv'
<1>1. /\ \A i \in Ids : trades[i].time \in Nat
      /\ now \in Nat /\ start \in Nat /\ end \in Nat /\ date \in Nat
      /\ Wanted \subseteq Ids
  BY Types DEF FeedInv
<1>2. /\ FeedTypeOK /\ Chronological /\ Handed /\ LateOnes /\ Archives /\ Files
  BY DEF FeedInv
<1>3. /\ feed = "archive"
      /\ UNCHANGED <<now, trades, start, end, window_start, next_id, date, part, cache,
                     cut_short, yielded, late, runs>>
  BY DEF NextArchive, exchange, range, files
<1>4. \/ date > DayOf(end) /\ feed' = "over"
      \/ /\ ~(date > DayOf(end))
         /\ \/ cache[date] # "absent" /\ feed' = "read"
            \/ feed' = "copying"
  BY DEF NextArchive, FirstStep
<1>5. Ids' = Ids /\ Given' = Given /\ Wanted' = Wanted
  BY <1>3 DEF Ids, Given, Wanted, InRange
<1>6. DayOf(end) \in Nat /\ DayOf(now) \in Nat
  BY <1>1, Division
<1>7. /\ start < now /\ late = {} /\ date <= DayOf(end) + 1 /\ date <= DayOf(now)
      /\ \A i \in Wanted : i \in Given <=> DayOf(trades[i].time) < date
  BY <1>2, <1>3 DEF Archives, ByArchive
<1>8. FeedTypeOK'
  BY <1>2, <1>3, <1>4, <1>5 DEF FeedTypeOK
<1>9. Chronological' /\ Handed' /\ LateOnes'
  BY <1>2, <1>3, <1>5 DEF Chronological, Handed, Increasing, LateOnes
<1>10. Paging'
  BY <1>4 DEF Paging
<1>11. Archives'
  <2>1. date > DayOf(end) \/ date <= DayOf(end)
    BY <1>1, <1>6
  <2>. QED
    BY <1>3, <1>4, <1>5, <1>7, <2>1 DEF Archives, ByArchive, DayOf
<1>12. Finished'
  <2>. SUFFICES ASSUME feed' = "over" PROVE Finished'
    BY DEF Finished
  <2>1. date > DayOf(end)
    BY <1>4
  <2>2. DayOf(end) < DayOf(now)
    BY <1>1, <1>6, <1>7, <2>1
  <2>3. ASSUME NEW i \in Wanted PROVE i \in Given
    <3>1. trades[i].time \in Nat /\ trades[i].time <= end
      BY <1>1, <2>3 DEF Wanted, InRange
    <3>2. DayOf(trades[i].time) <= DayOf(end) /\ DayOf(trades[i].time) \in Nat
      BY <1>1, <3>1, DaysPass, Division
    <3>3. DayOf(trades[i].time) < date
      BY <1>1, <1>6, <2>1, <3>2
    <3>. QED
      BY <1>7, <3>3
  <2>. QED
    BY <1>3, <1>5, <2>2, <2>3 DEF Finished, DayOf
<1>13. Files'
  BY <1>2, <1>3, <1>4 DEF Files, CacheComplete, DayOf, Days
<1>. QED
  BY <1>8, <1>9, <1>10, <1>11, <1>12, <1>13 DEF FeedInv

\* Only the archive of a day that is over is copied.
LEMMA CopyStep ==
    ASSUME FeedInv, Copy
    PROVE  FeedInv'
<1>1. FeedTypeOK /\ Chronological /\ Handed /\ LateOnes /\ Archives /\ Files
  BY DEF FeedInv
<1>2. /\ feed = "copying" /\ feed' = "copied" /\ date < DayOf(now)
      /\ UNCHANGED <<now, trades, start, end, window_start, next_id, date, cache,
                     yielded, late, runs>>
  BY DEF Copy, exchange, range
<1>3. date \in Days
  BY <1>1, <1>2, DateIsDay DEF Archives, ByArchive
<1>4. \/ part' = [part EXCEPT ![date] = "whole"] /\ UNCHANGED cut_short
      \/ /\ part' = [part EXCEPT ![date] = "begun"]
         /\ cut_short' = cut_short \cup {date}
  BY DEF Copy
<1>5. part \in [Days -> {"absent", "begun", "whole"}]
  BY <1>1 DEF FeedTypeOK
<1>6. Ids' = Ids /\ Given' = Given /\ Wanted' = Wanted
  BY <1>2 DEF Ids, Given, Wanted, InRange
<1>7. FeedTypeOK'
  BY <1>1, <1>2, <1>3, <1>4, <1>6 DEF FeedTypeOK, Days
<1>8. Chronological' /\ Handed' /\ LateOnes'
  BY <1>1, <1>2, <1>6 DEF Chronological, Handed, Increasing, LateOnes
<1>9. Paging' /\ Finished'
  BY <1>2 DEF Paging, Finished
<1>10. Archives'
  BY <1>1, <1>2, <1>6 DEF Archives, ByArchive, DayOf
<1>11. Files'
  <2>1. \A d \in Days : part'[d] = "whole" => part[d] = "whole" \/ d = date
    BY <1>3, <1>4, <1>5
  <2>2. part'[date] = "whole" \/ date \in cut_short'
    BY <1>3, <1>4, <1>5
  <2>3. cut_short \subseteq cut_short'
    BY <1>4
  <2>. QED
    BY <1>1, <1>2, <2>1, <2>2, <2>3 DEF Files, CacheComplete, DayOf, Days
<1>. QED
  BY <1>7, <1>8, <1>9, <1>10, <1>11 DEF FeedInv

\* A part file that was not written to its end is one whose transfer was cut
\* short, and becomes a broken archive.
LEMMA RenameStep ==
    ASSUME FeedInv, Rename
    PROVE  FeedInv'
<1>1. FeedTypeOK /\ Chronological /\ Handed /\ LateOnes /\ Archives /\ Files
  BY DEF FeedInv
<1>2. /\ feed = "copied" /\ feed' = "read"
      /\ UNCHANGED <<now, trades, start, end, window_start, next_id, date, cut_short,
                     yielded, late, runs>>
  BY DEF Rename, exchange, range
<1>3. date \in Days
  BY <1>1, <1>2, DateIsDay DEF Archives, ByArchive
<1>4. /\ cache' = [cache EXCEPT ![date] =
                      IF part[date] = "whole" THEN "whole" ELSE "broken"]
      /\ part' = [part EXCEPT ![date] = "absent"]
  BY DEF Rename
<1>5. /\ part \in [Days -> {"absent", "begun", "whole"}]
      /\ cache \in [Days -> {"absent", "broken", "whole"}]
  BY <1>1 DEF FeedTypeOK
<1>6. Ids' = Ids /\ Given' = Given /\ Wanted' = Wanted
  BY <1>2 DEF Ids, Given, Wanted, InRange
<1>7. FeedTypeOK'
  BY <1>1, <1>2, <1>3, <1>4, <1>6 DEF FeedTypeOK, Days
<1>8. Chronological' /\ Handed' /\ LateOnes'
  BY <1>1, <1>2, <1>6 DEF Chronological, Handed, Increasing, LateOnes
<1>9. Paging' /\ Finished'
  BY <1>2 DEF Paging, Finished
<1>10. Archives'
  BY <1>1, <1>2, <1>6 DEF Archives, ByArchive, DayOf
<1>11. Files'
  <2>1. part[date] = "whole" \/ date \in cut_short
    BY <1>1, <1>2 DEF Files
  <2>2. \A d \in Days : /\ d # date => cache'[d] = cache[d] /\ part'[d] = part[d]
                        /\ d = date => part'[d] = "absent"
    BY <1>3, <1>4, <1>5
  <2>3. cache'[date] = IF part[date] = "whole" THEN "whole" ELSE "broken"
    BY <1>3, <1>4, <1>5
  <2>4. \A d \in Days : cache'[d] = "whole" \/ part'[d] = "whole" => d < DayOf(now)
    BY <1>1, <2>2, <2>3 DEF Files
  <2>5. \A d \in Days : cache'[d] = "broken" => d \in cut_short
    BY <1>1, <2>1, <2>2, <2>3 DEF Files, CacheComplete
  <2>6. cache'[date] # "absent"
    BY <2>3
  <2>. QED
    BY <1>2, <2>4, <2>5, <2>6 DEF Files, CacheComplete, DayOf, Days
<1>. QED
  BY <1>7, <1>8, <1>9, <1>10, <1>11 DEF FeedInv

\* An archive holds all trades of its day, and they come after those of the
\* days before.
LEMMA ReadStep ==
    ASSUME FeedInv, Read
    PROVE  FeedInv'
<1>. DEFINE D == {i \in Ids : DayOf(trades[i].time) = date /\ InRange(i)}
<1>1. /\ \A i \in Ids : i \in Nat /\ trades[i].time \in Nat
      /\ now \in Nat /\ start \in Nat /\ end \in Nat /\ date \in Nat
      /\ Given \subseteq Ids /\ Wanted \subseteq Ids
  BY Types DEF FeedInv
<1>2. FeedTypeOK /\ Chronological /\ Handed /\ LateOnes /\ Archives /\ Files
  BY DEF FeedInv
<1>3. /\ feed = "read"
      /\ UNCHANGED <<now, trades, start, end, window_start, next_id, part, cache,
                     cut_short, late, runs>>
  BY DEF Read, exchange, range, files
<1>4. \/ /\ cache[date] = "whole" /\ yielded' = yielded \o Ascending(D)
         /\ date' = date + 1 /\ feed' = "archive"
      \/ feed' = "failed" /\ UNCHANGED <<yielded, date>>
  BY DEF Read
<1>5. /\ start < now /\ late = {} /\ date <= DayOf(end) /\ date <= DayOf(now)
      /\ \A i \in Wanted : i \in Given <=> DayOf(trades[i].time) < date
  BY <1>2, <1>3 DEF Archives, ByArchive
<1>6. date \in Days
  BY <1>5, DateIsDay
<1>7. Ids' = Ids /\ Wanted' = Wanted
  BY <1>3 DEF Ids, Wanted, InRange
<1>8. Chronological' /\ LateOnes'
  BY <1>2, <1>3, <1>7 DEF Chronological, LateOnes
<1>9. Paging' /\ Finished'
  BY <1>4 DEF Paging, Finished
<1>10. CASE feed' = "failed" /\ UNCHANGED <<yielded, date>>
  <2>1. Given' = Given
    BY <1>10 DEF Given
  <2>2. FeedTypeOK'
    BY <1>2, <1>3, <1>7, <1>10 DEF FeedTypeOK
  <2>3. Handed'
    BY <1>2, <1>7, <1>10, <2>1 DEF Handed, Increasing
  <2>4. Archives' /\ Files'
    BY <1>2, <1>3, <1>10 DEF Archives, ByArchive, Files, CacheComplete, DayOf, Days
  <2>. QED
    BY <1>8, <1>9, <2>2, <2>3, <2>4 DEF FeedInv
<1>11. CASE /\ cache[date] = "whole" /\ yielded' = yielded \o Ascending(D)
            /\ date' = date + 1 /\ feed' = "archive"
  <2>1. DayOf(end) \in Nat /\ DayOf(now) \in Nat
        /\ \A i \in Ids : DayOf(trades[i].time) \in Nat
    BY <1>1, Division
  <2>2. D = {i \in Wanted : DayOf(trades[i].time) = date}
    BY <1>5 DEF Wanted
  <2>. HIDE DEF D
  <2>3. D \cap Given = {}
    BY <1>1, <1>5, <2>1, <2>2
  <2>4. ASSUME NEW i \in Wanted, NEW j \in D, i < j PROVE i \in Given \cup D
    <3>1. /\ i \in Nat /\ j \in Nat /\ i \in Ids /\ j \in Ids
          /\ trades[i].time \in Nat /\ trades[j].time \in Nat
      BY <1>1, <2>2
    <3>2. trades[i].time <= trades[j].time
      BY <1>2, <2>4, <3>1 DEF Chronological
    <3>3. DayOf(trades[i].time) <= DayOf(trades[j].time) /\ DayOf(trades[j].time) = date
      BY <2>2, <3>1, <3>2, DaysPass
    <3>4. DayOf(trades[i].time) < date \/ DayOf(trades[i].time) = date
      BY <1>1, <2>1, <3>1, <3>3
    <3>. QED
      BY <1>5, <2>2, <3>4
  <2>5. yielded' \in Seq(Ids) /\ Given' = Given \cup D /\ Handed'
    BY <1>2, <1>3, <1>11, <2>2, <2>3, <2>4, HandsOut
  <2>6. FeedTypeOK'
    <3>1. date \in 0..LastTime
      <4>1. LastTime \in Nat /\ DayOf(LastTime) \in Nat /\ DayOf(LastTime) <= LastTime
        BY FeedAssumption, Division
      <4>. QED
        BY <1>6, <4>1 DEF Days, DayOf
    <3>2. date' \in 0..LastTime + 1
      BY <1>11, <3>1, FeedAssumption
    <3>. QED
      BY <1>2, <1>3, <1>7, <1>11, <2>5, <3>2 DEF FeedTypeOK
  <2>7. date < DayOf(now)
    BY <1>2, <1>6, <1>11 DEF Files
  <2>8. Archives'
    <3>1. date + 1 <= DayOf(end) + 1 /\ date + 1 <= DayOf(now)
      BY <1>1, <1>5, <2>1, <2>7
    <3>2. ASSUME NEW i \in Wanted
          PROVE  i \in Given \cup D <=> DayOf(trades[i].time) < date + 1
      <4>1. DayOf(trades[i].time) \in Nat
        BY <1>1, <2>1
      <4>2. DayOf(trades[i].time) < date + 1 <=>
               DayOf(trades[i].time) < date \/ DayOf(trades[i].time) = date
        BY <1>1, <4>1
      <4>. QED
        BY <1>5, <2>2, <4>2
    <3>. QED
      BY <1>3, <1>5, <1>7, <1>11, <2>5, <3>1, <3>2 DEF Archives, ByArchive, DayOf
  <2>9. Files'
    BY <1>2, <1>3, <1>11 DEF Files, CacheComplete, DayOf, Days
  <2>. QED
    BY <1>8, <1>9, <2>5, <2>6, <2>8, <2>9 DEF FeedInv
<1>. QED
  BY <1>4, <1>10, <1>11

-----------------------------------------------------------------------------
(* Failures *)

\* What ends a reading leaves what it has handed out, and a part file that is
\* at most begun.
LEMMA BreakStep ==
    ASSUME FeedInv, Break
    PROVE  FeedInv'
<1>1. FeedTypeOK /\ Chronological /\ Handed /\ LateOnes /\ Archives /\ Files
  BY DEF FeedInv
<1>2. /\ feed' \in {"failed", "stopped"}
      /\ UNCHANGED <<now, trades, start, end, window_start, next_id, date, cache,
                     cut_short, yielded, late, runs>>
  BY DEF Break, PageRaises, DownloadRaises, Stopped, exchange, range, files
<1>3. \/ UNCHANGED part
      \/ /\ feed = "copying"
         /\ \E v \in {"absent", "begun"} : part' = [part EXCEPT ![date] = v]
  BY DEF Break, PageRaises, DownloadRaises, Stopped, files
<1>4. part \in [Days -> {"absent", "begun", "whole"}]
  BY <1>1 DEF FeedTypeOK
<1>5. feed = "copying" => date \in Days
  BY <1>1, DateIsDay DEF Archives, ByArchive
<1>6. /\ part' \in [Days -> {"absent", "begun", "whole"}]
      /\ \A d \in Days : part'[d] = "whole" => part[d] = "whole"
  BY <1>3, <1>4, <1>5
<1>7. Ids' = Ids /\ Given' = Given /\ Wanted' = Wanted
  BY <1>2 DEF Ids, Given, Wanted, InRange
<1>8. FeedTypeOK'
  BY <1>1, <1>2, <1>6, <1>7 DEF FeedTypeOK, Days
<1>9. Chronological' /\ Handed' /\ LateOnes'
  BY <1>1, <1>2, <1>7 DEF Chronological, Handed, Increasing, LateOnes
<1>10. Paging' /\ Finished' /\ Archives'
  BY <1>2 DEF Paging, Finished, Archives, ByArchive
<1>11. Files'
  BY <1>1, <1>2, <1>6 DEF Files, CacheComplete, DayOf, Days
<1>. QED
  BY <1>8, <1>9, <1>10, <1>11 DEF FeedInv

-----------------------------------------------------------------------------
(* The feed *)

\* Nothing is traded, kept or handed out at first.
LEMMA FeedStarts == FeedInit => FeedInv
<1>. SUFFICES ASSUME FeedInit PROVE FeedInv
  OBVIOUS
<1>1. /\ now = 0 /\ trades = <<>> /\ feed = "idle" /\ start = 0 /\ end = 0
      /\ window_start = 0 /\ next_id = 0 /\ date = 0
      /\ part = [d \in Days |-> "absent"] /\ cache = [d \in Days |-> "absent"]
      /\ yielded = <<>> /\ late = {} /\ cut_short = {} /\ runs = 0
  BY DEF FeedInit
<1>2. Ids = {} /\ Given = {} /\ Wanted = {}
  BY <1>1 DEF Ids, Given, Range, Wanted
<1>3. trades \in Seq([time : Nat, tick : Ticks]) /\ yielded \in Seq(Ids) /\ Len(trades) = 0
  BY <1>1
<1>4. FeedTypeOK
  BY <1>1, <1>2, <1>3, FeedAssumption DEF FeedTypeOK
<1>5. Chronological /\ Handed /\ LateOnes /\ Paging /\ Archives /\ Finished
  BY <1>1, <1>2
     DEF Chronological, Handed, Increasing, LateOnes, Paging, Archives, ByArchive, Finished
<1>6. Files
  BY <1>1 DEF Files, CacheComplete
<1>. QED
  BY <1>4, <1>5, <1>6 DEF FeedInv

\* Every step of the feed and of the exchange keeps the invariant.
LEMMA FeedSteps ==
    ASSUME FeedInv, Market \/ Fetch \/ Break
    PROVE  FeedInv'
BY TradeStep, ClockStep, PageStep, NextArchiveStep, CopyStep, RenameStep, ReadStep, BreakStep
   DEF Market, Fetch

\* A step that leaves the feed and the exchange alone keeps it.
LEMMA FeedStutters ==
    ASSUME FeedInv, UNCHANGED feedVars
    PROVE  FeedInv'
<1>1. /\ UNCHANGED <<now, trades, feed, start, end, window_start, next_id, date, part, cache,
                     cut_short, yielded, late, runs>>
  BY DEF feedVars, exchange, range, files
<1>2. Ids' = Ids /\ Given' = Given /\ Wanted' = Wanted /\ WindowEnd' = WindowEnd
  BY <1>1 DEF Ids, Given, Wanted, InRange, WindowEnd, Earlier
<1>3. FeedTypeOK' /\ Chronological' /\ Handed' /\ Paging' /\ LateOnes'
  BY <1>1, <1>2
     DEF FeedInv, FeedTypeOK, Days, Chronological, Handed, Increasing, Paging, LateOnes
<1>4. Archives' /\ Finished' /\ Files'
  BY <1>1, <1>2 DEF FeedInv, Archives, ByArchive, Finished, Files, CacheComplete, DayOf, Days
<1>. QED
  BY <1>3, <1>4 DEF FeedInv

\* The invariant contains what the feed promises.
LEMMA FeedPromises ==
    ASSUME FeedInv
    PROVE  FeedTypeOK /\ ReadsAll /\ CacheComplete
<1>1. FeedTypeOK /\ Handed /\ Finished /\ CacheComplete
  BY DEF FeedInv, Files
<1>2. yielded \in Seq(Ids) /\ Len(yielded) \in Nat /\ DOMAIN yielded = 1..Len(yielded)
  BY <1>1 DEF FeedTypeOK
<1>3. \A k \in DOMAIN yielded : yielded[k] \in Given
  BY DEF Given, Range
<1>4. \A k \in 2..Len(yielded) : yielded[k - 1] < yielded[k]
  <2>1. \A k \in 2..Len(yielded) :
           k - 1 \in DOMAIN yielded /\ k \in DOMAIN yielded /\ k - 1 < k
    BY <1>2
  <2>. QED
    BY <1>1, <2>1 DEF Handed, Increasing
<1>5. \A i \in Wanted :
         feed = "over" \/ (\E k \in DOMAIN yielded : i < yielded[k]) => i \in Range(yielded)
  BY <1>1, <1>3 DEF Handed, Finished, Given
<1>. QED
  BY <1>1, <1>3, <1>4, <1>5 DEF ReadsAll, Handed
==============================================================================
