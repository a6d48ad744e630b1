----------------------------- MODULE Feeds_proofs -----------------------------
(***************************************************************************)
(* Theorems of Feeds: DeliveryIsExact and ServedRowsAreGood, for any        *)
(* markets, windows, page sizes, limits and flaws.                         *)
(***************************************************************************)
EXTENDS Feeds, Listing_proofs, SequenceTheorems

-----------------------------------------------------------------------------
(* The inductive invariant                                                 *)

Versions == 1..MaxVersion
Candle == [time : Times, v : Versions]
Rows == [ms : {Ms * t : t \in Times}, v : Versions]
Table == [Times -> 0..MaxVersion]
Sources == {"tbank", "twelvedata", "bybit", "binance"}
Labels == {"none", "database", "database (offline)", "broker"}

FeedsTypeOK ==
  /\ market \in Table /\ db \in Table /\ atStart \in Table
  /\ pc \in {"idle", "read", "serve", "connect", "page", "store", "reload"}
  /\ source \in Sources /\ window \in Windows /\ limit \in Nat /\ force \in BOOLEAN
  /\ cache \in Seq(Candle) /\ rows \in Seq(Candle) /\ got \in Seq(Rows)
  /\ cursor \in Int
  /\ delivered \in Seq(Candle) \cup {None}
  /\ served \in [label : Labels, candles : Seq(Candle)]
  /\ honest \in BOOLEAN /\ disturbed \in BOOLEAN /\ cleared \in BOOLEAN

\* Candles in the order of their times, and in the window.
Ordered(candles) == \A i, j \in DOMAIN candles : i < j => candles[i].time < candles[j].time
Inside(candles) == \A i \in DOMAIN candles : candles[i].time \in Span(window)
Sane(candles) == \A i \in DOMAIN candles : ValidOhlc(candles[i])
Good(candles) == Ordered(candles) /\ Inside(candles) /\ Sane(candles)

\* No version of the table is flawed.
SaneTable(table) == \A t \in Times : table[t] > 0 => <<t, table[t]>> \notin Flawed

\* Bars are only added and revised.
MarketGrows == \A t \in Times : atStart[t] <= market[t]

\* Until an answer is complete nothing is delivered; while it is on its way to
\* the table nothing is served.
Delivering ==
  /\ pc \in {"read", "serve", "connect", "page"} => delivered = None
  /\ pc \in {"read", "serve", "connect"} => got = <<>>
  /\ pc \in {"store", "reload"} => delivered \in Seq(Candle) /\ Inside(delivered)
  /\ pc # "idle" => served.label # "broker"

\* Whatever the exchange sends, the rows so far lie in the window, and so does
\* the cursor, on its side.
RowsInside(g) == \A i \in DOMAIN g : \E t \in Times \cap Span(window) : g[i].ms = Ms * t
GotInside ==
  pc = "page" =>
    /\ RowsInside(got)
    /\ source = "binance" => Ms * window.from <= cursor
    /\ source = "bybit" => cursor <= Ms * window.to

\* A version that the bar at t has had since the request began.
Seen(v, t) == atStart[t] <= v /\ v <= market[t]
RowsSeen(g) == \A i \in DOMAIN g : \A t \in Times : g[i].ms = Ms * t => Seen(g[i].v, t)

\* The bars that the exchange had when the request began, up to the cursor of
\* Binance and down to that of Bybit.
Holds(g, t) == \E i \in DOMAIN g : g[i].ms = Ms * t
UpTo(g, c) ==
  /\ \A i, j \in DOMAIN g : i < j => g[i].ms < g[j].ms
  /\ \A i \in DOMAIN g : g[i].ms < c
  /\ \A t \in Times \cap Span(window) : atStart[t] > 0 /\ Ms * t < c => Holds(g, t)
DownTo(g, c) ==
  /\ \A i, j \in DOMAIN g : i # j => g[i].ms # g[j].ms
  /\ \A i \in DOMAIN g : c < g[i].ms
  /\ \A t \in Times \cap Span(window) : atStart[t] > 0 /\ c < Ms * t => Holds(g, t)

PagesSoFar ==
  pc = "page" /\ honest =>
    /\ RowsSeen(got)
    /\ source = "binance" => UpTo(got, cursor)
    /\ source = "bybit" => DownTo(got, cursor)

\* Both reads go to the table.  Between the commit and the second one it holds
\* what was stored.
Committed ==
  /\ pc \in {"read", "reload"} => cache = <<>>
  /\ pc = "reload" /\ ~disturbed =>
       \A c \in Range(Prepared(delivered)) : db[c.time] = c.v

\* The rows that were read are still in the table, unless it has been cleared.
RowsStored == ~cleared => \A i \in DOMAIN rows : db[rows[i].time] > 0

FeedsInv ==
  /\ FeedsTypeOK
  /\ MarketGrows
  /\ SaneTable(db)
  /\ Good(rows) /\ Good(cache) /\ RowsStored
  /\ Delivering
  /\ GotInside
  /\ PagesSoFar
  /\ Committed
  /\ DeliveryIsExact
  /\ ServedRowsAreGood

-----------------------------------------------------------------------------
(* The operators                                                           *)

LEMMA Bounds ==
  /\ MaxTime \in Nat \ {0} /\ MaxVersion \in Nat \ {0} /\ MinRows \in Nat \ {0}
  /\ Cap \in Nat \ {0} /\ Limits \subseteq Nat /\ Times \subseteq Nat
  /\ PageSize["binance"] \in Nat \ {0} /\ PageSize["bybit"] \in Nat \ {0}
  /\ \A w \in Windows : w.from \in Nat /\ w.to \in Nat /\ w.from < w.to
  BY FeedsAssumption DEF Times, Paging

\* Milliseconds, and back.
LEMMA Millis ==
  /\ \A t \in Int : (Ms * t) \div Ms = t
  /\ \A t, u \in Int : Ms * t = Ms * u => t = u
  /\ \A t, u \in Int : Ms * t < Ms * u <=> t < u
  /\ \A t \in Int : Ms * t \in Int
  BY DEF Ms

LEMMA TimesFinite ==
  ASSUME NEW S \in SUBSET Times
  PROVE  IsFiniteSet(S) /\ S \in SUBSET Int
<1>1. IsFiniteSet(Times)
  BY Bounds, FS_Interval DEF Times
<1>2. IsFiniteSet(S)
  BY <1>1, FS_Subset
<1> QED BY <1>2, Bounds

\* Listed returns the candles that the table has at the times, in order.
LEMMA ListedProperties ==
  ASSUME NEW table \in Table, NEW times
  PROVE  LET l == Listed(table, times)
         IN  /\ l \in Seq(Candle)
             /\ Ordered(l)
             /\ \A i \in DOMAIN l : l[i].time \in times /\ l[i].v = table[l[i].time]
             /\ \A t \in Times : t \in times /\ table[t] > 0 => \E i \in DOMAIN l : l[i].time = t
<1> DEFINE S == {t \in times : t \in Times /\ table[t] > 0}
           n == Cardinality(S)
           l == [k \in 1..n |-> [time |-> Nth(S, k), v |-> table[Nth(S, k)]]]
<1>1. S \in SUBSET Times
  OBVIOUS
<1>2. \A t \in S : t \in times /\ t \in Times /\ t \in Int /\ table[t] \in Versions
  <2> SUFFICES ASSUME NEW t \in Times, table[t] > 0
               PROVE  t \in Int /\ table[t] \in Versions
    OBVIOUS
  <2>1. table[t] \in 0..MaxVersion /\ t \in Int
    BY Bounds DEF Table
  <2> QED BY <2>1, Bounds DEF Versions
<1>3. \A t \in Times : t \in times /\ table[t] > 0 => t \in S
  OBVIOUS
<1> HIDE DEF S
<1>4. IsFiniteSet(S) /\ S \in SUBSET Int
  BY <1>1, TimesFinite
<1>5. /\ n \in Nat
      /\ \A k \in 1..n : Nth(S, k) \in S
      /\ \A x \in S : \E k \in 1..n : Nth(S, k) = x
      /\ \A i, j \in 1..n : i < j <=> Nth(S, i) < Nth(S, j)
  BY <1>4, NthProperties
<1>6. Listed(table, times) = Computed(l)
  BY DEF Listed, S
<1> HIDE DEF n
<1>7. \A k \in 1..n : l[k] \in Candle /\ l[k].time = Nth(S, k) /\ l[k].v = table[Nth(S, k)]
  BY <1>2, <1>5 DEF Candle
<1>8. DOMAIN l = 1..n
  OBVIOUS
<1>9. l \in Seq(Candle)
  <2>1. l \in [1..n -> Candle]
    BY <1>7
  <2> HIDE DEF l
  <2> QED BY <2>1, <1>5
<1> HIDE DEF l
<1>10. Ordered(l)
  BY <1>5, <1>7, <1>8 DEF Ordered
<1>11. \A i \in DOMAIN l : l[i].time \in times /\ l[i].v = table[l[i].time]
  BY <1>2, <1>5, <1>7, <1>8
<1>12. \A t \in Times : t \in times /\ table[t] > 0 => \E i \in DOMAIN l : l[i].time = t
  BY <1>3, <1>5, <1>7, <1>8
<1>13. Listed(table, times) = l
  BY <1>6, <1>9, ComputedProperties
<1> QED BY <1>9, <1>10, <1>11, <1>12, <1>13

\* First and Newest return so many elements, or all, from an end.
LEMMA FirstProperties ==
  ASSUME NEW T, NEW s \in Seq(T), NEW n \in Nat
  PROVE  LET f == First(n, s)
         IN  /\ f \in Seq(T)
             /\ Len(f) = IF n <= Len(s) THEN n ELSE Len(s)
             /\ \A i \in DOMAIN f : i \in DOMAIN s /\ f[i] = s[i]
<1> DEFINE m == Min({n, Len(s)})
<1>1. m = (IF n <= Len(s) THEN n ELSE Len(s)) /\ m \in Nat /\ m <= Len(s)
  <2>1. Len(s) \in Nat /\ Len(s) \in Int /\ n \in Int
    OBVIOUS
  <2>2. m = IF n <= Len(s) THEN n ELSE Len(s)
    BY <2>1, PairMaxMin
  <2> HIDE DEF m
  <2> QED BY <2>1, <2>2
<1>2. First(n, s) = SubSeq(s, 1, m)
  BY DEF First
<1> HIDE DEF m
<1>3. \A i \in 1..m : s[i] \in T
  BY <1>1
<1>4. /\ SubSeq(s, 1, m) \in Seq(T)
      /\ Len(SubSeq(s, 1, m)) = IF 1 <= m THEN m - 1 + 1 ELSE 0
      /\ \A i \in 1..m - 1 + 1 : SubSeq(s, 1, m)[i] = s[1 + i - 1]
  BY <1>1, <1>3, SubSeqProperties
<1> DEFINE f == SubSeq(s, 1, m)
<1> HIDE DEF f
<1>5. f \in Seq(T) /\ Len(f) = m
  BY <1>1, <1>4 DEF f
<1>6. \A i \in DOMAIN f : i \in DOMAIN s /\ f[i] = s[i]
  <2> SUFFICES ASSUME NEW i \in 1..m PROVE i \in DOMAIN s /\ f[i] = s[i]
    BY <1>5
  <2>1. f[i] = s[1 + i - 1] /\ 1 + i - 1 = i
    BY <1>1, <1>4 DEF f
  <2> QED BY <1>1, <2>1
<1> QED BY <1>1, <1>2, <1>5, <1>6 DEF f

LEMMA ReverseProperties ==
  ASSUME NEW T, NEW s \in Seq(T)
  PROVE  /\ Reverse(s) \in Seq(T) /\ Len(Reverse(s)) = Len(s)
         /\ \A i \in 1..Len(s) : Reverse(s)[i] = s[(Len(s) - i) + 1]
         /\ \A i \in 1..Len(s) : (Len(s) - i) + 1 \in 1..Len(s)
  BY DEF Reverse

LEMMA NewestProperties ==
  ASSUME NEW T, NEW s \in Seq(T), NEW n \in Nat
  PROVE  LET f == Newest(n, s)
         IN  /\ f \in Seq(T)
             /\ Len(f) = IF n <= Len(s) THEN n ELSE Len(s)
             /\ \A i \in DOMAIN f : (Len(s) - i) + 1 \in DOMAIN s /\ f[i] = s[(Len(s) - i) + 1]
<1> DEFINE r == Reverse(s)
           f == First(n, r)
<1>1. /\ r \in Seq(T) /\ Len(r) = Len(s)
      /\ \A i \in 1..Len(s) : r[i] = s[(Len(s) - i) + 1]
      /\ \A i \in 1..Len(s) : (Len(s) - i) + 1 \in 1..Len(s)
  BY ReverseProperties
<1> HIDE DEF r
<1>2. /\ f \in Seq(T)
      /\ Len(f) = IF n <= Len(r) THEN n ELSE Len(r)
      /\ \A i \in DOMAIN f : i \in DOMAIN r /\ f[i] = r[i]
  BY <1>1, FirstProperties
<1>3. Newest(n, s) = f
  BY DEF Newest, r
<1> HIDE DEF f
<1> QED BY <1>1, <1>2, <1>3

-----------------------------------------------------------------------------
(* The table                                                               *)

LEMMA CandleFields ==
  ASSUME NEW candles \in Seq(Candle), NEW i \in DOMAIN candles
  PROVE  /\ candles[i].time \in Times /\ candles[i].time \in Int
         /\ candles[i].v \in Versions /\ candles[i].v > 0
<1>1. candles[i] \in Candle
  OBVIOUS
<1>2. candles[i].time \in Times /\ candles[i].v \in Versions
  BY <1>1 DEF Candle
<1>3. candles[i].time \in Int
  <2> DEFINE t == candles[i].time
  <2>1. t \in Times
    BY <1>2
  <2> HIDE DEF t
  <2> QED BY <2>1 DEF Times, t
<1>4. candles[i].v > 0
  BY <1>2, Bounds DEF Versions
<1> QED BY <1>2, <1>3, <1>4

LEMMA LastOfProperties ==
  ASSUME NEW candles \in Seq(Candle), NEW P \in SUBSET DOMAIN candles
  PROVE  /\ P = {} => LastOf(candles, P) = 0
         /\ P # {} => \E i \in P : LastOf(candles, P) = candles[i].v
<1>1. CASE P = {}
  BY <1>1 DEF LastOf
<1>2. CASE P # {}
  <2>1. DOMAIN candles = 1..Len(candles) /\ Len(candles) \in Nat
    OBVIOUS
  <2>2. IsFiniteSet(P) /\ P \in SUBSET Int
    <3>1. IsFiniteSet(DOMAIN candles)
      BY <2>1, FS_Interval
    <3>2. IsFiniteSet(P)
      BY <3>1, FS_Subset
    <3> QED BY <2>1, <3>2
  <2>3. Max(P) \in P
    BY <1>2, <2>2, MaxMin
  <2> QED BY <1>2, <2>3 DEF LastOf
<1> QED BY <1>1, <1>2

\* The last version of a candle is one that came.
LEMMA LastProperties ==
  ASSUME NEW candles \in Seq(Candle), NEW t \in Times
  PROVE  /\ LastVersion(candles, t) \in 0..MaxVersion
         /\ LastVersion(candles, t) > 0 =>
              \E i \in DOMAIN candles : candles[i].time = t /\ candles[i].v = LastVersion(candles, t)
         /\ \A i \in DOMAIN candles : candles[i].time = t => LastVersion(candles, t) > 0
         /\ LastValid(candles, t) \in 0..MaxVersion
         /\ LastValid(candles, t) > 0 =>
              \E i \in DOMAIN candles : /\ candles[i].time = t /\ candles[i].v = LastValid(candles, t)
                                        /\ ValidOhlc(candles[i])
<1> DEFINE P == {i \in DOMAIN candles : candles[i].time = t}
           Q == {i \in DOMAIN candles : candles[i].time = t /\ ValidOhlc(candles[i])}
<1>1. \A i \in DOMAIN candles : candles[i].v \in Versions
  BY CandleFields
<1>2. 0 \in 0..MaxVersion /\ \A v \in Versions : v \in 0..MaxVersion /\ v > 0
  BY Bounds DEF Versions
<1>3. /\ P = {} => LastVersion(candles, t) = 0
      /\ P # {} => \E i \in P : LastVersion(candles, t) = candles[i].v
  BY LastOfProperties DEF LastVersion
<1>4. /\ Q = {} => LastValid(candles, t) = 0
      /\ Q # {} => \E i \in Q : LastValid(candles, t) = candles[i].v
  BY LastOfProperties DEF LastValid
<1>5. /\ LastVersion(candles, t) \in 0..MaxVersion
      /\ LastVersion(candles, t) > 0 =>
           \E i \in DOMAIN candles : candles[i].time = t /\ candles[i].v = LastVersion(candles, t)
  BY <1>1, <1>2, <1>3
<1>6. \A i \in DOMAIN candles : candles[i].time = t => LastVersion(candles, t) > 0
  BY <1>1, <1>2, <1>3
<1>7. /\ LastValid(candles, t) \in 0..MaxVersion
      /\ LastValid(candles, t) > 0 =>
           \E i \in DOMAIN candles : /\ candles[i].time = t /\ candles[i].v = LastValid(candles, t)
                                     /\ ValidOhlc(candles[i])
  BY <1>1, <1>2, <1>4
<1> QED BY <1>5, <1>6, <1>7

\* Candles in order have one place for each time.
LEMMA OrderedDistinct ==
  ASSUME NEW candles \in Seq(Candle), Ordered(candles),
         NEW i \in DOMAIN candles, NEW j \in DOMAIN candles, candles[i].time = candles[j].time
  PROVE  i = j
<1>1. candles[i].time \in Int /\ candles[j].time \in Int
  BY CandleFields
<1>2. ~(i < j) /\ ~(j < i)
  BY <1>1 DEF Ordered
<1> QED BY <1>2

\* What prepare_candles keeps is in order, valid, and was among the candles.
LEMMA PreparedProperties ==
  ASSUME NEW candles \in Seq(Candle)
  PROVE  /\ Prepared(candles) \in Seq(Candle)
         /\ Ordered(Prepared(candles)) /\ Sane(Prepared(candles))
         /\ Inside(candles) => Inside(Prepared(candles))
<1> DEFINE table == [t \in Times |-> LastValid(candles, t)]
           l == Listed(table, Times)
<1>1. table \in Table
  BY LastProperties DEF Table
<1>2. /\ l \in Seq(Candle)
      /\ Ordered(l)
      /\ \A i \in DOMAIN l : l[i].time \in Times /\ l[i].v = table[l[i].time]
  <2> HIDE DEF table
  <2> QED BY <1>1, ListedProperties
<1>3. Prepared(candles) = l
  BY DEF Prepared
<1> HIDE DEF l
<1>4. ASSUME NEW i \in DOMAIN l
      PROVE  \E j \in DOMAIN candles : candles[j].time = l[i].time /\ candles[j].v = l[i].v
                                       /\ ValidOhlc(candles[j])
  <2>1. l[i].time \in Times /\ l[i].v = LastValid(candles, l[i].time) /\ l[i].v \in Versions
    BY <1>2, CandleFields
  <2>2. l[i].v > 0
    BY <1>2, CandleFields
  <2> QED BY <2>1, <2>2, LastProperties
<1>5. Sane(l)
  BY <1>4 DEF Sane, ValidOhlc
<1>6. Inside(candles) => Inside(l)
  BY <1>4 DEF Inside
<1> QED BY <1>2, <1>3, <1>5, <1>6

\* What store_candles does to the table.
LEMMA UpsertedProperties ==
  ASSUME NEW table \in Table, NEW candles \in Seq(Candle), Ordered(candles)
  PROVE  /\ Upserted(table, candles) \in Table
         /\ \A c \in Range(candles) : Upserted(table, candles)[c.time] = c.v
         /\ \A t \in Times : table[t] > 0 => Upserted(table, candles)[t] > 0
         /\ SaneTable(table) /\ Sane(candles) => SaneTable(Upserted(table, candles))
<1> DEFINE u == Upserted(table, candles)
<1>1. u = [t \in Times |-> IF LastVersion(candles, t) > 0 THEN LastVersion(candles, t) ELSE table[t]]
  BY DEF Upserted
<1> HIDE DEF u
<1>2. u \in Table
  BY <1>1, LastProperties DEF Table
<1>3. \A c \in Range(candles) : u[c.time] = c.v
  <2> SUFFICES ASSUME NEW i \in DOMAIN candles
               PROVE  u[candles[i].time] = candles[i].v
    BY DEF Range
  <2>1. candles[i].time \in Times
    BY CandleFields
  <2>2. LastVersion(candles, candles[i].time) > 0
    BY <2>1, LastProperties
  <2>3. PICK j \in DOMAIN candles : candles[j].time = candles[i].time
                                    /\ candles[j].v = LastVersion(candles, candles[i].time)
    BY <2>1, <2>2, LastProperties
  <2>4. j = i
    BY <2>3, OrderedDistinct
  <2> QED BY <1>1, <2>1, <2>2, <2>3, <2>4
<1>4. ASSUME SaneTable(table), Sane(candles) PROVE SaneTable(u)
  <2> SUFFICES ASSUME NEW t \in Times, u[t] > 0 PROVE <<t, u[t]>> \notin Flawed
    BY DEF SaneTable
  <2>1. CASE LastVersion(candles, t) > 0
    <3>1. PICK j \in DOMAIN candles : candles[j].time = t /\ candles[j].v = LastVersion(candles, t)
      BY <2>1, LastProperties
    <3> QED BY <1>1, <1>4, <2>1, <3>1 DEF Sane, ValidOhlc
  <2>2. CASE ~(LastVersion(candles, t) > 0)
    BY <1>1, <1>4, <2>2 DEF SaneTable
  <2> QED BY <2>1, <2>2
<1>5. \A t \in Times : table[t] > 0 => u[t] > 0
  BY <1>1
<1> QED BY <1>2, <1>3, <1>4, <1>5 DEF u

\* What load_candles returns is good, when the table is sane and the cache good;
\* without a cache it is what the table has of the window, and all of it.
LEMMA LoadedProperties ==
  ASSUME NEW table \in Table, SaneTable(table), NEW cached \in Seq(Candle), Good(cached)
  PROVE  LET l == Loaded(table, cached, window)
         IN  /\ l \in Seq(Candle) /\ Good(l)
             /\ cached = <<>> =>
                  /\ \A i \in DOMAIN l : table[l[i].time] > 0
                  /\ \A t \in Times : t \in Span(window) /\ table[t] > 0 =>
                       \E i \in DOMAIN l : l[i].time = t /\ l[i].v = table[t]
<1>1. CASE cached # <<>>
  <2> DEFINE S == [time : Span(window), v : Nat]
             k == Kept(cached, S)
  <2> HIDE DEF S
  <2>1. k \in Seq(Candle)
    BY KeptProperties
  <2>2. PICK at \in [DOMAIN k -> DOMAIN cached] :
          /\ \A i \in DOMAIN k : k[i] = cached[at[i]] /\ cached[at[i]] \in S
          /\ \A i, j \in DOMAIN k : i < j => at[i] < at[j]
    BY KeptProperties
  <2>3. Loaded(table, cached, window) = k
    BY <1>1 DEF Loaded, Within, S
  <2> HIDE DEF k
  <2>4. Good(k)
    BY <2>2 DEF Good, Ordered, Inside, Sane
  <2> QED BY <1>1, <2>1, <2>3, <2>4
<1>2. CASE cached = <<>>
  <2> DEFINE l == Listed(table, Span(window))
  <2>1. /\ l \in Seq(Candle)
        /\ Ordered(l)
        /\ \A i \in DOMAIN l : l[i].time \in Span(window) /\ l[i].v = table[l[i].time]
        /\ \A t \in Times : t \in Span(window) /\ table[t] > 0 => \E i \in DOMAIN l : l[i].time = t
    BY ListedProperties
  <2>2. Loaded(table, cached, window) = l
    BY <1>2 DEF Loaded
  <2> HIDE DEF l
  <2>3. \A i \in DOMAIN l : l[i].time \in Times /\ l[i].v > 0
    BY <2>1, CandleFields
  <2>4. \A i \in DOMAIN l : table[l[i].time] > 0
    BY <2>1, <2>3
  <2>5. Sane(l)
    BY <2>1, <2>3, <2>4 DEF Sane, SaneTable, ValidOhlc
  <2> QED BY <2>1, <2>2, <2>4, <2>5 DEF Good, Inside
<1> QED BY <1>1, <1>2

-----------------------------------------------------------------------------
(* Answers                                                                 *)

\* All that the exchange had of the window, in order, in versions of its.
Whole(candles) ==
  /\ Ordered(candles) /\ Inside(candles)
  /\ \A i \in DOMAIN candles : Seen(candles[i].v, candles[i].time)
  /\ \A t \in Times \cap Span(window) :
       atStart[t] > 0 => \E i \in DOMAIN candles : candles[i].time = t

\* What DeliveryIsExact says of an answer.
Exact(candles) ==
  /\ Increasing(candles)
  /\ \A c \in Range(candles) :
       /\ window.from <= c.time /\ c.time <= window.to
       /\ Max({atStart[c.time], 1}) <= c.v /\ c.v <= market[c.time]
  /\ \A t \in window.from..window.to :
       (t \in Times /\ atStart[t] > 0) =>
         \/ t \in TimesOf(candles)
         \/ /\ Most > 0 /\ Len(candles) = Most
            /\ \A c \in Range(candles) :
                 IF source = "twelvedata" THEN t < c.time ELSE c.time < t

LEMMA OrderedIsIncreasing ==
  ASSUME NEW candles \in Seq(Candle), Ordered(candles)
  PROVE  Increasing(candles)
  BY DEF Ordered, Increasing

LEMMA SeenInRange ==
  ASSUME NEW candles \in Seq(Candle), Inside(candles), atStart \in Table, window \in Windows,
         \A i \in DOMAIN candles : Seen(candles[i].v, candles[i].time)
  PROVE  \A c \in Range(candles) :
           /\ window.from <= c.time /\ c.time <= window.to
           /\ Max({atStart[c.time], 1}) <= c.v /\ c.v <= market[c.time]
<1> SUFFICES ASSUME NEW i \in DOMAIN candles
             PROVE  LET c == candles[i] IN
                    /\ window.from <= c.time /\ c.time <= window.to
                    /\ Max({atStart[c.time], 1}) <= c.v /\ c.v <= market[c.time]
  BY DEF Range
<1> DEFINE c == candles[i]
<1>1. c.time \in Times /\ c.time \in Int /\ c.v \in Versions /\ c.v > 0 /\ c.v \in Int
  BY CandleFields DEF Versions
<1>2. c.time \in Span(window) /\ Seen(c.v, c.time)
  BY DEF Inside
<1> HIDE DEF c
<1>3. window.from <= c.time /\ c.time <= window.to
  BY <1>1, <1>2, Bounds DEF Span
<1>4. atStart[c.time] \in Int
  BY <1>1 DEF Table
<1>5. Max({atStart[c.time], 1}) <= c.v /\ c.v <= market[c.time]
  BY <1>1, <1>2, <1>4, PairMaxMin DEF Seen
<1> QED BY <1>3, <1>5 DEF c

\* Cut off at the limit.
LEMMA TruncatedProperties ==
  ASSUME NEW candles \in Seq(Candle), limit \in Nat
  PROVE  LET f == Truncated(candles)
         IN  /\ f \in Seq(Candle)
             /\ \A i \in DOMAIN f : i \in DOMAIN candles /\ f[i] = candles[i]
             /\ limit = 0 \/ Len(candles) <= limit => DOMAIN f = DOMAIN candles
             /\ limit > 0 /\ Len(candles) > limit => Len(f) = limit
             /\ Inside(candles) => Inside(f)
<1> DEFINE f == First(limit, candles)
<1>1. CASE limit = 0
  BY <1>1 DEF Truncated
<1>2. CASE limit # 0
  <2>1. /\ f \in Seq(Candle)
        /\ Len(f) = IF limit <= Len(candles) THEN limit ELSE Len(candles)
        /\ \A i \in DOMAIN f : i \in DOMAIN candles /\ f[i] = candles[i]
    BY FirstProperties
  <2>2. Truncated(candles) = f
    BY <1>2 DEF Truncated
  <2> HIDE DEF f
  <2>3. Inside(candles) => Inside(f)
    BY <2>1 DEF Inside
  <2>4. Len(candles) <= limit => DOMAIN f = DOMAIN candles
    BY <2>1
  <2> QED BY <1>2, <2>1, <2>2, <2>3, <2>4
<1> QED BY <1>1, <1>2

LEMMA WholeIsExact ==
  ASSUME NEW candles \in Seq(Candle), Whole(candles), limit \in Nat,
         atStart \in Table, window \in Windows, source \in Sources \ {"twelvedata"}
  PROVE  Exact(Truncated(candles))
<1> DEFINE f == Truncated(candles)
<1>1. /\ f \in Seq(Candle)
      /\ \A i \in DOMAIN f : i \in DOMAIN candles /\ f[i] = candles[i]
      /\ limit = 0 \/ Len(candles) <= limit => DOMAIN f = DOMAIN candles
      /\ limit > 0 /\ Len(candles) > limit => Len(f) = limit
      /\ Inside(f)
  BY TruncatedProperties DEF Whole
<1> HIDE DEF f
<1>2. Ordered(f) /\ \A i \in DOMAIN f : Seen(f[i].v, f[i].time)
  BY <1>1 DEF Whole, Ordered
<1>3. Increasing(f)
  BY <1>1, <1>2, OrderedIsIncreasing
<1>4. \A c \in Range(f) :
        /\ window.from <= c.time /\ c.time <= window.to
        /\ Max({atStart[c.time], 1}) <= c.v /\ c.v <= market[c.time]
  BY <1>1, <1>2, SeenInRange
<1>5. ASSUME NEW t \in Times, t \in window.from..window.to, atStart[t] > 0, t \notin TimesOf(f)
      PROVE  Most > 0 /\ Len(f) = Most /\ \A c \in Range(f) : c.time < t
  <2>1. PICK i \in DOMAIN candles : candles[i].time = t
    BY <1>5 DEF Whole, Span
  <2>2. i \notin DOMAIN f
    BY <1>1, <1>5, <2>1 DEF TimesOf, Range
  <2>3. limit > 0 /\ Len(candles) > limit /\ Len(f) = limit
    BY <1>1, <2>2
  <2>4. Most = limit
    BY DEF Most
  <2>5. ASSUME NEW j \in DOMAIN f PROVE f[j].time < t
    <3>1. j < i /\ j \in DOMAIN candles /\ f[j] = candles[j]
      BY <1>1, <2>2
    <3> QED BY <2>1, <3>1 DEF Whole, Ordered
  <2> QED BY <2>3, <2>4, <2>5 DEF Range
<1> QED BY <1>3, <1>4, <1>5 DEF Exact, f

\* T-Bank: the window.
LEMMA TBankExact ==
  ASSUME market \in Table, atStart \in Table, MarketGrows, window \in Windows, limit \in Nat
  PROVE  /\ TBankCandles \in Seq(Candle) /\ Inside(TBankCandles)
         /\ Whole(TBankCandles)
<1> DEFINE l == Listed(market, Span(window))
<1>1. /\ l \in Seq(Candle)
      /\ Ordered(l)
      /\ \A i \in DOMAIN l : l[i].time \in Span(window) /\ l[i].v = market[l[i].time]
      /\ \A t \in Times : t \in Span(window) /\ market[t] > 0 => \E i \in DOMAIN l : l[i].time = t
  BY ListedProperties
<1>2. TBankCandles = l
  BY DEF TBankCandles
<1> HIDE DEF l
<1>3. \A t \in Times : market[t] \in Int /\ atStart[t] \in Int /\ atStart[t] <= market[t]
  BY DEF MarketGrows, Table
<1>4. \A i \in DOMAIN l : Seen(l[i].v, l[i].time)
  BY <1>1, <1>3, CandleFields DEF Seen
<1>5. Inside(l)
  BY <1>1 DEF Inside
<1>6. \A t \in Times \cap Span(window) : atStart[t] > 0 => \E i \in DOMAIN l : l[i].time = t
  BY <1>1, <1>3
<1> QED BY <1>1, <1>2, <1>4, <1>5, <1>6 DEF Whole

\* Twelve Data: the newest of the window.
LEMMA TwelveDataExact ==
  ASSUME market \in Table, atStart \in Table, MarketGrows, window \in Windows, limit \in Nat,
         source = "twelvedata"
  PROVE  LET d == TwelveDataCandles(TwelveDataValues)
         IN  d \in Seq(Candle) /\ Inside(d) /\ Exact(d)
<1> DEFINE l == Listed(market, Span(window))
           n == IF limit = 0 THEN Cap ELSE Min({limit, Cap})
           w == Newest(n, l)
           r == Reverse(w)
           d == Truncated(r)
<1>1. l \in Seq(Candle) /\ Whole(l)
  BY TBankExact DEF TBankCandles
<1>2. n \in Nat /\ n > 0 /\ (limit > 0 => n <= limit) /\ n = Most
  <2>1. Min({limit, Cap}) = IF limit <= Cap THEN limit ELSE Cap
    <3>1. limit \in Int /\ Cap \in Int
      BY Bounds
    <3> HIDE DEF l, n, w, r, d
    <3> QED BY <3>1, PairMaxMin
  <2> QED BY <2>1, Bounds DEF Most
<1>3. d = TwelveDataCandles(TwelveDataValues)
  BY DEF TwelveDataCandles, TwelveDataValues
<1> HIDE DEF l, n
<1>4. /\ w \in Seq(Candle)
      /\ Len(w) = IF n <= Len(l) THEN n ELSE Len(l)
      /\ \A i \in DOMAIN w : (Len(l) - i) + 1 \in DOMAIN l /\ w[i] = l[(Len(l) - i) + 1]
  BY <1>1, <1>2, NewestProperties
<1> HIDE DEF w
<1>5. /\ r \in Seq(Candle) /\ Len(r) = Len(w)
      /\ \A i \in 1..Len(w) : r[i] = w[(Len(w) - i) + 1] /\ (Len(w) - i) + 1 \in 1..Len(w)
  BY <1>4, ReverseProperties
<1> HIDE DEF r
<1>6. Len(r) <= n /\ Len(r) \in Nat
  BY <1>1, <1>2, <1>4, <1>5
<1>7. /\ d \in Seq(Candle)
      /\ \A i \in DOMAIN d : d[i] = r[i]
      /\ DOMAIN d = DOMAIN r
  BY <1>2, <1>5, <1>6, TruncatedProperties
<1> HIDE DEF d
<1> DEFINE s == Len(l) - Len(d)
<1>8. /\ Len(d) = IF n <= Len(l) THEN n ELSE Len(l)
      /\ Len(d) \in Nat /\ Len(l) \in Nat /\ s \in Nat
      /\ \A i \in 1..Len(d) : d[i] = l[s + i] /\ s + i \in DOMAIN l
  <2>1. Len(d) = Len(w) /\ Len(d) \in Nat /\ Len(l) \in Nat /\ s \in Nat
        /\ Len(d) = IF n <= Len(l) THEN n ELSE Len(l)
    BY <1>1, <1>2, <1>4, <1>5, <1>7
  <2>2. ASSUME NEW i \in 1..Len(d) PROVE d[i] = l[s + i] /\ s + i \in DOMAIN l
    <3>1. d[i] = w[(Len(w) - i) + 1] /\ (Len(w) - i) + 1 \in 1..Len(w)
      BY <1>5, <1>7, <2>1
    <3>2. /\ (Len(l) - ((Len(w) - i) + 1)) + 1 \in DOMAIN l
          /\ w[(Len(w) - i) + 1] = l[(Len(l) - ((Len(w) - i) + 1)) + 1]
      BY <1>4, <3>1
    <3>3. (Len(l) - ((Len(w) - i) + 1)) + 1 = s + i
      BY <2>1
    <3> QED BY <3>1, <3>2, <3>3
  <2> QED BY <2>1, <2>2
<1> HIDE DEF s
<1>9. Ordered(d) /\ Inside(d) /\ \A i \in DOMAIN d : Seen(d[i].v, d[i].time)
  <2>1. DOMAIN d = 1..Len(d)
    BY <1>7
  <2>2. \A i, j \in 1..Len(d) : i < j => s + i < s + j
    BY <1>8
  <2>3. Ordered(d)
    BY <1>1, <1>8, <2>1, <2>2 DEF Whole, Ordered
  <2>4. \A i \in 1..Len(d) : d[i].time \in Span(window) /\ Seen(d[i].v, d[i].time)
    BY <1>1, <1>8 DEF Whole, Inside
  <2> QED BY <2>1, <2>3, <2>4 DEF Inside
<1>10. Increasing(d)
  BY <1>7, <1>9, OrderedIsIncreasing
<1>11. \A c \in Range(d) :
        /\ window.from <= c.time /\ c.time <= window.to
        /\ Max({atStart[c.time], 1}) <= c.v /\ c.v <= market[c.time]
  BY <1>7, <1>9, SeenInRange
<1>12. ASSUME NEW t \in Times, t \in window.from..window.to, atStart[t] > 0, t \notin TimesOf(d)
       PROVE  Most > 0 /\ Len(d) = Most /\ \A c \in Range(d) : t < c.time
  <2>1. PICK i \in DOMAIN l : l[i].time = t
    BY <1>1, <1>12 DEF Whole, Span
  <2>2. i <= s
    <3> SUFFICES ASSUME ~(i <= s) PROVE FALSE
      OBVIOUS
    <3>1. i \in 1..Len(l) /\ i - s \in 1..Len(d) /\ s + (i - s) = i
      BY <1>1, <1>8 DEF s
    <3>2. d[i - s].time = t /\ i - s \in DOMAIN d
      BY <1>7, <1>8, <2>1, <3>1
    <3> QED BY <1>12, <3>2 DEF TimesOf, Range
  <2>3. Len(d) = n
    BY <1>1, <1>2, <1>8, <2>1, <2>2 DEF s
  <2>4. ASSUME NEW j \in DOMAIN d PROVE t < d[j].time
    <3>1. j \in 1..Len(d)
      BY <1>7
    <3>2. i < s + j /\ s + j \in DOMAIN l /\ d[j] = l[s + j]
      BY <1>1, <1>8, <2>2, <3>1
    <3> QED BY <1>1, <2>1, <3>2 DEF Whole, Ordered
  <2> QED BY <1>2, <2>3, <2>4 DEF Range
<1> QED BY <1>3, <1>7, <1>9, <1>10, <1>11, <1>12 DEF Exact

-----------------------------------------------------------------------------
(* Pages                                                                   *)

LEMMA BetweenProperties ==
  ASSUME market \in Table, NEW low \in Int, NEW high \in Int
  PROVE  LET l == Between(low, high)
         IN  /\ l \in Seq(Candle)
             /\ Ordered(l)
             /\ \A i \in DOMAIN l : low <= Ms * l[i].time /\ Ms * l[i].time <= high
             /\ \A i \in DOMAIN l : l[i].time \in Times /\ l[i].v = market[l[i].time]
             /\ \A t \in Times : low <= Ms * t /\ Ms * t <= high /\ market[t] > 0 =>
                  \E i \in DOMAIN l : l[i].time = t
<1> DEFINE S == {t \in Times : low <= Ms * t /\ Ms * t <= high}
           l == Listed(market, S)
<1>1. /\ l \in Seq(Candle)
      /\ Ordered(l)
      /\ \A i \in DOMAIN l : l[i].time \in S /\ l[i].v = market[l[i].time]
      /\ \A t \in Times : t \in S /\ market[t] > 0 => \E i \in DOMAIN l : l[i].time = t
  <2> HIDE DEF S
  <2> QED BY ListedProperties
<1>2. Between(low, high) = l
  BY DEF Between
<1> HIDE DEF l
<1> QED BY <1>1, <1>2

\* The milliseconds of a candle.
LEMMA RowProperties ==
  ASSUME NEW c \in Candle
  PROVE  Row(c) \in Rows /\ Row(c).ms = Ms * c.time /\ Row(c).v = c.v
  BY DEF Row, Rows, Candle

LEMMA RowFields ==
  ASSUME NEW g \in Seq(Rows), NEW i \in DOMAIN g
  PROVE  /\ g[i].ms \in Int /\ g[i].v \in Versions
         /\ \E t \in Times : g[i].ms = Ms * t /\ FromRow(g[i]) = [time |-> t, v |-> g[i].v]
         /\ FromRow(g[i]) \in Candle
<1>1. g[i] \in Rows
  OBVIOUS
<1>2. g[i].v \in Versions /\ \E t \in Times : g[i].ms = Ms * t
  BY <1>1 DEF Rows
<1>3. PICK t \in Times : g[i].ms = Ms * t
  BY <1>2
<1>4. t \in Int
  BY Bounds DEF Times
<1>5. Ms * t \in Int /\ (Ms * t) \div Ms = t
  BY <1>4, Millis
<1>6. FromRow(g[i]) = [time |-> t, v |-> g[i].v]
  BY <1>3, <1>5 DEF FromRow
<1> QED BY <1>2, <1>3, <1>5, <1>6 DEF Candle

\* A page of Binance: from start on, so many of the oldest.
LEMMA BinanceRowsProperties ==
  ASSUME market \in Table, window \in Windows, NEW start \in Int, Ms * window.from <= start
  PROVE  LET page == BinanceRows(start)
         IN  /\ page \in Seq(Rows)
             /\ \A i \in DOMAIN page : start <= page[i].ms
             /\ \A i \in DOMAIN page : \E t \in Times \cap Span(window) :
                  page[i].ms = Ms * t /\ page[i].v = market[t]
             /\ \A i, j \in DOMAIN page : i < j => page[i].ms < page[j].ms
             /\ \A t \in Times : start <= Ms * t /\ t <= window.to /\ market[t] > 0 =>
                  \/ Holds(page, t)
                  \/ Len(page) = PageSize["binance"] /\ page[Len(page)].ms < Ms * t
<1> DEFINE l == Between(start, Ms * window.to)
           n == PageSize["binance"]
           f == First(n, l)
           page == [i \in DOMAIN f |-> Row(f[i])]
<1>0. window.from \in Int /\ window.to \in Int /\ n \in Nat /\ n > 0 /\ Ms * window.to \in Int
  BY Bounds, Millis
<1>1. /\ l \in Seq(Candle)
      /\ Ordered(l)
      /\ \A i \in DOMAIN l : start <= Ms * l[i].time /\ Ms * l[i].time <= Ms * window.to
      /\ \A i \in DOMAIN l : l[i].time \in Times /\ l[i].v = market[l[i].time]
      /\ \A t \in Times : start <= Ms * t /\ Ms * t <= Ms * window.to /\ market[t] > 0 =>
           \E i \in DOMAIN l : l[i].time = t
  BY <1>0, BetweenProperties
<1> HIDE DEF l
<1>2. /\ f \in Seq(Candle)
      /\ Len(f) = IF n <= Len(l) THEN n ELSE Len(l)
      /\ \A i \in DOMAIN f : i \in DOMAIN l /\ f[i] = l[i]
  BY <1>0, <1>1, FirstProperties
<1>3. BinanceRows(start) = page
  BY DEF BinanceRows, l
<1> HIDE DEF f, n
<1>4. /\ DOMAIN page = DOMAIN f
      /\ \A i \in DOMAIN f : page[i] \in Rows /\ page[i].ms = Ms * f[i].time /\ page[i].v = f[i].v
  BY <1>2, RowProperties
<1>5. page \in Seq(Rows) /\ Len(page) = Len(f)
  BY <1>2, <1>4
<1> HIDE DEF page
<1>6. \A i \in DOMAIN f : f[i].time \in Int /\ f[i].time \in Times
  BY <1>2, CandleFields
<1>11. \A i \in DOMAIN f : /\ start <= Ms * f[i].time /\ Ms * f[i].time <= Ms * window.to
                          /\ f[i].v = market[f[i].time] /\ Ms * f[i].time \in Int
  BY <1>1, <1>2, <1>6, Millis
<1>7. \A i \in DOMAIN page : start <= page[i].ms
  BY <1>4, <1>11
<1>8. \A i \in DOMAIN page : \E t \in Times \cap Span(window) :
        page[i].ms = Ms * t /\ page[i].v = market[t]
  <2> SUFFICES ASSUME NEW i \in DOMAIN page
               PROVE  /\ f[i].time \in Times \cap Span(window)
                      /\ page[i].ms = Ms * f[i].time /\ page[i].v = market[f[i].time]
    OBVIOUS
  <2>1. Ms * window.from <= Ms * f[i].time /\ Ms * f[i].time <= Ms * window.to
    <3>1. Ms * window.from \in Int /\ Ms * window.to \in Int /\ i \in DOMAIN f
      BY <1>0, <1>4, Millis
    <3> QED BY <1>0, <1>11, <3>1
  <2>2. f[i].time \in Span(window)
    BY <1>0, <1>4, <1>6, <2>1 DEF Span, Ms
  <2> QED BY <1>4, <1>6, <1>11, <2>2
<1>9. \A i, j \in DOMAIN page : i < j => page[i].ms < page[j].ms
  <2>1. \A i, j \in DOMAIN f : i < j => f[i].time < f[j].time
    BY <1>1, <1>2 DEF Ordered
  <2> QED BY <1>4, <1>6, <2>1, Millis
<1>10. ASSUME NEW t \in Times, start <= Ms * t, t <= window.to, market[t] > 0
       PROVE  \/ Holds(page, t)
              \/ Len(page) = PageSize["binance"] /\ page[Len(page)].ms < Ms * t
  <2>1. t \in Int /\ Ms * t <= Ms * window.to
    BY <1>0, <1>10, Bounds DEF Ms, Times
  <2>2. PICK i \in DOMAIN l : l[i].time = t
    BY <1>1, <1>10, <2>1
  <2>3. CASE i \in DOMAIN f
    BY <1>2, <1>4, <2>2, <2>3 DEF Holds
  <2>4. CASE i \notin DOMAIN f
    <3>1. Len(f) = n /\ n < i /\ n \in DOMAIN f
      BY <1>0, <1>1, <1>2, <2>4
    <3>2. l[n].time < l[i].time /\ f[n] = l[n]
      BY <1>1, <1>2, <3>1 DEF Ordered
    <3>3. page[n].ms < Ms * t
      <4>1. n \in DOMAIN page /\ page[n].ms = Ms * f[n].time /\ f[n].time \in Int
        BY <1>4, <1>6, <3>1
      <4>2. f[n].time < t
        BY <2>2, <3>2
      <4> HIDE DEF f, l, page
      <4> QED BY <2>1, <4>1, <4>2, Millis
    <3> QED BY <1>5, <3>1, <3>3 DEF n
  <2> QED BY <2>3, <2>4
<1> QED BY <1>3, <1>5, <1>7, <1>8, <1>9, <1>10

\* A page of Bybit: down from end, so many of the newest.
LEMMA BybitRowsProperties ==
  ASSUME market \in Table, window \in Windows, NEW end \in Int, end <= Ms * window.to
  PROVE  LET page == BybitRows(end)
         IN  /\ page \in Seq(Rows)
             /\ \A i \in DOMAIN page : page[i].ms <= end
             /\ \A i \in DOMAIN page : \E t \in Times \cap Span(window) :
                  page[i].ms = Ms * t /\ page[i].v = market[t]
             /\ \A i, j \in DOMAIN page : i < j => page[j].ms < page[i].ms
             /\ \A t \in Times : window.from <= t /\ Ms * t <= end /\ market[t] > 0 =>
                  \/ Holds(page, t)
                  \/ Len(page) = PageSize["bybit"] /\ Ms * t < page[Len(page)].ms
<1> DEFINE l == Between(Ms * window.from, end)
           n == PageSize["bybit"]
           f == Newest(n, l)
           page == [i \in DOMAIN f |-> Row(f[i])]
<1>0. window.from \in Int /\ window.to \in Int /\ n \in Nat /\ n > 0 /\ Ms * window.from \in Int
  BY Bounds, Millis
<1>1. /\ l \in Seq(Candle)
      /\ Ordered(l)
      /\ \A i \in DOMAIN l : Ms * window.from <= Ms * l[i].time /\ Ms * l[i].time <= end
      /\ \A i \in DOMAIN l : l[i].time \in Times /\ l[i].v = market[l[i].time]
      /\ \A t \in Times : Ms * window.from <= Ms * t /\ Ms * t <= end /\ market[t] > 0 =>
           \E i \in DOMAIN l : l[i].time = t
  BY <1>0, BetweenProperties
<1> HIDE DEF l
<1>2. /\ f \in Seq(Candle)
      /\ Len(f) = IF n <= Len(l) THEN n ELSE Len(l)
      /\ \A i \in DOMAIN f : (Len(l) - i) + 1 \in DOMAIN l /\ f[i] = l[(Len(l) - i) + 1]
  BY <1>0, <1>1, NewestProperties
<1>3. BybitRows(end) = page
  BY DEF BybitRows, l
<1> HIDE DEF f, n
<1>4. /\ DOMAIN page = DOMAIN f
      /\ \A i \in DOMAIN f : page[i] \in Rows /\ page[i].ms = Ms * f[i].time /\ page[i].v = f[i].v
  BY <1>2, RowProperties
<1>5. page \in Seq(Rows) /\ Len(page) = Len(f)
  BY <1>2, <1>4
<1> HIDE DEF page
<1>6. \A i \in DOMAIN f : f[i].time \in Int /\ f[i].time \in Times
  BY <1>2, CandleFields
<1>11. \A i \in DOMAIN f : /\ Ms * window.from <= Ms * f[i].time /\ Ms * f[i].time <= end
                          /\ f[i].v = market[f[i].time] /\ Ms * f[i].time \in Int
  <2> SUFFICES ASSUME NEW i \in DOMAIN f
               PROVE  /\ Ms * window.from <= Ms * f[i].time /\ Ms * f[i].time <= end
                      /\ f[i].v = market[f[i].time]
    BY <1>6, Millis
  <2>1. (Len(l) - i) + 1 \in DOMAIN l /\ f[i] = l[(Len(l) - i) + 1]
    BY <1>2
  <2> QED BY <1>1, <2>1
<1>7. \A i \in DOMAIN page : page[i].ms <= end
  BY <1>4, <1>11
<1>8. \A i \in DOMAIN page : \E t \in Times \cap Span(window) :
        page[i].ms = Ms * t /\ page[i].v = market[t]
  <2> SUFFICES ASSUME NEW i \in DOMAIN page
               PROVE  /\ f[i].time \in Times \cap Span(window)
                      /\ page[i].ms = Ms * f[i].time /\ page[i].v = market[f[i].time]
    OBVIOUS
  <2>1. Ms * window.from <= Ms * f[i].time /\ Ms * f[i].time <= Ms * window.to
    <3>1. Ms * window.from \in Int /\ Ms * window.to \in Int /\ i \in DOMAIN f
      BY <1>0, <1>4, Millis
    <3> QED BY <1>0, <1>11, <3>1
  <2>2. f[i].time \in Span(window)
    BY <1>0, <1>4, <1>6, <2>1 DEF Span, Ms
  <2> QED BY <1>4, <1>6, <1>11, <2>2
<1>9. \A i, j \in DOMAIN page : i < j => page[j].ms < page[i].ms
  <2>1. ASSUME NEW i \in DOMAIN f, NEW j \in DOMAIN f, i < j PROVE f[j].time < f[i].time
    <3>1. (Len(l) - j) + 1 < (Len(l) - i) + 1
      BY <1>1, <1>2, <2>1
    <3> QED BY <1>1, <1>2, <3>1 DEF Ordered
  <2> QED BY <1>4, <1>6, <2>1, Millis
<1>10. ASSUME NEW t \in Times, window.from <= t, Ms * t <= end, market[t] > 0
       PROVE  \/ Holds(page, t)
              \/ Len(page) = PageSize["bybit"] /\ Ms * t < page[Len(page)].ms
  <2>1. t \in Int /\ Ms * window.from <= Ms * t
    BY <1>0, <1>10, Bounds DEF Ms, Times
  <2>2. PICK i \in DOMAIN l : l[i].time = t
    BY <1>1, <1>10, <2>1
  <2> DEFINE k == (Len(l) - i) + 1
  <2>3. k \in Int /\ (Len(l) - k) + 1 = i /\ 1 <= k /\ Len(l) \in Nat /\ k <= Len(l)
    BY <1>1, <2>2
  <2> HIDE DEF k
  <2>4. CASE k \in DOMAIN f
    BY <1>2, <1>4, <2>2, <2>3, <2>4 DEF Holds
  <2>5. CASE k \notin DOMAIN f
    <3>1. Len(f) = n /\ n < k /\ n \in DOMAIN f
      BY <1>0, <1>2, <2>3, <2>5
    <3>2. (Len(l) - n) + 1 \in DOMAIN l /\ f[n] = l[(Len(l) - n) + 1] /\ i < (Len(l) - n) + 1
      BY <1>0, <1>1, <1>2, <2>3, <3>1
    <3>3. t < f[n].time
      BY <1>1, <2>2, <3>2 DEF Ordered
    <3>4. Ms * t < page[n].ms
      BY <1>4, <1>6, <2>1, <3>1, <3>3, Millis
    <3> QED BY <1>5, <3>1, <3>4 DEF n
  <2> QED BY <2>4, <2>5
<1> QED BY <1>3, <1>5, <1>7, <1>8, <1>9, <1>10

-----------------------------------------------------------------------------
(* The rows of all pages                                                   *)

\* Rows become candles in their order.
LEMMA FromRowsProperties ==
  ASSUME NEW g \in Seq(Rows)
  PROVE  /\ FromRows(g) \in Seq(Candle)
         /\ DOMAIN FromRows(g) = DOMAIN g
         /\ \A i \in DOMAIN g : Ms * FromRows(g)[i].time = g[i].ms /\ FromRows(g)[i].v = g[i].v
         /\ RowsInside(g) => Inside(FromRows(g))
<1> DEFINE f == FromRows(g)
<1>1. f = [i \in DOMAIN g |-> FromRow(g[i])]
  BY DEF FromRows
<1> HIDE DEF f
<1>2. \A i \in DOMAIN g : /\ f[i] \in Candle
                          /\ Ms * f[i].time = g[i].ms /\ f[i].v = g[i].v
  <2> SUFFICES ASSUME NEW i \in DOMAIN g
               PROVE  /\ FromRow(g[i]) \in Candle
                      /\ Ms * FromRow(g[i]).time = g[i].ms /\ FromRow(g[i]).v = g[i].v
    BY <1>1
  <2> QED BY RowFields
<1>3. f \in Seq(Candle) /\ DOMAIN f = DOMAIN g
  BY <1>1, <1>2
<1>4. ASSUME RowsInside(g), NEW i \in DOMAIN f PROVE f[i].time \in Span(window)
  <2>1. PICK t \in Times \cap Span(window) : g[i].ms = Ms * t
    BY <1>3, <1>4 DEF RowsInside
  <2>2. t \in Int /\ f[i].time \in Int
    BY <1>3, CandleFields, Bounds DEF Times
  <2>3. Ms * f[i].time = Ms * t
    BY <1>2, <1>3, <2>1
  <2>4. f[i].time = t
    BY <2>2, <2>3, Millis
  <2> QED BY <2>1, <2>4
<1> QED BY <1>2, <1>3, <1>4 DEF f, Inside

\* Rows in order, seen and with nothing missing, are all that there was.
LEMMA WholeRows ==
  ASSUME NEW g \in Seq(Rows), RowsInside(g), RowsSeen(g),
         \A i, j \in DOMAIN g : i < j => g[i].ms < g[j].ms,
         \A t \in Times \cap Span(window) : atStart[t] > 0 => Holds(g, t)
  PROVE  Whole(FromRows(g))
<1> DEFINE f == FromRows(g)
<1>1. /\ f \in Seq(Candle)
      /\ DOMAIN f = DOMAIN g
      /\ \A i \in DOMAIN g : Ms * f[i].time = g[i].ms /\ f[i].v = g[i].v
      /\ Inside(f)
  BY FromRowsProperties
<1> HIDE DEF f
<1>2. \A i \in DOMAIN g : f[i].time \in Times /\ f[i].time \in Int
  BY <1>1, CandleFields
<1>3. Ordered(f)
  BY <1>1, <1>2, Millis DEF Ordered
<1>4. \A i \in DOMAIN f : Seen(f[i].v, f[i].time)
  BY <1>1, <1>2 DEF RowsSeen
<1>5. ASSUME NEW t \in Times \cap Span(window), atStart[t] > 0
      PROVE  \E i \in DOMAIN f : f[i].time = t
  <2>1. PICK i \in DOMAIN g : g[i].ms = Ms * t
    BY <1>5 DEF Holds
  <2>2. t \in Int
    BY Bounds DEF Times
  <2> QED BY <1>1, <1>2, <2>1, <2>2, Millis
<1> QED BY <1>1, <1>3, <1>4, <1>5 DEF Whole, f

\* Two sequences of rows, one after the other.
LEMMA RowsConcat ==
  ASSUME NEW g \in Seq(Rows), NEW h \in Seq(Rows)
  PROVE  /\ g \o h \in Seq(Rows)
         /\ \A i \in DOMAIN (g \o h) : \/ i \in DOMAIN g /\ (g \o h)[i] = g[i]
                                       \/ /\ i \notin DOMAIN g /\ i - Len(g) \in DOMAIN h
                                          /\ (g \o h)[i] = h[i - Len(g)]
         /\ \A i \in DOMAIN g : i \in DOMAIN (g \o h) /\ (g \o h)[i] = g[i]
         /\ \A i \in DOMAIN h : Len(g) + i \in DOMAIN (g \o h) /\ (g \o h)[Len(g) + i] = h[i]
  OBVIOUS

\* A row of the market is a version that the bar has had.
LEMMA MarketSeen ==
  ASSUME market \in Table, atStart \in Table, MarketGrows, NEW h \in Seq(Rows),
         \A i \in DOMAIN h : \E t \in Times \cap Span(window) : h[i].ms = Ms * t /\ h[i].v = market[t]
  PROVE  RowsInside(h) /\ RowsSeen(h)
<1>1. ASSUME NEW i \in DOMAIN h, NEW t \in Times, h[i].ms = Ms * t PROVE Seen(h[i].v, t)
  <2>1. PICK u \in Times : h[i].ms = Ms * u /\ h[i].v = market[u]
    OBVIOUS
  <2>2. t \in Int /\ u \in Int
    BY Bounds DEF Times
  <2>3. u = t
    BY <1>1, <2>1, <2>2, Millis
  <2>4. market[t] \in Int /\ atStart[t] \in Int /\ atStart[t] <= market[t]
    BY DEF MarketGrows, Table
  <2> QED BY <2>1, <2>3, <2>4 DEF Seen
<1> QED BY <1>1 DEF RowsInside, RowsSeen

LEMMA ConcatInside ==
  ASSUME NEW g \in Seq(Rows), NEW h \in Seq(Rows)
  PROVE  /\ RowsInside(g) /\ RowsInside(h) => RowsInside(g \o h)
         /\ RowsSeen(g) /\ RowsSeen(h) => RowsSeen(g \o h)
         /\ \A t \in Times : Holds(g, t) \/ Holds(h, t) => Holds(g \o h, t)
<1> DEFINE c == g \o h
<1>1. /\ \A i \in DOMAIN c : (\E j \in DOMAIN g : c[i] = g[j]) \/ (\E j \in DOMAIN h : c[i] = h[j])
      /\ \A i \in DOMAIN g : \E j \in DOMAIN c : c[j] = g[i]
      /\ \A i \in DOMAIN h : \E j \in DOMAIN c : c[j] = h[i]
  <2>1. /\ \A i \in DOMAIN c : \/ i \in DOMAIN g /\ c[i] = g[i]
                               \/ i - Len(g) \in DOMAIN h /\ c[i] = h[i - Len(g)]
        /\ \A i \in DOMAIN g : i \in DOMAIN c /\ c[i] = g[i]
        /\ \A i \in DOMAIN h : Len(g) + i \in DOMAIN c /\ c[Len(g) + i] = h[i]
    BY RowsConcat
  <2> HIDE DEF c
  <2> QED BY <2>1
<1> HIDE DEF c
<1>2. RowsInside(g) /\ RowsInside(h) => RowsInside(c)
  BY <1>1 DEF RowsInside
<1>3. RowsSeen(g) /\ RowsSeen(h) => RowsSeen(c)
  BY <1>1 DEF RowsSeen
<1>4. \A t \in Times : Holds(g, t) \/ Holds(h, t) => Holds(c, t)
  BY <1>1 DEF Holds
<1> QED BY <1>2, <1>3, <1>4 DEF c

\* What a page of Binance adds; start is the cursor if the exchange is honest.
LEMMA BinanceStep ==
  ASSUME market \in Table, atStart \in Table, MarketGrows, window \in Windows,
         got \in Seq(Rows), RowsInside(got), cursor \in Int, Ms * window.from <= cursor,
         NEW start \in {cursor, Ms * window.from}
  PROVE  LET page == BinanceRows(start)
             g == got \o page
         IN  /\ g \in Seq(Rows) /\ RowsInside(g)
             /\ ~BinanceEnds(page) => /\ BinanceNext(page) \in Int
                                      /\ Ms * window.from <= BinanceNext(page)
             /\ RowsSeen(got) => RowsSeen(g)
             /\ start = cursor /\ UpTo(got, cursor) =>
                  /\ ~BinanceEnds(page) => UpTo(g, BinanceNext(page))
                  /\ \A i, j \in DOMAIN g : i < j => g[i].ms < g[j].ms
                  /\ BinanceEnds(page) =>
                       \A t \in Times \cap Span(window) : atStart[t] > 0 => Holds(g, t)
<1> DEFINE page == BinanceRows(start)
           g == got \o page
           last == page[Len(page)].ms
<1>0. /\ window.from \in Int /\ window.to \in Int
      /\ Ms * window.from \in Int /\ Ms * window.to \in Int
      /\ start \in Int /\ Ms * window.from <= start
      /\ PageSize["binance"] \in Nat \ {0}
  <2>1. window.from \in Int /\ window.to \in Int /\ PageSize["binance"] \in Nat \ {0}
    BY Bounds
  <2>2. Ms * window.from \in Int /\ Ms * window.to \in Int
    BY <2>1, Millis
  <2> QED BY <2>1, <2>2
<1>1. /\ page \in Seq(Rows)
      /\ \A i \in DOMAIN page : start <= page[i].ms
      /\ \A i \in DOMAIN page : \E t \in Times \cap Span(window) :
           page[i].ms = Ms * t /\ page[i].v = market[t]
      /\ \A i, j \in DOMAIN page : i < j => page[i].ms < page[j].ms
      /\ \A t \in Times : start <= Ms * t /\ t <= window.to /\ market[t] > 0 =>
           \/ Holds(page, t)
           \/ Len(page) = PageSize["binance"] /\ page[Len(page)].ms < Ms * t
  BY <1>0, BinanceRowsProperties
<1> HIDE DEF page
<1>2. RowsInside(page) /\ RowsSeen(page)
  BY <1>1, MarketSeen
<1>3. /\ g \in Seq(Rows) /\ RowsInside(g)
      /\ RowsSeen(got) => RowsSeen(g)
  BY <1>1, <1>2, RowsConcat, ConcatInside
<1>4. /\ \A i \in DOMAIN page : page[i].ms \in Int
      /\ \A i \in DOMAIN got : got[i].ms \in Int
  BY <1>1, RowFields
<1>5. ASSUME page # <<>>
      PROVE  /\ Len(page) \in DOMAIN page /\ last \in Int /\ start <= last
             /\ BinanceNext(page) = last + 1
             /\ \A i \in DOMAIN page : page[i].ms <= last
  <2>1. Len(page) \in DOMAIN page
    BY <1>1, <1>5
  <2>2. last \in Int /\ start <= last
    BY <1>1, <1>4, <2>1
  <2>3. \A i \in DOMAIN page : i = Len(page) \/ i < Len(page)
    BY <1>1
  <2>4. \A i \in DOMAIN page : page[i].ms <= last
    BY <1>1, <1>4, <2>1, <2>3
  <2> QED BY <2>1, <2>2, <2>4 DEF BinanceNext
<1>6. ASSUME ~BinanceEnds(page)
      PROVE  BinanceNext(page) \in Int /\ Ms * window.from <= BinanceNext(page)
  <2>1. page # <<>>
    BY <1>6 DEF BinanceEnds
  <2> HIDE DEF last
  <2> QED BY <1>0, <1>5, <2>1
<1>7. ASSUME start = cursor, UpTo(got, cursor), NEW i \in DOMAIN g, NEW j \in DOMAIN g, i < j
      PROVE  g[i].ms < g[j].ms
  <2>1. \A k \in DOMAIN g : \/ k \in DOMAIN got /\ g[k] = got[k]
                            \/ /\ k \notin DOMAIN got /\ k - Len(got) \in DOMAIN page
                               /\ g[k] = page[k - Len(got)]
    BY <1>1, RowsConcat
  <2>2. DOMAIN got = 1..Len(got) /\ Len(got) \in Nat /\ DOMAIN g = 1..Len(g)
    BY <1>3
  <2> HIDE DEF g
  <2>3. CASE i \in DOMAIN got /\ j \in DOMAIN got
    BY <1>7, <2>1, <2>3 DEF UpTo
  <2>4. CASE i \in DOMAIN got /\ j \notin DOMAIN got
    <3>1. got[i].ms < cursor /\ cursor <= page[j - Len(got)].ms /\ g[i] = got[i] /\ g[j] = page[j - Len(got)]
      BY <1>1, <1>7, <2>1, <2>4 DEF UpTo
    <3>2. got[i].ms \in Int /\ page[j - Len(got)].ms \in Int
      BY <1>4, <2>1, <2>4
    <3> QED BY <3>1, <3>2
  <2>5. CASE i \notin DOMAIN got /\ j \notin DOMAIN got
    <3>1. i - Len(got) < j - Len(got)
      BY <1>7, <2>2
    <3> QED BY <1>1, <2>1, <2>5, <3>1
  <2>6. ~(i \notin DOMAIN got /\ j \in DOMAIN got)
    BY <1>7, <2>2
  <2> QED BY <2>3, <2>4, <2>5, <2>6
<1>8. ASSUME start = cursor, UpTo(got, cursor), NEW t \in Times \cap Span(window), atStart[t] > 0,
             ~Holds(g, t)
      PROVE  /\ Len(page) = PageSize["binance"] /\ page # <<>>
             /\ last < Ms * t /\ Ms * t \in Int /\ Ms * t <= Ms * window.to
  <2>1. ~Holds(got, t) /\ ~Holds(page, t)
    BY <1>1, <1>8, ConcatInside
  <2>2. t \in Int /\ Ms * t \in Int /\ t <= window.to /\ Ms * t <= Ms * window.to
    <3>1. t \in Int /\ t <= window.to
      BY <1>0 DEF Span
    <3> QED BY <1>0, <3>1 DEF Ms
  <2>3. start <= Ms * t
    BY <1>8, <2>1, <2>2 DEF UpTo
  <2>4. market[t] > 0
    <3>1. market[t] \in Int /\ atStart[t] \in Int /\ atStart[t] <= market[t]
      BY DEF MarketGrows, Table
    <3> QED BY <1>8, <3>1
  <2>5. Len(page) = PageSize["binance"] /\ last < Ms * t
    BY <1>1, <2>1, <2>2, <2>3, <2>4
  <2> QED BY <1>0, <1>1, <2>2, <2>5
<1>9. ASSUME start = cursor, UpTo(got, cursor), ~BinanceEnds(page)
      PROVE  UpTo(g, BinanceNext(page))
  <2>1. page # <<>>
    BY <1>9 DEF BinanceEnds
  <2>2. /\ last \in Int /\ cursor <= last /\ BinanceNext(page) = last + 1
        /\ \A i \in DOMAIN page : page[i].ms <= last
    BY <1>5, <1>9, <2>1
  <2> HIDE DEF last
  <2>3. \A i \in DOMAIN got : got[i].ms < BinanceNext(page)
    BY <1>4, <1>9, <2>2 DEF UpTo
  <2>4. \A i \in DOMAIN page : page[i].ms < BinanceNext(page)
    BY <1>4, <2>2
  <2>5. \A i \in DOMAIN g : g[i].ms < BinanceNext(page)
    <3>1. \A i \in DOMAIN g : \/ i \in DOMAIN got /\ g[i] = got[i]
                              \/ i - Len(got) \in DOMAIN page /\ g[i] = page[i - Len(got)]
      BY <1>1, RowsConcat
    <3> HIDE DEF g
    <3> QED BY <2>3, <2>4, <3>1
  <2>6. \A t \in Times \cap Span(window) : atStart[t] > 0 /\ Ms * t < BinanceNext(page) => Holds(g, t)
    <3> SUFFICES ASSUME NEW t \in Times \cap Span(window), atStart[t] > 0, ~Holds(g, t)
                 PROVE  ~(Ms * t < BinanceNext(page))
      OBVIOUS
    <3>1. last < Ms * t /\ Ms * t \in Int
      BY <1>8, <1>9 DEF last
    <3> HIDE DEF g
    <3> QED BY <2>2, <3>1
  <2>7. \A i, j \in DOMAIN g : i < j => g[i].ms < g[j].ms
    BY <1>7, <1>9
  <2> HIDE DEF g
  <2> QED BY <2>5, <2>6, <2>7 DEF UpTo
<1>10. ASSUME start = cursor, UpTo(got, cursor), BinanceEnds(page),
              NEW t \in Times \cap Span(window), atStart[t] > 0
       PROVE  Holds(g, t)
  <2> SUFFICES ASSUME ~Holds(g, t) PROVE FALSE
    OBVIOUS
  <2>1. /\ Len(page) = PageSize["binance"] /\ page # <<>>
        /\ last < Ms * t /\ Ms * t \in Int /\ Ms * t <= Ms * window.to
    BY <1>8, <1>10
  <2>2. last \in Int /\ cursor <= last /\ BinanceNext(page) = last + 1
    BY <1>5, <1>10, <2>1
  <2>3. /\ ~(Len(page) < PageSize["binance"])
        /\ ~(last >= Ms * window.to)
        /\ ~(BinanceNext(page) <= cursor)
        /\ ~(BinanceNext(page) > Ms * window.to)
    <3> HIDE DEF last
    <3> QED BY <1>0, <2>1, <2>2
  <2> QED BY <1>10, <2>1, <2>3 DEF BinanceEnds
<1> QED BY <1>3, <1>6, <1>7, <1>9, <1>10 DEF page

\* What a page of Bybit adds; end is the cursor if the exchange is honest.
LEMMA BybitStep ==
  ASSUME market \in Table, atStart \in Table, MarketGrows, window \in Windows,
         got \in Seq(Rows), RowsInside(got), cursor \in Int, cursor <= Ms * window.to,
         NEW end \in {cursor, Ms * window.to}
  PROVE  LET page == BybitRows(end)
             g == got \o BybitUnseen(page)
         IN  /\ g \in Seq(Rows) /\ RowsInside(g)
             /\ ~BybitEnds(page) => BybitNext(page) \in Int /\ BybitNext(page) <= Ms * window.to
             /\ RowsSeen(got) => RowsSeen(g)
             /\ end = cursor /\ DownTo(got, cursor) =>
                  /\ ~BybitEnds(page) => DownTo(g, BybitNext(page))
                  /\ \A i, j \in DOMAIN g : i # j => g[i].ms # g[j].ms
                  /\ BybitEnds(page) =>
                       \A t \in Times \cap Span(window) : atStart[t] > 0 => Holds(g, t)
<1> DEFINE page == BybitRows(end)
           S == {row \in Range(page) : \A i \in DOMAIN got : got[i].ms # row.ms}
           new == Kept(page, S)
           g == got \o new
           last == page[Len(page)].ms
<1>0. /\ window.from \in Int /\ window.to \in Int
      /\ Ms * window.from \in Int /\ Ms * window.to \in Int
      /\ end \in Int /\ end <= Ms * window.to
      /\ PageSize["bybit"] \in Nat \ {0}
  <2>1. window.from \in Int /\ window.to \in Int /\ PageSize["bybit"] \in Nat \ {0}
    BY Bounds
  <2>2. Ms * window.from \in Int /\ Ms * window.to \in Int
    BY <2>1, Millis
  <2> QED BY <2>1, <2>2
<1>1. /\ page \in Seq(Rows)
      /\ \A i \in DOMAIN page : page[i].ms <= end
      /\ \A i \in DOMAIN page : \E t \in Times \cap Span(window) :
           page[i].ms = Ms * t /\ page[i].v = market[t]
      /\ \A i, j \in DOMAIN page : i < j => page[j].ms < page[i].ms
      /\ \A t \in Times : window.from <= t /\ Ms * t <= end /\ market[t] > 0 =>
           \/ Holds(page, t)
           \/ Len(page) = PageSize["bybit"] /\ Ms * t < page[Len(page)].ms
  BY <1>0, BybitRowsProperties
<1>2. BybitUnseen(page) = new
  BY DEF BybitUnseen
<1>3. \A i \in DOMAIN page : page[i] \in S <=> \A j \in DOMAIN got : got[j].ms # page[i].ms
  BY DEF Range
<1> HIDE DEF page, S
<1>4. new \in Seq(Rows)
  BY <1>1, KeptProperties
<1>5. PICK at \in [DOMAIN new -> DOMAIN page] :
        /\ \A i \in DOMAIN new : new[i] = page[at[i]] /\ page[at[i]] \in S
        /\ \A i \in DOMAIN page : page[i] \in S => \E j \in DOMAIN new : at[j] = i
        /\ \A i, j \in DOMAIN new : i < j => at[i] < at[j]
  BY <1>1, KeptProperties
<1> HIDE DEF new
<1>6. RowsInside(new) /\ RowsSeen(new)
  <2>1. \A i \in DOMAIN new : \E t \in Times \cap Span(window) :
          new[i].ms = Ms * t /\ new[i].v = market[t]
    BY <1>1, <1>5
  <2> QED BY <1>4, <2>1, MarketSeen
<1>7. /\ g \in Seq(Rows) /\ RowsInside(g)
      /\ RowsSeen(got) => RowsSeen(g)
  BY <1>4, <1>6, RowsConcat, ConcatInside
<1>8. /\ \A i \in DOMAIN page : page[i].ms \in Int
      /\ \A i \in DOMAIN got : got[i].ms \in Int
  BY <1>1, RowFields
<1>9. ASSUME page # <<>>
      PROVE  /\ Len(page) \in DOMAIN page /\ last \in Int /\ last <= end
             /\ BybitNext(page) = last - 1
             /\ \A i \in DOMAIN page : last <= page[i].ms
  <2>1. Len(page) \in DOMAIN page
    BY <1>1, <1>9
  <2>2. last \in Int /\ last <= end
    BY <1>1, <1>8, <2>1
  <2>3. \A i \in DOMAIN page : i = Len(page) \/ i < Len(page)
    BY <1>1
  <2>4. \A i \in DOMAIN page : last <= page[i].ms
    BY <1>1, <1>8, <2>1, <2>3
  <2> QED BY <2>1, <2>2, <2>4 DEF BybitNext
<1>10. ASSUME ~BybitEnds(page)
       PROVE  BybitNext(page) \in Int /\ BybitNext(page) <= Ms * window.to
  <2>1. page # <<>>
    BY <1>10 DEF BybitEnds
  <2> HIDE DEF last
  <2> QED BY <1>0, <1>9, <2>1
<1>11. \A k \in DOMAIN g : \/ k \in DOMAIN got /\ g[k] = got[k]
                           \/ /\ k \notin DOMAIN got /\ k - Len(got) \in DOMAIN new
                              /\ g[k] = new[k - Len(got)]
  BY <1>4, RowsConcat
<1>12. ASSUME end = cursor, DownTo(got, cursor) PROVE \A i \in DOMAIN page : page[i] \in S
  <2>1. \A i \in DOMAIN page, j \in DOMAIN got : page[i].ms <= cursor /\ cursor < got[j].ms
    BY <1>1, <1>12 DEF DownTo
  <2> QED BY <1>3, <1>8, <2>1
<1>13. ASSUME DownTo(got, cursor), NEW i \in DOMAIN g, NEW j \in DOMAIN g, i # j
       PROVE  g[i].ms # g[j].ms
  <2>1. DOMAIN got = 1..Len(got) /\ Len(got) \in Nat /\ DOMAIN g = 1..Len(g)
    BY <1>7
  <2>2. \A k \in DOMAIN new, m \in DOMAIN got : new[k].ms # got[m].ms
    BY <1>3, <1>5
  <2>3. ASSUME NEW k \in DOMAIN new, NEW m \in DOMAIN new, k < m PROVE new[m].ms # new[k].ms
    <3>1. page[at[m]].ms < page[at[k]].ms /\ page[at[m]].ms \in Int /\ page[at[k]].ms \in Int
      BY <1>1, <1>5, <1>8, <2>3
    <3> QED BY <1>5, <3>1
  <2> HIDE DEF g
  <2>4. CASE i \in DOMAIN got /\ j \in DOMAIN got
    BY <1>11, <1>13, <2>4 DEF DownTo
  <2>5. CASE i \in DOMAIN got /\ j \notin DOMAIN got
    BY <1>11, <2>2, <2>5
  <2>6. CASE i \notin DOMAIN got /\ j \in DOMAIN got
    BY <1>11, <2>2, <2>6
  <2>7. CASE i \notin DOMAIN got /\ j \notin DOMAIN got
    <3>1. /\ i - Len(got) \in DOMAIN new /\ g[i] = new[i - Len(got)]
          /\ j - Len(got) \in DOMAIN new /\ g[j] = new[j - Len(got)]
      BY <1>11, <2>7
    <3>2. i - Len(got) < j - Len(got) \/ j - Len(got) < i - Len(got)
      BY <1>13, <2>1
    <3> QED BY <2>3, <3>1, <3>2
  <2> QED BY <2>4, <2>5, <2>6, <2>7
<1>14. ASSUME end = cursor, DownTo(got, cursor), NEW t \in Times \cap Span(window), atStart[t] > 0,
              ~Holds(g, t)
       PROVE  /\ Len(page) = PageSize["bybit"] /\ page # <<>>
              /\ Ms * t < last /\ Ms * t \in Int /\ Ms * window.from <= Ms * t
  <2>1. ~Holds(got, t) /\ ~Holds(page, t)
    <3>1. ~Holds(got, t) /\ ~Holds(new, t)
      BY <1>4, <1>14, ConcatInside
    <3>2. Holds(page, t) => Holds(new, t)
      BY <1>5, <1>12, <1>14 DEF Holds
    <3> QED BY <3>1, <3>2
  <2>2. t \in Int /\ Ms * t \in Int /\ window.from <= t /\ Ms * window.from <= Ms * t
    <3>1. t \in Int /\ window.from <= t
      BY <1>0 DEF Span
    <3> QED BY <1>0, <3>1 DEF Ms
  <2>3. Ms * t <= end
    BY <1>14, <2>1, <2>2 DEF DownTo
  <2>4. market[t] > 0
    <3>1. market[t] \in Int /\ atStart[t] \in Int /\ atStart[t] <= market[t]
      BY DEF MarketGrows, Table
    <3> QED BY <1>14, <3>1
  <2>5. Len(page) = PageSize["bybit"] /\ Ms * t < last
    BY <1>1, <2>1, <2>2, <2>3, <2>4
  <2> QED BY <1>0, <1>1, <2>2, <2>5
<1>15. ASSUME end = cursor, DownTo(got, cursor), ~BybitEnds(page)
       PROVE  DownTo(g, BybitNext(page))
  <2>1. page # <<>>
    BY <1>15 DEF BybitEnds
  <2>2. /\ last \in Int /\ last <= cursor /\ BybitNext(page) = last - 1
        /\ \A i \in DOMAIN page : last <= page[i].ms
    BY <1>9, <1>15, <2>1
  <2> HIDE DEF last
  <2>3. \A i \in DOMAIN got : BybitNext(page) < got[i].ms
    BY <1>8, <1>15, <2>2 DEF DownTo
  <2>4. \A i \in DOMAIN new : BybitNext(page) < new[i].ms
    <3>1. \A i \in DOMAIN page : BybitNext(page) < page[i].ms
      BY <1>8, <2>2
    <3> QED BY <1>5, <3>1
  <2>5. \A i \in DOMAIN g : BybitNext(page) < g[i].ms
    <3> HIDE DEF g
    <3> QED BY <1>11, <2>3, <2>4
  <2>6. \A t \in Times \cap Span(window) : atStart[t] > 0 /\ BybitNext(page) < Ms * t => Holds(g, t)
    <3> SUFFICES ASSUME NEW t \in Times \cap Span(window), atStart[t] > 0, ~Holds(g, t)
                 PROVE  ~(BybitNext(page) < Ms * t)
      OBVIOUS
    <3>1. Ms * t < last /\ Ms * t \in Int
      BY <1>14, <1>15 DEF last
    <3> HIDE DEF g
    <3> QED BY <2>2, <3>1
  <2>7. \A i, j \in DOMAIN g : i # j => g[i].ms # g[j].ms
    BY <1>13, <1>15
  <2> HIDE DEF g
  <2> QED BY <2>5, <2>6, <2>7 DEF DownTo
<1>16. ASSUME end = cursor, DownTo(got, cursor), BybitEnds(page),
              NEW t \in Times \cap Span(window), atStart[t] > 0
       PROVE  Holds(g, t)
  <2> SUFFICES ASSUME ~Holds(g, t) PROVE FALSE
    OBVIOUS
  <2>1. /\ Len(page) = PageSize["bybit"] /\ page # <<>>
        /\ Ms * t < last /\ Ms * t \in Int /\ Ms * window.from <= Ms * t
    BY <1>14, <1>16
  <2>2. last \in Int /\ last <= cursor /\ BybitNext(page) = last - 1
    BY <1>9, <1>16, <2>1
  <2>3. /\ ~(Len(page) < PageSize["bybit"])
        /\ ~(last <= Ms * window.from)
        /\ ~(BybitNext(page) >= cursor)
        /\ ~(BybitNext(page) < Ms * window.from)
    <3> HIDE DEF last
    <3> QED BY <1>0, <2>1, <2>2
  <2> QED BY <1>16, <2>1, <2>3 DEF BybitEnds
<1> QED BY <1>2, <1>7, <1>10, <1>13, <1>15, <1>16 DEF page

\* The rows of Bybit, sorted, are still the same, and in order.
LEMMA SortedRows ==
  ASSUME NEW g \in Seq(Rows)
  PROVE  LET r == SortedBy(g, [i \in DOMAIN g |-> g[i].ms])
         IN  /\ r \in Seq(Rows)
             /\ RowsInside(g) => RowsInside(r)
             /\ RowsSeen(g) => RowsSeen(r)
             /\ \A t \in Times : Holds(g, t) => Holds(r, t)
             /\ (\A i, j \in DOMAIN g : i # j => g[i].ms # g[j].ms) =>
                  \A i, j \in DOMAIN r : i < j => r[i].ms < r[j].ms
<1> DEFINE K == [i \in DOMAIN g |-> g[i].ms]
           r == SortedBy(g, K)
<1>1. K \in [DOMAIN g -> Int] /\ \A i \in DOMAIN g : K[i] = g[i].ms /\ g[i].ms \in Int
  BY RowFields
<1> HIDE DEF K
<1>2. r \in Seq(Rows) /\ Len(r) = Len(g)
  BY <1>1, SortedByProperties
<1>3. PICK at \in [DOMAIN g -> DOMAIN g] :
        /\ \A i \in DOMAIN g : r[i] = g[at[i]]
        /\ \A i \in DOMAIN g : \E j \in DOMAIN g : at[j] = i
        /\ \A i, j \in DOMAIN g : i < j <=> SortsBefore(K, at[i], at[j])
  BY <1>1, SortedByProperties
<1> HIDE DEF r
<1>4. DOMAIN r = DOMAIN g
  BY <1>2
<1>5. RowsInside(g) => RowsInside(r)
  BY <1>3, <1>4 DEF RowsInside
<1>6. RowsSeen(g) => RowsSeen(r)
  BY <1>3, <1>4 DEF RowsSeen
<1>7. \A t \in Times : Holds(g, t) => Holds(r, t)
  BY <1>3, <1>4 DEF Holds
<1>8. ASSUME \A i, j \in DOMAIN g : i # j => g[i].ms # g[j].ms,
             NEW i \in DOMAIN r, NEW j \in DOMAIN r, i < j
      PROVE  r[i].ms < r[j].ms
  <2>1. SortsBefore(K, at[i], at[j]) /\ at[i] \in DOMAIN g /\ at[j] \in DOMAIN g
    BY <1>3, <1>4, <1>8
  <2>2. at[i] # at[j]
    <3>1. ~SortsBefore(K, at[j], at[i])
      BY <1>3, <1>4, <1>8
    <3> QED BY <2>1, <3>1
  <2>3. K[at[i]] # K[at[j]]
    BY <1>1, <1>8, <2>1, <2>2
  <2>4. K[at[i]] < K[at[j]]
    BY <2>1, <2>3 DEF SortsBefore
  <2> QED BY <1>1, <1>3, <1>4, <2>1, <2>4
<1> QED BY <1>2, <1>5, <1>6, <1>7, <1>8 DEF r, K

-----------------------------------------------------------------------------
(* What the answers of the paging adapters are.                            *)

LEMMA BinanceExact ==
  ASSUME NEW g \in Seq(Rows), RowsInside(g), limit \in Nat
  PROVE  /\ BinanceCandles(g) \in Seq(Candle) /\ Inside(BinanceCandles(g))
         /\ /\ RowsSeen(g)
            /\ \A i, j \in DOMAIN g : i < j => g[i].ms < g[j].ms
            /\ \A t \in Times \cap Span(window) : atStart[t] > 0 => Holds(g, t)
            /\ atStart \in Table /\ window \in Windows /\ source = "binance"
            => Exact(BinanceCandles(g))
<1>1. FromRows(g) \in Seq(Candle) /\ Inside(FromRows(g))
  BY FromRowsProperties
<1>2. BinanceCandles(g) \in Seq(Candle) /\ Inside(BinanceCandles(g))
  BY <1>1, TruncatedProperties DEF BinanceCandles
<1>3. ASSUME RowsSeen(g),
             \A i, j \in DOMAIN g : i < j => g[i].ms < g[j].ms,
             \A t \in Times \cap Span(window) : atStart[t] > 0 => Holds(g, t),
             atStart \in Table, window \in Windows, source = "binance"
      PROVE  Exact(BinanceCandles(g))
  <2>1. Whole(FromRows(g))
    BY <1>3, WholeRows
  <2> QED BY <1>1, <1>3, <2>1, WholeIsExact DEF BinanceCandles, Sources
<1> QED BY <1>2, <1>3

LEMMA BybitExact ==
  ASSUME NEW g \in Seq(Rows), RowsInside(g), limit \in Nat
  PROVE  /\ BybitCandles(g) \in Seq(Candle) /\ Inside(BybitCandles(g))
         /\ /\ RowsSeen(g)
            /\ \A i, j \in DOMAIN g : i # j => g[i].ms # g[j].ms
            /\ \A t \in Times \cap Span(window) : atStart[t] > 0 => Holds(g, t)
            /\ atStart \in Table /\ window \in Windows /\ source = "bybit"
            => Exact(BybitCandles(g))
<1> DEFINE r == SortedBy(g, [i \in DOMAIN g |-> g[i].ms])
<1>0. /\ r \in Seq(Rows)
      /\ RowsInside(g) => RowsInside(r)
      /\ RowsSeen(g) => RowsSeen(r)
      /\ \A t \in Times : Holds(g, t) => Holds(r, t)
      /\ (\A i, j \in DOMAIN g : i # j => g[i].ms # g[j].ms) =>
           \A i, j \in DOMAIN r : i < j => r[i].ms < r[j].ms
  BY SortedRows
<1>4. BybitCandles(g) = Truncated(FromRows(r))
  BY DEF BybitCandles
<1> HIDE DEF r
<1>1. FromRows(r) \in Seq(Candle) /\ Inside(FromRows(r))
  BY <1>0, FromRowsProperties
<1>2. BybitCandles(g) \in Seq(Candle) /\ Inside(BybitCandles(g))
  BY <1>1, <1>4, TruncatedProperties
<1>3. ASSUME RowsSeen(g),
             \A i, j \in DOMAIN g : i # j => g[i].ms # g[j].ms,
             \A t \in Times \cap Span(window) : atStart[t] > 0 => Holds(g, t),
             atStart \in Table, window \in Windows, source = "bybit"
      PROVE  Exact(BybitCandles(g))
  <2>1. /\ RowsInside(r) /\ RowsSeen(r)
        /\ \A i, j \in DOMAIN r : i < j => r[i].ms < r[j].ms
        /\ \A t \in Times \cap Span(window) : atStart[t] > 0 => Holds(r, t)
    BY <1>0, <1>3
  <2>2. Whole(FromRows(r))
    BY <1>0, <2>1, WholeRows
  <2> QED BY <1>1, <1>3, <1>4, <2>2, WholeIsExact DEF Sources
<1> QED BY <1>2, <1>3

-----------------------------------------------------------------------------
(* What a step leaves alone                                                *)

LEMMA ExactMeans == DeliveryIsExact <=> (delivered # None /\ honest => Exact(delivered))
  BY DEF DeliveryIsExact, Exact

\* A delivery is exact as long as it is the last one.
LEMMA DeliveryKept ==
  ASSUME DeliveryIsExact,
         UNCHANGED <<delivered, honest, market, atStart, window, source, limit>>
  PROVE  DeliveryIsExact'
<1>1. UNCHANGED <<Increasing(delivered), TimesOf(delivered), Range(delivered), Most>>
  BY DEF Increasing, TimesOf, Range, Most
<1>2. UNCHANGED DeliveryIsExact
  BY <1>1 DEF DeliveryIsExact
<1> QED BY <1>2

\* What was served stays good, whoever writes to the table.
LEMMA ServedKept ==
  ASSUME ServedRowsAreGood, UNCHANGED <<served, window, delivered>>,
         disturbed' = disturbed \/ disturbed', cleared => cleared'
  PROVE  ServedRowsAreGood'
<1>1. UNCHANGED Prepared(delivered)
  BY DEF Prepared, LastValid, LastOf, Listed
<1> QED BY <1>1 DEF ServedRowsAreGood, Increasing, Range, ValidOhlc

\* Rows that are read again are valid, and the ones that were read before unless
\* the table has been cleared.
LEMMA RereadIsGood ==
  ASSUME FeedsInv, NEW again \in Reread
  PROVE  again \in Seq(Candle) /\ Sane(again) /\ (~cleared => Good(again))
<1>1. /\ rows \in Seq(Candle) /\ Good(rows) /\ RowsStored
      /\ db \in Table /\ SaneTable(db) /\ cleared \in BOOLEAN
  BY DEF FeedsInv, FeedsTypeOK
<1>2. \A i \in DOMAIN rows : rows[i].time \in Times
  BY <1>1, CandleFields
<1> DEFINE stored == {t \in Times : db[t] > 0}
<1>3. PICK at \in [DOMAIN rows -> stored] :
        /\ again = [i \in DOMAIN rows |-> [time |-> at[i], v |-> db[at[i]]]]
        /\ ~cleared => \A i \in DOMAIN rows : at[i] = rows[i].time
  <2>1. CASE cleared
    <3>1. \E at \in [DOMAIN rows -> stored] :
            again = [i \in DOMAIN rows |-> [time |-> at[i], v |-> db[at[i]]]]
      BY <2>1 DEF Reread
    <3> QED BY <2>1, <3>1
  <2>2. CASE ~cleared
    <3> DEFINE times == [i \in DOMAIN rows |-> rows[i].time]
    <3>1. times \in [DOMAIN rows -> stored]
      BY <1>1, <1>2, <2>2 DEF RowsStored
    <3>2. again = [i \in DOMAIN rows |-> [time |-> times[i], v |-> db[times[i]]]]
      BY <2>2 DEF Reread
    <3> QED BY <3>1, <3>2
  <2> QED BY <2>1, <2>2
<1>4. \A i \in DOMAIN rows : at[i] \in Times /\ db[at[i]] > 0
  BY <1>3
<1>5. \A t \in Times : db[t] > 0 => db[t] \in Versions
  <2> SUFFICES ASSUME NEW t \in Times, db[t] > 0 PROVE db[t] \in Versions
    OBVIOUS
  <2>1. db[t] \in 0..MaxVersion
    BY <1>1 DEF Table
  <2> QED BY <2>1, Bounds DEF Versions
<1>6. \A i \in DOMAIN rows : /\ again[i] \in Candle
                             /\ again[i].time = at[i] /\ again[i].v = db[at[i]]
  BY <1>3, <1>4, <1>5 DEF Candle
<1>7. DOMAIN again = DOMAIN rows /\ again \in [DOMAIN rows -> Candle]
  <2>1. again = [i \in DOMAIN rows |-> again[i]]
    BY <1>3
  <2> QED BY <1>6, <2>1
<1>8. again \in Seq(Candle)
  <2>1. DOMAIN rows = 1..Len(rows) /\ Len(rows) \in Nat
    BY <1>1
  <2> QED BY <1>7, <2>1
<1>9. Sane(again)
  BY <1>1, <1>4, <1>6, <1>7 DEF Sane, SaneTable, ValidOhlc
<1>10. ASSUME ~cleared PROVE Ordered(again) /\ Inside(again)
  <2>1. \A i \in DOMAIN rows : again[i].time = rows[i].time
    BY <1>3, <1>6, <1>10
  <2>2. Ordered(rows) /\ Inside(rows) /\ DOMAIN again = DOMAIN rows
    BY <1>1, <1>7 DEF Good
  <2> HIDE <1>1, <1>3, <1>6, <1>7
  <2> QED BY <2>1, <2>2 DEF Ordered, Inside
<1> QED BY <1>8, <1>9, <1>10 DEF Good

\* What is served as anything but fresh only has to be good.
LEMMA GoodServed ==
  ASSUME FeedsInv, NEW label \in Labels \ {"broker"}, UNCHANGED <<window, cleared>>,
         NEW again \in Reread, served' = [label |-> label, candles |-> again]
  PROVE  ServedRowsAreGood' /\ served' \in [label : Labels, candles : Seq(Candle)]
<1>1. again \in Seq(Candle) /\ Sane(again) /\ (~cleared => Good(again))
  BY RereadIsGood
<1>2. window.from \in Int /\ window.to \in Int
  BY Bounds DEF FeedsInv, FeedsTypeOK
<1>3. ~cleared => /\ Increasing(again)
                  /\ \A i \in DOMAIN again :
                       window.from <= again[i].time /\ again[i].time <= window.to
  BY <1>1, <1>2, OrderedIsIncreasing DEF Good, Inside, Span
<1>4. \A i \in DOMAIN again : ValidOhlc(again[i])
  BY <1>1 DEF Sane
<1>5. served'.label # "broker" /\ served'.candles = again
  OBVIOUS
<1>6. served' \in [label : Labels, candles : Seq(Candle)]
  BY <1>1
<1> QED BY <1>3, <1>4, <1>5, <1>6 DEF ServedRowsAreGood, Increasing, Range, ValidOhlc

\* The except clause.
LEMMA GiveUpKeeps ==
  ASSUME FeedsInv, GiveUp, UNCHANGED <<window, delivered, disturbed, cleared>>
  PROVE  /\ ServedRowsAreGood' /\ served' \in [label : Labels, candles : Seq(Candle)]
         /\ pc' = "idle"
<1>1. CASE \E again \in Reread : Serve("database (offline)", again)
  <2>1. PICK again \in Reread : Serve("database (offline)", again)
    BY <1>1
  <2>2. served' = [label |-> "database (offline)", candles |-> again] /\ pc' = "idle"
    BY <2>1 DEF Serve
  <2>3. "database (offline)" \in Labels \ {"broker"}
    BY DEF Labels
  <2> QED BY <2>2, <2>3, GoodServed
<1>2. CASE pc' = "idle" /\ UNCHANGED served
  BY <1>2, ServedKept DEF FeedsInv, FeedsTypeOK
<1> QED BY <1>1, <1>2 DEF GiveUp

-----------------------------------------------------------------------------
(* Every step keeps the invariant                                          *)

LEMMA FeedsStart == FeedsInit => FeedsInv
<1> SUFFICES ASSUME FeedsInit PROVE FeedsInv
  OBVIOUS
<1>1. market \in Table /\ atStart = market
  <2>1. 0 \in 0..MaxVersion /\ 1 \in 0..MaxVersion
    BY Bounds
  <2> QED BY <2>1 DEF FeedsInit, Table
<1>2. db \in Table /\ \A t \in Times : db[t] = 0
  BY Bounds DEF FeedsInit, Table
<1>3. FeedsTypeOK
  <2>1. served \in [label : Labels, candles : Seq(Candle)]
    <3>1. served = [label |-> "none", candles |-> <<>>] /\ <<>> \in Seq(Candle)
      BY DEF FeedsInit
    <3> QED BY <3>1 DEF Labels
  <2>2. /\ cache \in Seq(Candle) /\ rows \in Seq(Candle) /\ got \in Seq(Rows)
        /\ delivered \in Seq(Candle) \cup {None} /\ cursor \in Int
    BY DEF FeedsInit
  <2>3. /\ pc \in {"idle", "read", "serve", "connect", "page", "store", "reload"}
        /\ source \in Sources /\ window \in Windows /\ limit \in Nat /\ force \in BOOLEAN
        /\ honest \in BOOLEAN /\ disturbed \in BOOLEAN /\ cleared \in BOOLEAN
    BY DEF FeedsInit, Sources
  <2> QED BY <1>1, <1>2, <2>1, <2>2, <2>3 DEF FeedsTypeOK
<1>4. MarketGrows
  BY <1>1 DEF MarketGrows, Table
<1>5. SaneTable(db)
  BY <1>2 DEF SaneTable
<1>6. Good(rows) /\ Good(cache) /\ RowsStored
  BY DEF FeedsInit, Good, Ordered, Inside, Sane, RowsStored
<1>7. Delivering /\ GotInside /\ PagesSoFar /\ Committed
  BY DEF FeedsInit, Delivering, GotInside, PagesSoFar, Committed
<1>8. DeliveryIsExact
  BY DEF FeedsInit, DeliveryIsExact
<1>9. ServedRowsAreGood
  BY DEF FeedsInit, ServedRowsAreGood, Increasing, Range
<1> QED BY <1>3, <1>4, <1>5, <1>6, <1>7, <1>8, <1>9 DEF FeedsInv

\* What holds of the tables and the rows read stays so while they stay.
LEMMA TablesKept ==
  ASSUME FeedsInv, UNCHANGED <<market, atStart, db, rows, cache, window, cleared>>
  PROVE  MarketGrows' /\ SaneTable(db)' /\ Good(rows)' /\ Good(cache)' /\ RowsStored'
  BY DEF FeedsInv, RowsStored, MarketGrows, SaneTable, Good, Ordered, Inside, Sane, Span, ValidOhlc

\* The load ends, and all that it changes is what it has served.
LEMMA EndKeeps ==
  ASSUME FeedsInv, pc' = "idle",
         ServedRowsAreGood', served' \in [label : Labels, candles : Seq(Candle)],
         UNCHANGED <<exchange, others, request, cache, rows, cursor, got, delivered, honest>>
  PROVE  FeedsInv'
<1>1. /\ window' = window /\ source' = source /\ limit' = limit /\ force' = force
      /\ market' = market /\ atStart' = atStart /\ db' = db /\ disturbed' = disturbed
      /\ cache' = cache /\ rows' = rows /\ delivered' = delivered /\ got' = got
      /\ cursor' = cursor /\ honest' = honest /\ cleared' = cleared
  BY DEF exchange, others, request
<1>2. FeedsTypeOK'
  BY <1>1 DEF FeedsInv, FeedsTypeOK
<1>3. MarketGrows' /\ SaneTable(db)' /\ Good(rows)' /\ Good(cache)' /\ RowsStored'
  BY <1>1, TablesKept
<1>4. Delivering' /\ GotInside' /\ PagesSoFar' /\ Committed'
  BY DEF Delivering, GotInside, PagesSoFar, Committed
<1>5. DeliveryIsExact'
  BY <1>1, DeliveryKept DEF FeedsInv
<1> QED BY <1>2, <1>3, <1>4, <1>5 DEF FeedsInv

LEMMA NothingServed ==
  ASSUME served' = [label |-> "none", candles |-> <<>>]
  PROVE  ServedRowsAreGood'
  BY DEF ServedRowsAreGood, Increasing, Range

\* A call begins with nothing read, delivered or served.
LEMMA CallStep == FeedsInv /\ (Call \/ CallAdapter) => FeedsInv'
<1> SUFFICES ASSUME FeedsInv, Call \/ CallAdapter PROVE FeedsInv'
  OBVIOUS
<1>1. /\ pc' \in {"idle", "read", "connect"}
      /\ cache' = <<>> /\ rows' = <<>> /\ got' = <<>> /\ delivered' = None
      /\ served' = [label |-> "none", candles |-> <<>>]
      /\ force' \in BOOLEAN /\ limit' \in Nat
      /\ cleared' = FALSE
      /\ UNCHANGED <<exchange, db, disturbed, source, window, cursor, parity, honest>>
  <2>1. CASE Call
    BY <2>1 DEF Call
  <2>2. CASE CallAdapter
    <3>1. limit' \in Nat
      BY <2>2, Bounds DEF CallAdapter
    <3> QED BY <2>2, <3>1 DEF CallAdapter
  <2> QED BY <2>1, <2>2
<1>2. FeedsTypeOK'
  <2>1. served' \in [label : Labels, candles : Seq(Candle)]
    <3>1. <<>> \in Seq(Candle)
      OBVIOUS
    <3> QED BY <1>1, <3>1 DEF Labels
  <2>2. /\ cache' \in Seq(Candle) /\ rows' \in Seq(Candle) /\ got' \in Seq(Rows)
        /\ delivered' \in Seq(Candle) \cup {None}
    BY <1>1
  <2> QED BY <1>1, <2>1, <2>2 DEF FeedsInv, FeedsTypeOK, exchange
<1>3. MarketGrows' /\ SaneTable(db)'
  BY <1>1 DEF FeedsInv, MarketGrows, SaneTable, exchange
<1>4. Good(rows)' /\ Good(cache)' /\ RowsStored'
  BY <1>1 DEF Good, Ordered, Inside, Sane, RowsStored
<1>5. Delivering' /\ GotInside' /\ PagesSoFar' /\ Committed'
  BY <1>1 DEF Delivering, GotInside, PagesSoFar, Committed
<1>6. DeliveryIsExact'
  BY <1>1 DEF DeliveryIsExact
<1>7. ServedRowsAreGood'
  BY <1>1, NothingServed
<1> QED BY <1>2, <1>3, <1>4, <1>5, <1>6, <1>7 DEF FeedsInv

LEMMA ReadRowsStep == FeedsInv /\ ReadRows => FeedsInv'
<1> SUFFICES ASSUME FeedsInv, ReadRows PROVE FeedsInv'
  OBVIOUS
<1>1. /\ pc = "read" /\ cache = <<>> /\ delivered = None /\ got = <<>>
      /\ served.label # "broker" /\ pc' \in {"serve", "connect"}
      /\ rows' = Loaded(db, cache, window) /\ cache' = rows'
      /\ UNCHANGED <<exchange, others, request, session, cursor, parity, got, delivered,
                     served, honest>>
  BY DEF ReadRows, FeedsInv, Delivering, Committed
<1>2. /\ rows' \in Seq(Candle) /\ Good(rows')
      /\ \A i \in DOMAIN rows' : db[rows'[i].time] > 0
  BY <1>1, LoadedProperties DEF FeedsInv, FeedsTypeOK
<1>3. FeedsTypeOK'
  BY <1>1, <1>2 DEF FeedsInv, FeedsTypeOK, exchange, others, request
<1>4. MarketGrows' /\ SaneTable(db)'
  BY <1>1 DEF FeedsInv, MarketGrows, SaneTable, exchange, others
<1>5. Good(rows)' /\ Good(cache)' /\ RowsStored'
  BY <1>1, <1>2 DEF Good, Ordered, Inside, Sane, Span, ValidOhlc, RowsStored, request, others
<1>6. Delivering' /\ GotInside' /\ PagesSoFar' /\ Committed'
  BY <1>1 DEF Delivering, GotInside, PagesSoFar, Committed
<1>7. DeliveryIsExact'
  BY <1>1 DEF DeliveryIsExact
<1>8. ServedRowsAreGood'
  BY <1>1, ServedKept DEF FeedsInv, others, request
<1> QED BY <1>3, <1>4, <1>5, <1>6, <1>7, <1>8 DEF FeedsInv

\* The rows of a window that was covered are read again and served, or are gone.
LEMMA ServeStoredStep == FeedsInv /\ ServeStored => FeedsInv'
<1> SUFFICES ASSUME FeedsInv, ServeStored PROVE FeedsInv'
  OBVIOUS
<1>1. /\ pc' = "idle"
      /\ UNCHANGED <<exchange, others, request, session, cache, rows, cursor, parity, got,
                     delivered, honest>>
  BY DEF ServeStored, Serve
<1>2. ServedRowsAreGood' /\ served' \in [label : Labels, candles : Seq(Candle)]
  <2>1. CASE \E again \in Reread : Serve("database", again)
    <3>1. PICK again \in Reread : Serve("database", again)
      BY <2>1
    <3>2. served' = [label |-> "database", candles |-> again]
      BY <3>1 DEF Serve
    <3>3. "database" \in Labels \ {"broker"} /\ UNCHANGED <<window, cleared>>
      BY <1>1 DEF Labels, others, request
    <3> QED BY <3>2, <3>3, GoodServed
  <2>2. CASE UNCHANGED served
    BY <1>1, <2>2, ServedKept DEF FeedsInv, FeedsTypeOK, others, request
  <2> QED BY <2>1, <2>2 DEF ServeStored
<1> QED BY <1>1, <1>2, EndKeeps

LEMMA ConnectStep == FeedsInv /\ Connect => FeedsInv'
<1> SUFFICES ASSUME FeedsInv, Connect PROVE FeedsInv'
  OBVIOUS
<1>1. /\ pc = "connect" /\ delivered = None /\ got = <<>> /\ served.label # "broker"
      /\ atStart' = market /\ honest' = TRUE
      /\ cursor' = Ms * (IF source = "bybit" THEN window.to ELSE window.from)
      /\ UNCHANGED <<market, others, request, cache, rows, parity, got, delivered>>
  BY DEF Connect, FeedsInv, Delivering
<1>2. /\ window.from \in Int /\ window.to \in Int
      /\ Ms * window.from \in Int /\ Ms * window.to \in Int
      /\ window' = window /\ source' = source /\ limit' = limit /\ force' = force
  <2>1. window.from \in Int /\ window.to \in Int
    BY Bounds DEF FeedsInv, FeedsTypeOK
  <2> QED BY <1>1, <2>1, Millis DEF request
<1>3. /\ \/ pc' = "page" /\ served' = served
         \/ pc' = "idle"
      /\ ServedRowsAreGood' /\ served' \in [label : Labels, candles : Seq(Candle)]
  <2>1. CASE pc' = "page" /\ served' = served
    BY <1>1, <1>2, <2>1, ServedKept DEF FeedsInv, FeedsTypeOK, others
  <2>2. CASE GiveUp
    BY <1>1, <1>2, <2>2, GiveUpKeeps DEF others
  <2> QED BY <2>1, <2>2 DEF Connect
<1>4. FeedsTypeOK'
  BY <1>1, <1>2, <1>3 DEF FeedsInv, FeedsTypeOK, others
<1>5. MarketGrows'
  BY <1>1 DEF FeedsInv, FeedsTypeOK, MarketGrows, Table
<1>6. SaneTable(db)' /\ Good(rows)' /\ Good(cache)' /\ RowsStored'
  BY <1>1, <1>2 DEF FeedsInv, SaneTable, Good, Ordered, Inside, Sane, Span, ValidOhlc,
                    RowsStored, others
<1>7. Delivering' /\ Committed'
  BY <1>1, <1>3 DEF Delivering, Committed
<1>8. GotInside'
  BY <1>1, <1>2 DEF GotInside, RowsInside
<1>9. PagesSoFar'
  <2>1. RowsSeen(got)'
    BY <1>1 DEF RowsSeen
  <2>2. source = "binance" => UpTo(got, cursor)'
    <3> SUFFICES ASSUME source = "binance", NEW t \in Times \cap Span(window)
                 PROVE  ~(Ms * t < Ms * window.from)
      BY <1>1, <1>2 DEF UpTo, Span
    <3>1. t \in Int /\ window.from <= t
      BY <1>2 DEF Span
    <3> QED BY <1>2, <3>1, Millis
  <2>3. source = "bybit" => DownTo(got, cursor)'
    <3> SUFFICES ASSUME source = "bybit", NEW t \in Times \cap Span(window)
                 PROVE  ~(Ms * window.to < Ms * t)
      BY <1>1, <1>2 DEF DownTo, Span
    <3>1. t \in Int /\ t <= window.to
      BY <1>2 DEF Span
    <3> QED BY <1>2, <3>1, Millis
  <2> QED BY <1>2, <2>1, <2>2, <2>3 DEF PagesSoFar
<1>10. DeliveryIsExact'
  BY <1>1 DEF DeliveryIsExact
<1> QED BY <1>3, <1>4, <1>5, <1>6, <1>7, <1>8, <1>9, <1>10 DEF FeedsInv

\* What an adapter returns is in the window, and exact if it asked an honest
\* exchange; then the load goes on to the table.
LEMMA DeliverStep ==
  ASSUME FeedsInv, pc = "page", NEW candles, Deliver(candles),
         candles \in Seq(Candle), Inside(candles), honest' => Exact(candles), honest' \in BOOLEAN,
         got' \in Seq(Rows),
         UNCHANGED <<exchange, others, request, cache, rows, served>>
  PROVE  FeedsInv'
<1>1. /\ delivered' = candles /\ cursor' = cursor
      /\ pc' \in {"store", "idle"}
      /\ window' = window /\ source' = source /\ limit' = limit /\ force' = force
      /\ market' = market /\ atStart' = atStart /\ db' = db /\ disturbed' = disturbed
      /\ cache' = cache /\ rows' = rows /\ served' = served /\ cleared' = cleared
  BY DEF Deliver, exchange, others, request
<1>2. served.label # "broker"
  BY DEF FeedsInv, Delivering
<1>3. FeedsTypeOK'
  BY <1>1 DEF FeedsInv, FeedsTypeOK
<1>4. MarketGrows' /\ SaneTable(db)' /\ Good(rows)' /\ Good(cache)' /\ RowsStored'
  BY <1>1, TablesKept
<1>5. Delivering'
  BY <1>1, <1>2 DEF Delivering, Inside, Span
<1>6. GotInside' /\ PagesSoFar' /\ Committed'
  BY <1>1 DEF GotInside, PagesSoFar, Committed
<1>7. DeliveryIsExact'
  <2> SUFFICES ASSUME honest' PROVE Exact(delivered)'
    BY DEF DeliveryIsExact, Exact
  <2>1. Exact(candles)
    OBVIOUS
  <2>2. /\ Increasing(delivered)' = Increasing(candles) /\ TimesOf(delivered)' = TimesOf(candles)
        /\ Range(delivered)' = Range(candles) /\ Most' = Most
    BY <1>1 DEF Increasing, TimesOf, Range, Most
  <2> QED BY <1>1, <2>1, <2>2 DEF Exact
<1>8. ServedRowsAreGood'
  BY <1>1, <1>2 DEF FeedsInv, ServedRowsAreGood, Increasing, Range, ValidOhlc
<1> QED BY <1>3, <1>4, <1>5, <1>6, <1>7, <1>8 DEF FeedsInv

\* A page that is not the last.
LEMMA NextPage ==
  ASSUME FeedsInv, pc = "page", pc' = pc, got' \in Seq(Rows), honest' \in BOOLEAN, cursor' \in Int,
         UNCHANGED <<delivered, exchange, others, request, cache, rows, served>>,
         RowsInside(got'),
         source = "binance" => Ms * window.from <= cursor',
         source = "bybit" => cursor' <= Ms * window.to,
         honest' => /\ RowsSeen(got')
                    /\ source = "binance" => UpTo(got', cursor')
                    /\ source = "bybit" => DownTo(got', cursor')
  PROVE  FeedsInv'
<1>1. /\ window' = window /\ source' = source /\ limit' = limit /\ force' = force
      /\ market' = market /\ atStart' = atStart /\ db' = db /\ disturbed' = disturbed
      /\ cache' = cache /\ rows' = rows /\ served' = served /\ delivered' = delivered
      /\ cleared' = cleared
      /\ delivered = None /\ served.label # "broker"
  BY DEF FeedsInv, Delivering, exchange, others, request
<1>2. FeedsTypeOK'
  BY <1>1 DEF FeedsInv, FeedsTypeOK
<1>3. MarketGrows' /\ SaneTable(db)' /\ Good(rows)' /\ Good(cache)' /\ RowsStored'
  BY <1>1, TablesKept
<1>4. Delivering' /\ Committed'
  BY <1>1 DEF Delivering, Committed
<1>5. GotInside'
  BY <1>1 DEF GotInside, RowsInside, Span
<1>6. PagesSoFar'
  <2>1. RowsSeen(got') <=> RowsSeen(got)'
    BY <1>1 DEF RowsSeen, Seen
  <2>2. (UpTo(got', cursor') <=> UpTo(got, cursor)') /\ (DownTo(got', cursor') <=> DownTo(got, cursor)')
    BY <1>1 DEF UpTo, DownTo, Holds, Span
  <2> QED BY <1>1, <2>1, <2>2 DEF PagesSoFar
<1>7. DeliveryIsExact'
  BY <1>1 DEF DeliveryIsExact
<1>8. ServedRowsAreGood'
  BY <1>1, ServedKept DEF FeedsInv
<1> QED BY <1>2, <1>3, <1>4, <1>5, <1>6, <1>7, <1>8 DEF FeedsInv

LEMMA BinancePageStep == FeedsInv /\ BinancePage => FeedsInv'
<1> SUFFICES ASSUME FeedsInv, BinancePage PROVE FeedsInv'
  OBVIOUS
<1>1. PICK start \in {cursor, Ms * window.from} :
        /\ got' = got \o BinanceRows(start)
        /\ honest' = (honest /\ start = cursor)
        /\ IF BinanceEnds(BinanceRows(start)) THEN Deliver(BinanceCandles(got'))
           ELSE /\ cursor' = BinanceNext(BinanceRows(start))
                /\ UNCHANGED <<delivered, session, pc>>
  BY DEF BinancePage
<1>2. /\ pc = "page" /\ source = "binance"
      /\ UNCHANGED <<exchange, others, request, cache, rows, served>>
  BY DEF BinancePage
<1> DEFINE page == BinanceRows(start)
           g == got \o page
<1>3. /\ market \in Table /\ atStart \in Table /\ MarketGrows /\ window \in Windows /\ limit \in Nat
      /\ got \in Seq(Rows) /\ RowsInside(got) /\ cursor \in Int /\ Ms * window.from <= cursor
      /\ honest \in BOOLEAN
      /\ honest => RowsSeen(got) /\ UpTo(got, cursor)
  BY <1>2 DEF FeedsInv, FeedsTypeOK, GotInside, PagesSoFar
<1>4. /\ g \in Seq(Rows) /\ RowsInside(g)
      /\ ~BinanceEnds(page) => /\ BinanceNext(page) \in Int
                               /\ Ms * window.from <= BinanceNext(page)
      /\ RowsSeen(got) => RowsSeen(g)
      /\ start = cursor /\ UpTo(got, cursor) =>
           /\ ~BinanceEnds(page) => UpTo(g, BinanceNext(page))
           /\ \A i, j \in DOMAIN g : i < j => g[i].ms < g[j].ms
           /\ BinanceEnds(page) =>
                \A t \in Times \cap Span(window) : atStart[t] > 0 => Holds(g, t)
  BY <1>3, BinanceStep
<1>5. honest' => honest /\ start = cursor
  BY <1>1
<1>6. honest' \in BOOLEAN
  BY <1>1, <1>3
<1>7. CASE BinanceEnds(page)
  <2>1. BinanceCandles(g) \in Seq(Candle) /\ Inside(BinanceCandles(g))
    BY <1>3, <1>4, BinanceExact
  <2>2. honest' => Exact(BinanceCandles(g))
    <3> HIDE DEF g, page
    <3> QED BY <1>2, <1>3, <1>4, <1>5, <1>7, BinanceExact
  <2>3. Deliver(BinanceCandles(g)) /\ got' = g
    BY <1>1, <1>7
  <2> HIDE DEF g, page
  <2> QED BY <1>2, <1>4, <1>6, <2>1, <2>2, <2>3, DeliverStep
<1>8. CASE ~BinanceEnds(page)
  <2>1. /\ got' = g /\ cursor' = BinanceNext(page) /\ UNCHANGED <<delivered, session, pc>>
    BY <1>1, <1>8
  <2> HIDE DEF g, page
  <2> QED BY <1>2, <1>3, <1>4, <1>5, <1>6, <1>8, <2>1, NextPage
<1> QED BY <1>7, <1>8

LEMMA BybitPageStep == FeedsInv /\ BybitPage => FeedsInv'
<1> SUFFICES ASSUME FeedsInv, BybitPage PROVE FeedsInv'
  OBVIOUS
<1>1. PICK end \in {cursor, Ms * window.to} :
        /\ got' = got \o BybitUnseen(BybitRows(end))
        /\ honest' = (honest /\ end = cursor)
        /\ IF BybitEnds(BybitRows(end)) THEN Deliver(BybitCandles(got'))
           ELSE /\ cursor' = BybitNext(BybitRows(end))
                /\ UNCHANGED <<delivered, session, pc>>
  BY DEF BybitPage
<1>2. /\ pc = "page" /\ source = "bybit"
      /\ UNCHANGED <<exchange, others, request, cache, rows, served>>
  BY DEF BybitPage
<1> DEFINE page == BybitRows(end)
           g == got \o BybitUnseen(page)
<1>3. /\ market \in Table /\ atStart \in Table /\ MarketGrows /\ window \in Windows /\ limit \in Nat
      /\ got \in Seq(Rows) /\ RowsInside(got) /\ cursor \in Int /\ cursor <= Ms * window.to
      /\ honest \in BOOLEAN
      /\ honest => RowsSeen(got) /\ DownTo(got, cursor)
  BY <1>2 DEF FeedsInv, FeedsTypeOK, GotInside, PagesSoFar
<1>4. /\ g \in Seq(Rows) /\ RowsInside(g)
      /\ ~BybitEnds(page) => BybitNext(page) \in Int /\ BybitNext(page) <= Ms * window.to
      /\ RowsSeen(got) => RowsSeen(g)
      /\ end = cursor /\ DownTo(got, cursor) =>
           /\ ~BybitEnds(page) => DownTo(g, BybitNext(page))
           /\ \A i, j \in DOMAIN g : i # j => g[i].ms # g[j].ms
           /\ BybitEnds(page) =>
                \A t \in Times \cap Span(window) : atStart[t] > 0 => Holds(g, t)
  BY <1>3, BybitStep
<1>5. honest' => honest /\ end = cursor
  BY <1>1
<1>6. honest' \in BOOLEAN
  BY <1>1, <1>3
<1>7. CASE BybitEnds(page)
  <2>1. BybitCandles(g) \in Seq(Candle) /\ Inside(BybitCandles(g))
    BY <1>3, <1>4, BybitExact
  <2>2. honest' => Exact(BybitCandles(g))
    <3> HIDE DEF g, page
    <3> QED BY <1>2, <1>3, <1>4, <1>5, <1>7, BybitExact
  <2>3. Deliver(BybitCandles(g)) /\ got' = g
    BY <1>1, <1>7
  <2> HIDE DEF g, page
  <2> QED BY <1>2, <1>4, <1>6, <2>1, <2>2, <2>3, DeliverStep
<1>8. CASE ~BybitEnds(page)
  <2>1. /\ got' = g /\ cursor' = BybitNext(page) /\ UNCHANGED <<delivered, session, pc>>
    BY <1>1, <1>8
  <2> HIDE DEF g, page
  <2> QED BY <1>2, <1>3, <1>4, <1>5, <1>6, <1>8, <2>1, NextPage
<1> QED BY <1>7, <1>8

LEMMA AnswerStep == FeedsInv /\ (TwelveDataAnswer \/ TBankAnswer) => FeedsInv'
<1> SUFFICES ASSUME FeedsInv, TwelveDataAnswer \/ TBankAnswer PROVE FeedsInv'
  OBVIOUS
<1>1. /\ market \in Table /\ atStart \in Table /\ MarketGrows /\ window \in Windows /\ limit \in Nat
      /\ got \in Seq(Rows) /\ honest \in BOOLEAN
  BY DEF FeedsInv, FeedsTypeOK
<1>2. CASE TwelveDataAnswer
  <2>1. /\ pc = "page" /\ source = "twelvedata" /\ Deliver(TwelveDataCandles(TwelveDataValues))
        /\ UNCHANGED <<exchange, others, request, cache, rows, got, served, honest>>
    BY <1>2 DEF TwelveDataAnswer
  <2>2. LET d == TwelveDataCandles(TwelveDataValues)
        IN  d \in Seq(Candle) /\ Inside(d) /\ Exact(d)
    BY <1>1, <2>1, TwelveDataExact
  <2> QED BY <1>1, <2>1, <2>2, DeliverStep
<1>3. CASE TBankAnswer
  <2>1. /\ pc = "page" /\ source = "tbank" /\ Deliver(Truncated(TBankCandles))
        /\ UNCHANGED <<exchange, others, request, cache, rows, got, served, honest>>
    BY <1>3 DEF TBankAnswer, TBankConverted
  <2>2. TBankCandles \in Seq(Candle) /\ Inside(TBankCandles) /\ Whole(TBankCandles)
    BY <1>1, TBankExact
  <2>3. Truncated(TBankCandles) \in Seq(Candle) /\ Inside(Truncated(TBankCandles))
    BY <1>1, <2>2, TruncatedProperties
  <2>4. Exact(Truncated(TBankCandles))
    BY <1>1, <2>1, <2>2, WholeIsExact DEF Sources
  <2> QED BY <1>1, <2>1, <2>3, <2>4, DeliverStep
<1> QED BY <1>2, <1>3

\* A failure drops the answer, and what is served instead was read before.
LEMMA FailureStep ==
  ASSUME FeedsInv, GiveUp,
         UNCHANGED <<exchange, others, request, cache, rows, cursor, got, delivered, honest>>
  PROVE  FeedsInv'
<1>1. ServedRowsAreGood' /\ served' \in [label : Labels, candles : Seq(Candle)] /\ pc' = "idle"
  BY GiveUpKeeps DEF others, request
<1> QED BY <1>1, EndKeeps

LEMMA RequestFailsStep == FeedsInv /\ RequestFails => FeedsInv'
  BY FailureStep DEF RequestFails

LEMMA DatabaseFailsStep == FeedsInv /\ DatabaseFails => FeedsInv'
<1> SUFFICES ASSUME FeedsInv, DatabaseFails PROVE FeedsInv'
  OBVIOUS
<1>1. UNCHANGED <<exchange, others, request, cache, rows, cursor, got, delivered, honest>>
  BY DEF DatabaseFails
<1>2. CASE GiveUp
  BY <1>1, <1>2, FailureStep
<1>3. CASE pc' = "idle" /\ UNCHANGED served
  <2>1. ServedRowsAreGood' /\ served' \in [label : Labels, candles : Seq(Candle)]
    BY <1>1, <1>3, ServedKept DEF FeedsInv, FeedsTypeOK, others, request
  <2> QED BY <1>1, <1>3, <2>1, EndKeeps
<1> QED BY <1>2, <1>3 DEF DatabaseFails

LEMMA StoreCandlesStep == FeedsInv /\ StoreCandles => FeedsInv'
<1> SUFFICES ASSUME FeedsInv, StoreCandles PROVE FeedsInv'
  OBVIOUS
<1> DEFINE good == Prepared(delivered)
<1>1. /\ pc = "store"
      /\ UNCHANGED <<exchange, cleared, request, session, rows, cursor, parity, got, delivered,
                     honest>>
      /\ \/ GiveUp /\ UNCHANGED <<db, cache, disturbed>>
         \/ /\ db' = Upserted(db, good) /\ cache' = <<>> /\ disturbed' = FALSE
            /\ pc' = "reload" /\ served' = served
  BY DEF StoreCandles
<1>2. delivered \in Seq(Candle) /\ Inside(delivered) /\ served.label # "broker"
  BY <1>1 DEF FeedsInv, Delivering
<1>3. good \in Seq(Candle) /\ Ordered(good) /\ Sane(good)
  BY <1>2, PreparedProperties
<1>4. CASE GiveUp /\ UNCHANGED <<db, cache, disturbed>>
  BY <1>1, <1>4, FailureStep DEF others
<1>5. CASE /\ db' = Upserted(db, good) /\ cache' = <<>> /\ disturbed' = FALSE
           /\ pc' = "reload" /\ served' = served
  <2>1. /\ window' = window /\ source' = source /\ limit' = limit /\ force' = force
        /\ market' = market /\ atStart' = atStart /\ rows' = rows /\ delivered' = delivered
        /\ got' = got /\ cursor' = cursor /\ honest' = honest /\ cleared' = cleared
    BY <1>1 DEF exchange, request
  <2>2. good' = good
    BY <2>1 DEF Prepared, LastValid, LastOf, Listed
  <2> HIDE DEF good
  <2>3. /\ db' \in Table
        /\ \A c \in Range(good) : db'[c.time] = c.v
        /\ \A t \in Times : db[t] > 0 => db'[t] > 0
        /\ SaneTable(db')
    BY <1>3, <1>5, UpsertedProperties DEF FeedsInv, FeedsTypeOK
  <2>4. FeedsTypeOK'
    <3>1. cache' \in Seq(Candle)
      <4>1. <<>> \in Seq(Candle)
        OBVIOUS
      <4> QED BY <1>5, <4>1
    <3>2. pc' \in {"idle", "read", "serve", "connect", "page", "store", "reload"}
      BY <1>5
    <3>3. disturbed' \in BOOLEAN
      BY <1>5
    <3> QED BY <1>5, <2>1, <2>3, <3>1, <3>2, <3>3 DEF FeedsInv, FeedsTypeOK
  <2>5. MarketGrows' /\ SaneTable(db)'
    BY <2>1, <2>3 DEF FeedsInv, MarketGrows, SaneTable
  <2>6. Good(rows)' /\ Good(cache)' /\ RowsStored'
    <3>1. Good(rows)' /\ Good(cache)'
      BY <1>5, <2>1 DEF FeedsInv, Good, Ordered, Inside, Sane, Span, ValidOhlc
    <3>2. \A i \in DOMAIN rows : rows[i].time \in Times
      BY CandleFields DEF FeedsInv, FeedsTypeOK
    <3>3. RowsStored'
      BY <2>1, <2>3, <3>2 DEF FeedsInv, RowsStored
    <3> QED BY <3>1, <3>3
  <2>7. Delivering'
    BY <1>2, <1>5, <2>1 DEF Delivering, Inside, Span
  <2>8. GotInside' /\ PagesSoFar'
    BY <1>5 DEF GotInside, PagesSoFar
  <2>9. Committed'
    <3>1. Range(good)' = Range(good)
      BY <2>2 DEF Range
    <3> QED BY <1>5, <2>3, <3>1 DEF Committed, good
  <2>10. DeliveryIsExact'
    BY <2>1, DeliveryKept DEF FeedsInv
  <2>11. ServedRowsAreGood'
    BY <1>2, <1>5, <2>1 DEF FeedsInv, ServedRowsAreGood, Increasing, Range, ValidOhlc
  <2> QED BY <2>4, <2>5, <2>6, <2>7, <2>8, <2>9, <2>10, <2>11 DEF FeedsInv
<1> QED BY <1>1, <1>4, <1>5

\* The second read: what was stored is in the table, unless somebody wrote to it.
LEMMA ReloadStep == FeedsInv /\ Reload => FeedsInv'
<1> SUFFICES ASSUME FeedsInv, Reload PROVE FeedsInv'
  OBVIOUS
<1> DEFINE good == Prepared(delivered)
           fresh == IF rows' # <<>> THEN rows' ELSE good
<1>1. /\ pc = "reload" /\ pc' = "idle"
      /\ rows' = Loaded(db, cache, window) /\ cache' = rows'
      /\ served' = [label |-> "broker", candles |-> fresh]
      /\ UNCHANGED <<exchange, others, request, session, cursor, parity, got, delivered, honest>>
  BY DEF Reload, Serve
<1>2. /\ window' = window /\ source' = source /\ limit' = limit /\ force' = force
      /\ market' = market /\ atStart' = atStart /\ db' = db /\ disturbed' = disturbed
      /\ delivered' = delivered /\ got' = got /\ cursor' = cursor /\ honest' = honest
      /\ cleared' = cleared
  BY <1>1 DEF exchange, others, request
<1>3. /\ delivered \in Seq(Candle) /\ Inside(delivered) /\ cache = <<>>
      /\ ~disturbed => \A c \in Range(good) : db[c.time] = c.v
  BY <1>1 DEF FeedsInv, Delivering, Committed
<1>4. good \in Seq(Candle) /\ Good(good)
  BY <1>3, PreparedProperties DEF Good
<1>5. good' = good
  BY <1>2 DEF Prepared, LastValid, LastOf, Listed
<1>6. /\ rows' \in Seq(Candle) /\ Good(rows')
      /\ \A i \in DOMAIN rows' : db[rows'[i].time] > 0
      /\ \A t \in Times : t \in Span(window) /\ db[t] > 0 =>
           \E i \in DOMAIN rows' : rows'[i].time = t /\ rows'[i].v = db[t]
  <2>1. db \in Table /\ SaneTable(db) /\ cache \in Seq(Candle) /\ Good(cache)
    BY DEF FeedsInv, FeedsTypeOK
  <2>2. LET l == Loaded(db, cache, window)
        IN  /\ l \in Seq(Candle) /\ Good(l)
            /\ cache = <<>> =>
                 /\ \A i \in DOMAIN l : db[l[i].time] > 0
                 /\ \A t \in Times : t \in Span(window) /\ db[t] > 0 =>
                      \E i \in DOMAIN l : l[i].time = t /\ l[i].v = db[t]
    BY <2>1, LoadedProperties
  <2>3. rows' = Loaded(db, cache, window) /\ cache = <<>>
    BY <1>1, <1>3
  <2> QED BY <2>2, <2>3
<1> HIDE DEF good
<1>7. fresh \in Seq(Candle) /\ Good(fresh)
  BY <1>4, <1>6
<1>8. ASSUME ~disturbed, NEW i \in DOMAIN good PROVE good[i] \in Range(fresh)
  <2>1. CASE rows' = <<>>
    BY <2>1 DEF Range
  <2>2. CASE rows' # <<>>
    <3>1. /\ good[i].time \in Times /\ good[i].v > 0 /\ good[i] \in Candle
          /\ good[i].time \in Span(window)
      BY <1>4, CandleFields DEF Good, Inside
    <3>2. db[good[i].time] = good[i].v
      BY <1>3, <1>8 DEF Range
    <3>3. PICK j \in DOMAIN rows' : rows'[j].time = good[i].time /\ rows'[j].v = good[i].v
      BY <1>6, <3>1, <3>2
    <3>4. rows'[j] \in Candle
      BY <1>6
    <3>5. rows'[j] = good[i]
      BY <3>1, <3>3, <3>4 DEF Candle
    <3> QED BY <2>2, <3>5 DEF Range
  <2> QED BY <2>1, <2>2
<1> HIDE DEF fresh
<1>9. FeedsTypeOK'
  <2>1. served' \in [label : Labels, candles : Seq(Candle)]
    <3>1. "broker" \in Labels
      BY DEF Labels
    <3> QED BY <1>1, <1>7, <3>1
  <2> QED BY <1>1, <1>2, <1>6, <2>1 DEF FeedsInv, FeedsTypeOK
<1>10. MarketGrows' /\ SaneTable(db)'
  BY <1>2 DEF FeedsInv, MarketGrows, SaneTable
<1>11. Good(rows)' /\ Good(cache)' /\ RowsStored'
  BY <1>1, <1>2, <1>6 DEF Good, Ordered, Inside, Sane, Span, ValidOhlc, RowsStored
<1>12. Delivering' /\ GotInside' /\ PagesSoFar' /\ Committed'
  BY <1>1 DEF Delivering, GotInside, PagesSoFar, Committed
<1>13. DeliveryIsExact'
  BY <1>2, DeliveryKept DEF FeedsInv
<1>14. ServedRowsAreGood'
  <2>1. Increasing(fresh)
    BY <1>7, OrderedIsIncreasing DEF Good
  <2>2. window.from \in Int /\ window.to \in Int
    BY Bounds DEF FeedsInv, FeedsTypeOK
  <2>3. \A i \in DOMAIN fresh : /\ ValidOhlc(fresh[i])
                                /\ window.from <= fresh[i].time /\ fresh[i].time <= window.to
    BY <1>7, <2>2 DEF Good, Inside, Sane, Span
  <2>4. ~disturbed => \A c \in Range(good) : c \in Range(fresh)
    BY <1>8 DEF Range
  <2>5. Range(Prepared(delivered))' = Range(good)
    BY <1>5 DEF Range, good
  <2>6. Range(served.candles)' = Range(fresh) /\ Increasing(served.candles)'
    BY <1>1, <2>1 DEF Range, Increasing
  <2>7. \A c \in Range(fresh) : /\ ValidOhlc(c)
                                /\ window.from <= c.time /\ c.time <= window.to
    BY <2>3 DEF Range
  <2> QED BY <1>2, <2>4, <2>5, <2>6, <2>7 DEF ServedRowsAreGood, ValidOhlc
<1> QED BY <1>9, <1>10, <1>11, <1>12, <1>13, <1>14 DEF FeedsInv

\* The market only adds bars and revises them.
LEMMA MarketMoves ==
  ASSUME FeedsInv, BarOpens \/ BarIsRevised
  PROVE  market' \in Table /\ \A t \in Times : market[t] <= market'[t]
<1> DEFINE S == {0} \cup {t \in Times : market[t] > 0}
<1>0. market \in Table
  BY DEF FeedsInv, FeedsTypeOK
<1>1. IsFiniteSet(S) /\ S \in SUBSET Int /\ S # {}
  <2>1. S \in SUBSET (0..MaxTime)
    BY Bounds DEF Times
  <2>2. IsFiniteSet(0..MaxTime)
    BY Bounds, FS_Interval
  <2>3. IsFiniteSet(S)
    <3> HIDE DEF S
    <3> QED BY <2>1, <2>2, FS_Subset
  <2>4. S \in SUBSET Int /\ 0 \in S
    BY <2>1
  <2> QED BY <2>3, <2>4
<1>2. Latest = Max(S)
  BY DEF Latest
<1>3. Latest \in S /\ \A x \in S : Latest >= x
  <2> HIDE DEF S
  <2> QED BY <1>1, <1>2, MaxMin
<1>4. CASE BarOpens
  <2>1. PICK t \in Times : t > Latest /\ market' = [market EXCEPT ![t] = 1]
    BY <1>4 DEF BarOpens
  <2>2. ~(market[t] > 0)
    <3>1. t \in Int /\ Latest \in Int
      BY <1>1, <1>3 DEF Times
    <3>2. t \in S => Latest >= t
      BY <1>3
    <3>3. t \notin S
      BY <2>1, <3>1, <3>2
    <3> QED BY <3>3
  <2>3. 1 \in 0..MaxVersion
    BY Bounds
  <2> QED BY <1>0, <2>1, <2>2, <2>3, Bounds DEF Table
<1>5. CASE BarIsRevised
  <2>1. /\ Latest \in Times /\ market[Latest] < MaxVersion
        /\ market' = [market EXCEPT ![Latest] = @ + 1]
    BY <1>3, <1>5 DEF BarIsRevised
  <2> QED BY <1>0, <2>1, Bounds DEF Table
<1> QED BY <1>4, <1>5

LEMMA MarketStep == FeedsInv /\ (BarOpens \/ BarIsRevised) => FeedsInv'
<1> SUFFICES ASSUME FeedsInv, BarOpens \/ BarIsRevised PROVE FeedsInv'
  OBVIOUS
<1>1. /\ window' = window /\ source' = source /\ limit' = limit /\ force' = force
      /\ atStart' = atStart /\ db' = db /\ disturbed' = disturbed /\ pc' = pc
      /\ delivered' = delivered /\ got' = got /\ cursor' = cursor /\ honest' = honest
      /\ rows' = rows /\ cache' = cache /\ served' = served /\ cleared' = cleared
  BY DEF BarOpens, BarIsRevised, load, others, request
<1>2. market' \in Table /\ \A t \in Times : market[t] <= market'[t]
  BY MarketMoves
<1>3. \A t \in Times : market[t] \in Int /\ market'[t] \in Int /\ atStart[t] \in Int
  BY <1>2 DEF FeedsInv, FeedsTypeOK, Table
<1>4. FeedsTypeOK'
  BY <1>1, <1>2 DEF FeedsInv, FeedsTypeOK
<1>5. MarketGrows'
  BY <1>1, <1>2, <1>3 DEF FeedsInv, MarketGrows
<1>6. SaneTable(db)' /\ Good(rows)' /\ Good(cache)' /\ RowsStored'
  BY <1>1 DEF FeedsInv, SaneTable, Good, Ordered, Inside, Sane, Span, ValidOhlc, RowsStored
<1>7. Delivering'
  BY <1>1 DEF FeedsInv, Delivering, Inside, Span
<1>8. GotInside'
  BY <1>1 DEF FeedsInv, GotInside, RowsInside, Span
<1>9. PagesSoFar'
  <2>1. (UpTo(got, cursor) <=> UpTo(got, cursor)') /\ (DownTo(got, cursor) <=> DownTo(got, cursor)')
    BY <1>1 DEF UpTo, DownTo, Holds, Span
  <2>2. RowsSeen(got) => RowsSeen(got)'
    <3> SUFFICES ASSUME RowsSeen(got), NEW i \in DOMAIN got, NEW t \in Times, got[i].ms = Ms * t
                 PROVE  atStart[t] <= got[i].v /\ got[i].v <= market'[t]
      BY <1>1 DEF RowsSeen, Seen
    <3>1. got[i].v \in Int
      BY RowFields DEF FeedsInv, FeedsTypeOK, Versions
    <3>2. atStart[t] <= got[i].v /\ got[i].v <= market[t]
      BY DEF RowsSeen, Seen
    <3> QED BY <1>2, <1>3, <3>1, <3>2
  <2> QED BY <1>1, <2>1, <2>2 DEF FeedsInv, PagesSoFar
<1>10. Committed'
  <2>1. UNCHANGED Prepared(delivered)
    BY <1>1 DEF Prepared, LastValid, LastOf, Listed
  <2> QED BY <1>1, <2>1 DEF FeedsInv, Committed, Range
<1>11. DeliveryIsExact'
  <2> SUFFICES ASSUME delivered # None, honest PROVE Exact(delivered)'
    BY <1>1 DEF DeliveryIsExact, Exact
  <2>1. Exact(delivered) /\ delivered \in Seq(Candle)
    BY DEF FeedsInv, FeedsTypeOK, DeliveryIsExact, Exact
  <2>2. UNCHANGED <<Increasing(delivered), TimesOf(delivered), Range(delivered), Most>>
    BY <1>1 DEF Increasing, TimesOf, Range, Most
  <2>3. \A c \in Range(delivered) : c.v <= market[c.time] => c.v <= market'[c.time]
    <3> SUFFICES ASSUME NEW i \in DOMAIN delivered
                 PROVE  delivered[i].v <= market[delivered[i].time] =>
                          delivered[i].v <= market'[delivered[i].time]
      BY DEF Range
    <3>1. delivered[i].time \in Times /\ delivered[i].v \in Int
      BY <2>1, CandleFields DEF Versions
    <3> QED BY <1>2, <1>3, <3>1
  <2> QED BY <1>1, <2>1, <2>2, <2>3 DEF Exact
<1>12. ServedRowsAreGood'
  BY <1>1, ServedKept DEF FeedsInv
<1> QED BY <1>4, <1>5, <1>6, <1>7, <1>8, <1>9, <1>10, <1>11, <1>12 DEF FeedsInv

\* Another process leaves a sane table behind, and is noticed.
LEMMA PeerStep == FeedsInv /\ (PeerStores \/ PeerClears) => FeedsInv'
<1> SUFFICES ASSUME FeedsInv, PeerStores \/ PeerClears PROVE FeedsInv'
  OBVIOUS
<1>1. /\ window' = window /\ source' = source /\ limit' = limit /\ force' = force
      /\ market' = market /\ atStart' = atStart /\ pc' = pc
      /\ delivered' = delivered /\ got' = got /\ cursor' = cursor /\ honest' = honest
      /\ rows' = rows /\ cache' = cache /\ served' = served /\ disturbed' = TRUE
      /\ cleared' \in BOOLEAN /\ (cleared => cleared')
  BY DEF PeerStores, PeerClears, load, exchange, request, FeedsInv, FeedsTypeOK
<1>2. db' \in Table /\ SaneTable(db') /\ RowsStored'
  <2>1. CASE PeerStores
    <3>1. PICK seen \in {market, atStart} : db' = Upserted(db, Prepared(Listed(seen, Times)))
      BY <2>1 DEF PeerStores
    <3>2. seen \in Table
      BY DEF FeedsInv, FeedsTypeOK
    <3>3. Listed(seen, Times) \in Seq(Candle)
      BY <3>2, ListedProperties
    <3>4. /\ Prepared(Listed(seen, Times)) \in Seq(Candle)
          /\ Ordered(Prepared(Listed(seen, Times))) /\ Sane(Prepared(Listed(seen, Times)))
      BY <3>3, PreparedProperties
    <3>5. /\ db' \in Table /\ SaneTable(db')
          /\ \A t \in Times : db[t] > 0 => db'[t] > 0
      BY <3>1, <3>4, UpsertedProperties DEF FeedsInv, FeedsTypeOK
    <3>6. \A i \in DOMAIN rows : rows[i].time \in Times
      BY CandleFields DEF FeedsInv, FeedsTypeOK
    <3>7. cleared' = cleared /\ RowsStored
      BY <2>1 DEF PeerStores, FeedsInv
    <3>8. RowsStored'
      BY <1>1, <3>5, <3>6, <3>7 DEF RowsStored
    <3> QED BY <3>5, <3>8
  <2>2. CASE PeerClears
    <3>1. db' = [t \in Times |-> 0]
      BY <2>2 DEF PeerClears
    <3>2. cleared' \/ rows = <<>>
      BY <2>2 DEF PeerClears
    <3>3. RowsStored'
      BY <1>1, <3>2 DEF RowsStored
    <3> QED BY <3>1, <3>3, Bounds DEF Table, SaneTable
  <2> QED BY <2>1, <2>2
<1>3. FeedsTypeOK'
  BY <1>1, <1>2 DEF FeedsInv, FeedsTypeOK
<1>4. MarketGrows' /\ SaneTable(db)'
  BY <1>1, <1>2 DEF FeedsInv, MarketGrows, SaneTable
<1>5. Good(rows)' /\ Good(cache)'
  BY <1>1 DEF FeedsInv, Good, Ordered, Inside, Sane, Span, ValidOhlc
<1>6. Delivering'
  BY <1>1 DEF FeedsInv, Delivering, Inside, Span
<1>7. GotInside'
  BY <1>1 DEF FeedsInv, GotInside, RowsInside, Span
<1>8. PagesSoFar'
  BY <1>1 DEF FeedsInv, PagesSoFar, RowsSeen, Seen, UpTo, DownTo, Holds, Span
<1>9. Committed'
  BY <1>1 DEF FeedsInv, Committed
<1>10. DeliveryIsExact'
  BY <1>1, DeliveryKept DEF FeedsInv
<1>11. ServedRowsAreGood'
  BY <1>1, ServedKept DEF FeedsInv
<1> QED BY <1>2, <1>3, <1>4, <1>5, <1>6, <1>7, <1>8, <1>9, <1>10, <1>11 DEF FeedsInv

LEMMA FeedsStutter == FeedsInv /\ UNCHANGED feedsVars => FeedsInv'
<1> SUFFICES ASSUME FeedsInv, UNCHANGED feedsVars PROVE FeedsInv'
  OBVIOUS
<1>1. /\ window' = window /\ source' = source /\ limit' = limit /\ force' = force
      /\ market' = market /\ atStart' = atStart /\ pc' = pc /\ db' = db
      /\ delivered' = delivered /\ got' = got /\ cursor' = cursor /\ honest' = honest
      /\ rows' = rows /\ cache' = cache /\ served' = served /\ disturbed' = disturbed
      /\ cleared' = cleared
  BY DEF feedsVars
<1>2. FeedsTypeOK'
  BY <1>1 DEF FeedsInv, FeedsTypeOK
<1>3. MarketGrows' /\ SaneTable(db)' /\ Good(rows)' /\ Good(cache)' /\ RowsStored'
  BY <1>1, TablesKept
<1>4. Delivering' /\ GotInside'
  BY <1>1 DEF FeedsInv, Delivering, Inside, GotInside, RowsInside, Span
<1>5. PagesSoFar'
  BY <1>1 DEF FeedsInv, PagesSoFar, RowsSeen, Seen, UpTo, DownTo, Holds, Span
<1>6. Committed'
  <2>1. UNCHANGED Prepared(delivered)
    BY <1>1 DEF Prepared, LastValid, LastOf, Listed
  <2> QED BY <1>1, <2>1 DEF FeedsInv, Committed, Range
<1>7. DeliveryIsExact'
  BY <1>1, DeliveryKept DEF FeedsInv
<1>8. ServedRowsAreGood'
  BY <1>1, ServedKept DEF FeedsInv
<1> QED BY <1>2, <1>3, <1>4, <1>5, <1>6, <1>7, <1>8 DEF FeedsInv

-----------------------------------------------------------------------------
(* The theorems                                                            *)

LEMMA FeedsCorrect == FeedsSpec => []FeedsInv
<1>1. FeedsInv /\ [FeedsNext]_feedsVars => FeedsInv'
  BY CallStep, ReadRowsStep, ServeStoredStep, ConnectStep, BinancePageStep, BybitPageStep,
     AnswerStep, RequestFailsStep, StoreCandlesStep, ReloadStep, DatabaseFailsStep, MarketStep, PeerStep,
     FeedsStutter DEF FeedsNext, Loader
<1> QED BY <1>1, FeedsStart, PTL DEF FeedsSpec

\* However the market moves while the pages come, an adapter whose exchange
\* answers what it is asked delivers each bar of the window once, in order, in a
\* version that it had since the request began; what it had then is missing only
\* for the limit.
THEOREM DeliveriesAreExact == FeedsSpec => []DeliveryIsExact
<1>1. FeedsInv => DeliveryIsExact
  BY DEF FeedsInv
<1> QED BY FeedsCorrect, <1>1, PTL

\* Whoever stores in the table meanwhile, a load serves candles in order, valid and
\* in the window; what it serves as fresh holds what was delivered last.  Stored
\* rows that it reads again after the table has been cleared are valid candles,
\* but of any bars.
THEOREM LoadsServeGoodRows == FeedsSpec => []ServedRowsAreGood
<1>1. FeedsInv => ServedRowsAreGood
  BY DEF FeedsInv
<1> QED BY FeedsCorrect, <1>1, PTL

=============================================================================
