--------------------------------- MODULE Feeds ---------------------------------
(***************************************************************************)
(* The trading bot's way to its candles: an adapter (T-Bank, Twelve Data,  *)
(* Bybit, Binance) asks its exchange for a window, in one request or page  *)
(* after page, and DataLoader.ensure_candles_loaded stores the answer and  *)
(* serves what the database then holds.  While it does so the exchange     *)
(* opens new bars and revises the one that is still open, and another      *)
(* process upserts or clears the same table.                               *)
(*                                                                         *)
(* Time is counted in bars, the cursor of the paging adapters in           *)
(* milliseconds.  A candle is the time it opens at and the version of its  *)
(* prices; some versions break the rules of _is_valid_ohlc.                *)
(***************************************************************************)
EXTENDS Integers, Sequences, SequencesExt, Listing

CONSTANTS
  MaxTime,             \* bound on the bars
  Markets,             \* the bars an exchange may have at first
  MaxVersion,          \* bound on the revisions of a bar
  Flawed,              \* the <<time, version>> with inconsistent prices
  Windows,             \* the windows asked for
  PageSize,            \* rows of a page: per paging source
  Cap,                 \* outputsize of Twelve Data
  Limits,              \* what get_candles is limited to; 0: not at all
  MinRows,             \* 10: fewer rows never cover a window
  None

Times == 1..MaxTime    \* when bars open
Ms == 1000             \* of a bar
Paging == {"binance", "bybit"}
OptionalTokenSources == {"binance", "bybit"}

ASSUME FeedsAssumption ==
  /\ MaxTime \in Nat \ {0} /\ Markets \subseteq SUBSET Times
  /\ MaxVersion \in Nat \ {0} /\ MinRows \in Nat \ {0} /\ Cap \in Nat \ {0}
  /\ PageSize \in [Paging -> Nat \ {0}]
  /\ Limits \subseteq Nat
  /\ \A w \in Windows : w.from \in Nat /\ w.to \in Nat /\ w.from < w.to

VARIABLES
  market,              \* the version of the bars the exchange has; 0: no such bar
  db,                  \* the version stored of each bar; 0: none
  pc,                  \* where the load is
  source,              \* the exchange
  window,              \* from and to
  limit,
  force,               \* force_fetch
  session,             \* the adapter's HTTP session
  cache,               \* CandleCache of this loader; <<>>: nothing of use
  rows,                \* the rows read from the database
  cursor,              \* window_start or window_end, in ms
  parity,              \* of the pages so far, so that a repeated request is a step
  got,                 \* the rows of the pages so far
  delivered,           \* what get_candles returned
  served,              \* what the load returned
  honest,              \* history: every page was the one asked for
  atStart,             \* history: the market when the request began
  disturbed,           \* history: another process wrote since the load did
  cleared              \* history: another process cleared the table after rows were read

exchange == <<market, atStart>>
request == <<source, window, limit, force>>
others == <<db, disturbed, cleared>>
feedsVars == <<market, db, pc, source, window, limit, force, session, cache, rows,
               cursor, parity, got, delivered, served, honest, atStart, disturbed,
               cleared>>

\* The candles that a table has at some times, in the order of the times.
Listed(table, times) ==
  LET stored == {t \in times : t \in Times /\ table[t] > 0}
  IN  Computed([k \in 1..Cardinality(stored) |->
                  LET t == Nth(stored, k) IN [time |-> t, v |-> table[t]]])

Span(w) == w.from..w.to
Within(candles, w) == Kept(candles, [time : Span(w), v : Nat])

-----------------------------------------------------------------------------
(* The table *)

\* _is_valid_ohlc
ValidOhlc(candle) == <<candle.time, candle.v>> \notin Flawed

LastOf(candles, places) == IF places = {} THEN 0 ELSE candles[Max(places)].v
LastVersion(candles, t) == LastOf(candles, {i \in DOMAIN candles : candles[i].time = t})
LastValid(candles, t) ==
  LastOf(candles, {i \in DOMAIN candles : candles[i].time = t /\ ValidOhlc(candles[i])})

\* prepare_candles: the valid ones, one for each time, the last that came, sorted.
Prepared(candles) == Listed([t \in Times |-> LastValid(candles, t)], Times)

UpsertedOnce(table, candles) ==         \* mutant: ON CONFLICT DO NOTHING
  [t \in Times |-> IF table[t] > 0 THEN table[t] ELSE LastVersion(candles, t)]

\* store_candles, what it does to the table: an upsert by time.
Upserted(table, candles) ==
  [t \in Times |-> IF LastVersion(candles, t) > 0 THEN LastVersion(candles, t) ELSE table[t]]

\* load_candles: from what the loader has cached, else from the database.
Loaded(table, cached, w) ==
  IF cached # <<>> THEN Within(cached, w) ELSE Listed(table, Span(w))

\* _rows_cover_window with min_ratio 0.5
RowsCoverWindow(candles, w) ==
  Len(candles) >= MinRows /\ 2 * Len(candles) >= Max({w.to - w.from, 1})

-----------------------------------------------------------------------------
(* The exchanges.  A row carries milliseconds or a time, as its source does. *)

Row(candle) == [ms |-> Ms * candle.time, v |-> candle.v]
FromRow(row) == [time |-> row.ms \div Ms, v |-> row.v]

Between(low, high) ==
  Listed(market, {t \in Times : low <= Ms * t /\ Ms * t <= high})
First(n, candles) == SubSeq(candles, 1, Min({n, Len(candles)}))
Newest(n, candles) == First(n, Reverse(candles))

\* The klines of Binance: from startTime on, the oldest first.
BinanceRows(start) ==
  LET page == First(PageSize["binance"], Between(start, Ms * window.to))
  IN  [i \in DOMAIN page |-> Row(page[i])]

\* The kline list of Bybit: up to end, the newest first.
BybitRows(end) ==
  LET page == Newest(PageSize["bybit"], Between(Ms * window.from, end))
  IN  [i \in DOMAIN page |-> Row(page[i])]

\* time_series of Twelve Data: the newest first, no more than outputsize.
TwelveDataValues ==
  Newest(IF limit = 0 THEN Cap ELSE Min({limit, Cap}), Listed(market, Span(window)))

\* GetCandles of T-Bank: the window, the oldest first.
TBankCandles == Listed(market, Span(window))

-----------------------------------------------------------------------------
(* The adapters *)

\* What a request may come to; "http": a status with no body that says more.
Outcomes == {"ok", "auth", "rate", "symbol", "other", "http", "unreachable"}

\* connect() of each adapter: the outcomes of its probe that it takes for a
\* connection.  Twelve Data minds only a refused key, T-Bank only a grpc-status.
BinanceConnects(outcome) == outcome = "ok"
BybitConnects(outcome) == outcome = "ok"
TwelveDataConnects(outcome) == outcome \notin {"auth", "http", "unreachable"}
TBankConnects(outcome) == outcome \in {"ok", "http"}
Connects(outcome) ==
  CASE source = "binance" -> BinanceConnects(outcome)
    [] source = "bybit" -> BybitConnects(outcome)
    [] source = "twelvedata" -> TwelveDataConnects(outcome)
    [] source = "tbank" -> TBankConnects(outcome)

\* A probe that fails closes the session again; T-Bank's leaves it open.
AfterConnect(outcome) ==
  IF Connects(outcome) THEN "open" ELSE IF source = "tbank" THEN "leaked" ELSE "closed"

Truncated(candles) == IF limit = 0 THEN candles ELSE First(limit, candles)

BinanceNextSame(page) == page[Len(page)].ms        \* mutant: asks for the last again

\* Binance: the next window starts after the last row.
BinanceNext(page) == page[Len(page)].ms + 1
BinanceEnds(page) ==
  \/ page = <<>>
  \/ Len(page) < PageSize["binance"]
  \/ page[Len(page)].ms >= Ms * window.to
  \/ BinanceNext(page) <= cursor
  \/ BinanceNext(page) > Ms * window.to

BybitEndsUnguarded(page) ==                        \* mutant: no check of progress
  \/ page = <<>>
  \/ Len(page) < PageSize["bybit"]
  \/ page[Len(page)].ms <= Ms * window.from
  \/ page[Len(page)].ms - 1 < Ms * window.from

\* Bybit: the next window ends before the oldest row, the last of the page.
BybitNext(page) == page[Len(page)].ms - 1
BybitEnds(page) ==
  \/ page = <<>>
  \/ Len(page) < PageSize["bybit"]
  \/ page[Len(page)].ms <= Ms * window.from
  \/ BybitNext(page) >= cursor
  \/ BybitNext(page) < Ms * window.from

\* The rows of a page whose time has been seen are dropped.
BybitUnseen(page) ==
  Kept(page, {row \in Range(page) : \A i \in DOMAIN got : got[i].ms # row.ms})

FromRows(all) == [i \in DOMAIN all |-> FromRow(all[i])]
BinanceCandles(all) == Truncated(FromRows(all))
BybitCandles(all) ==
  Truncated(FromRows(SortedBy(all, [i \in DOMAIN all |-> all[i].ms])))
TwelveDataCandles(values) == Truncated(Reverse(values))
TBankConverted(candles) == Truncated(candles)

-----------------------------------------------------------------------------
(* A load *)

FeedsInit ==
  /\ \E bars \in Markets :
       /\ market = [t \in Times |-> IF t \in bars THEN 1 ELSE 0]
       /\ atStart = market
  /\ db = [t \in Times |-> 0]
  /\ pc = "idle"
  /\ source \in {"tbank", "twelvedata", "bybit", "binance"}
  /\ window \in Windows
  /\ limit = 0 /\ force = FALSE
  /\ session = "closed"
  /\ cache = <<>> /\ rows = <<>>
  /\ cursor = 0 /\ parity = 0 /\ got = <<>> /\ delivered = None
  /\ served = [label |-> "none", candles |-> <<>>]
  /\ honest = TRUE /\ disturbed = FALSE /\ cleared = FALSE

\* get_token raises, before anything is asked of the source.
MayLackToken == source \notin OptionalTokenSources

\* fetch_recent_market_data_via_loader: a loader of its own, whose cache is
\* empty, and an adapter.
Call ==
  /\ pc = "idle"
  /\ force' \in BOOLEAN
  /\ limit' = 0
  /\ \/ pc' = "read"
     \/ pc' = "idle" /\ MayLackToken
  /\ session' = "closed"
  /\ cache' = <<>> /\ rows' = <<>> /\ got' = <<>> /\ delivered' = None
  /\ served' = [label |-> "none", candles |-> <<>>]
  /\ cleared' = FALSE
  /\ UNCHANGED <<exchange, db, disturbed, source, window, cursor, parity, honest>>

\* get_candles with a limit, by a caller that has no loader.
CallAdapter ==
  /\ pc = "idle"
  /\ force' = FALSE
  /\ limit' \in Limits \ {0}
  /\ pc' = "connect"
  /\ session' = "closed"
  /\ cache' = <<>> /\ rows' = <<>> /\ got' = <<>> /\ delivered' = None
  /\ served' = [label |-> "none", candles |-> <<>>]
  /\ cleared' = FALSE
  /\ UNCHANGED <<exchange, db, disturbed, source, window, cursor, parity, honest>>

Serve(label, candles) ==
  /\ served' = [label |-> label, candles |-> candles]
  /\ pc' = "idle"

\* ensure_candles_loaded up to the request.  Either way the transaction of the
\* query is released, by a commit that expires the rows.
ReadRows ==
  /\ pc = "read"
  /\ rows' = Loaded(db, cache, window)
  /\ cache' = rows'
  /\ pc' = IF ~force /\ RowsCoverWindow(rows', window) THEN "serve" ELSE "connect"
  /\ UNCHANGED <<exchange, others, request, session, cursor, parity, got, delivered,
                 served, honest>>

\* Expired rows are read again, by their ids, when their values are asked for: a
\* row has the values that are stored of its bar by then.  After another process
\* has cleared the table SQLite gives the ids out again (there is no AUTOINCREMENT),
\* and a row may have become that of any other bar.  (The reads of the rows, one
\* each, are modelled at one moment, and no id goes to another series.)
Reread ==
  LET stored == {t \in Times : db[t] > 0}
      bars == IF cleared THEN {at \in [DOMAIN rows -> stored] : IsInjective(at)}
              ELSE {[i \in DOMAIN rows |-> rows[i].time]}
  IN  {[i \in DOMAIN rows |-> [time |-> at[i], v |-> db[at[i]]]] : at \in bars}

\* _market_data_from_rows; a row whose id is gone raises ObjectDeletedError.
ServeStored ==
  /\ pc = "serve"
  /\ \/ \E again \in Reread : Serve("database", again)
     \/ cleared /\ pc' = "idle" /\ UNCHANGED served
  /\ UNCHANGED <<exchange, others, request, session, cache, rows, cursor, parity, got,
                 delivered, honest>>

\* The except clause: what was read before the request is read again and served.
\* The caller gets an exception when that was too little or cannot be read, and
\* without a loader.
GiveUp ==
  \/ /\ limit = 0 /\ Len(rows) >= MinRows
     /\ \E again \in Reread : Serve("database (offline)", again)
  \/ pc' = "idle" /\ UNCHANGED served

\* async with adapter: the probe.
Connect ==
  /\ pc = "connect"
  /\ \E outcome \in Outcomes :
       /\ session' = AfterConnect(outcome)
       /\ IF Connects(outcome) THEN pc' = "page" /\ UNCHANGED served ELSE GiveUp
  /\ atStart' = market
  /\ honest' = TRUE
  /\ cursor' = Ms * (IF source = "bybit" THEN window.to ELSE window.from)
  /\ UNCHANGED <<market, others, request, cache, rows, parity, got, delivered>>

\* get_candles returns; leaving the context closes the session.
Deliver(candles) ==
  /\ delivered' = candles
  /\ session' = "closed"
  /\ pc' = IF limit = 0 THEN "store" ELSE "idle"
  /\ parity' = 0
  /\ UNCHANGED cursor

\* A page of Binance: the one asked for, or one that ignores startTime.
BinancePage ==
  /\ pc = "page" /\ source = "binance"
  /\ \E start \in {cursor, Ms * window.from} :
       \E page \in {BinanceRows(start)} :
         /\ got' = got \o page
         /\ honest' = (honest /\ start = cursor)
         /\ IF BinanceEnds(page) THEN Deliver(BinanceCandles(got'))
            ELSE /\ cursor' = BinanceNext(page)
                 /\ parity' = 1 - parity
                 /\ UNCHANGED <<delivered, session, pc>>
  /\ UNCHANGED <<exchange, others, request, cache, rows, served>>

\* A page of Bybit: the one asked for, or one that ignores end.
BybitPage ==
  /\ pc = "page" /\ source = "bybit"
  /\ \E end \in {cursor, Ms * window.to} :
       \E page \in {BybitRows(end)} :
         /\ got' = got \o BybitUnseen(page)
         /\ honest' = (honest /\ end = cursor)
         /\ IF BybitEnds(page) THEN Deliver(BybitCandles(got'))
            ELSE /\ cursor' = BybitNext(page)
                 /\ parity' = 1 - parity
                 /\ UNCHANGED <<delivered, session, pc>>
  /\ UNCHANGED <<exchange, others, request, cache, rows, served>>

TwelveDataAnswer ==
  /\ pc = "page" /\ source = "twelvedata"
  /\ Deliver(TwelveDataCandles(TwelveDataValues))
  /\ UNCHANGED <<exchange, others, request, cache, rows, got, served, honest>>

TBankAnswer ==
  /\ pc = "page" /\ source = "tbank"
  /\ Deliver(TBankConverted(TBankCandles))
  /\ UNCHANGED <<exchange, others, request, cache, rows, got, served, honest>>

\* A request is refused or lost; whatever the pages so far held is dropped.
RequestFails ==
  /\ pc = "page"
  /\ GiveUp
  /\ session' = "closed"
  /\ parity' = 0
  /\ UNCHANGED <<exchange, others, request, cache, rows, cursor, got, delivered, honest>>

\* store_candles; an answer without a valid candle raises ValidationError.
StoreCandles ==
  /\ pc = "store"
  /\ \E good \in {Prepared(delivered)} :
       IF good = <<>>
       THEN GiveUp /\ UNCHANGED <<db, cache, disturbed>>
       ELSE /\ db' = Upserted(db, good)
            /\ cache' = <<>>
            /\ disturbed' = FALSE
            /\ pc' = "reload" /\ UNCHANGED served
  /\ UNCHANGED <<exchange, cleared, request, session, rows, cursor, parity, got, delivered,
                 honest>>

\* The second load_candles.  When the table has lost them meanwhile, the load
\* serves what was delivered.
Reload ==
  /\ pc = "reload"
  /\ rows' = Loaded(db, cache, window)
  /\ cache' = rows'
  /\ Serve("broker", IF rows' # <<>> THEN rows' ELSE Prepared(delivered))
  /\ UNCHANGED <<exchange, others, request, session, cursor, parity, got, delivered, honest>>

\* A commit or a query fails, a locked database for instance.  Before the request
\* nothing catches it; after it there are the rows that were read before.
DatabaseFails ==
  /\ \/ pc \in {"read", "serve"} /\ pc' = "idle" /\ UNCHANGED served
     \/ pc \in {"store", "reload"} /\ GiveUp
  /\ UNCHANGED <<exchange, others, request, session, cache, rows, cursor, parity, got, delivered, honest>>

-----------------------------------------------------------------------------
(* The world *)

load == <<pc, request, session, cache, rows, cursor, parity, got, delivered, served, honest>>
Latest == Max({0} \cup {t \in Times : market[t] > 0})

\* The next bar opens.
BarOpens ==
  /\ \E t \in Times : /\ t > Latest
                      /\ market' = [market EXCEPT ![t] = 1]
  /\ UNCHANGED <<load, others, atStart>>

\* The bar that is still open is revised.
BarIsRevised ==
  /\ Latest > 0 /\ market[Latest] < MaxVersion
  /\ market' = [market EXCEPT ![Latest] = @ + 1]
  /\ UNCHANGED <<load, others, atStart>>

\* Another process stores what it has fetched, now or a while ago.
PeerStores ==
  /\ \E seen \in {market, atStart} : db' = Upserted(db, Prepared(Listed(seen, Times)))
  /\ disturbed' = TRUE
  /\ UNCHANGED <<load, exchange, cleared>>

\* Another process clears the table: its run has another timeframe.
PeerClears ==
  /\ db' = [t \in Times |-> 0]
  /\ disturbed' = TRUE
  /\ cleared' = (cleared \/ rows # <<>>)
  /\ UNCHANGED <<load, exchange>>

Loader ==
  \/ ReadRows \/ ServeStored \/ Connect
  \/ BinancePage \/ BybitPage \/ TwelveDataAnswer \/ TBankAnswer
  \/ RequestFails \/ StoreCandles \/ Reload \/ DatabaseFails

FeedsNext ==
  \/ Call \/ CallAdapter \/ Loader
  \/ BarOpens \/ BarIsRevised \/ PeerStores \/ PeerClears

\* Requests are answered or time out (aiohttp's timeout), and a loader that is
\* scheduled goes on; nobody has to call it, and the world owes it nothing.
FeedsSpec == FeedsInit /\ [][FeedsNext]_feedsVars /\ WF_feedsVars(Loader)

-----------------------------------------------------------------------------
(* Properties *)

TimesOf(candles) == {c.time : c \in Range(candles)}
Increasing(candles) == \A i \in 1..(Len(candles) - 1) : candles[i].time < candles[i + 1].time

\* The most that a source returns.
Most == IF source = "twelvedata" THEN (IF limit = 0 THEN Cap ELSE Min({limit, Cap})) ELSE limit

\* Whatever the pages look like and however the market moves between them, an
\* exchange that answers what it is asked delivers each bar of the window once,
\* in order, in a version that it had since the request began.  A bar that the
\* exchange had then is missing only for the limit: Twelve Data then leaves out
\* the oldest bars, the others the newest.
DeliveryIsExact ==
  delivered # None /\ honest =>
    /\ Increasing(delivered)
    /\ \A c \in Range(delivered) :
         /\ window.from <= c.time /\ c.time <= window.to
         /\ Max({atStart[c.time], 1}) <= c.v /\ c.v <= market[c.time]
    /\ \A t \in window.from..window.to :
         (t \in Times /\ atStart[t] > 0) =>
           \/ t \in TimesOf(delivered)
           \/ /\ Most > 0 /\ Len(delivered) = Most
              /\ \A c \in Range(delivered) :
                   IF source = "twelvedata" THEN t < c.time ELSE c.time < t

\* What a load serves is valid, and in order and in the window whoever stored in
\* the table meanwhile; rows that were read before another process cleared it may
\* have become others, and say nothing of the window any more.  Unless somebody
\* wrote between the commit and the second read, what is served as fresh holds
\* every valid candle delivered, in the version delivered last.
ServedRowsAreGood ==
  /\ \A c \in Range(served.candles) : ValidOhlc(c)
  /\ ~cleared \/ served.label = "broker" =>
       /\ Increasing(served.candles)
       /\ \A c \in Range(served.candles) : window.from <= c.time /\ c.time <= window.to
  /\ (served.label = "broker" /\ ~disturbed) =>
       \A c \in Range(Prepared(delivered)) : c \in Range(served.candles)

\* A load that was started ends, whatever the exchange answers, and leaves no
\* session open, unless it was T-Bank that refused the connection.
LoadEnds == pc # "idle" ~> (pc = "idle" /\ (session = "closed" \/ source = "tbank"))

=============================================================================
