------------------------------ MODULE CandleStore ------------------------------
(***************************************************************************)
(* The candle cache: processes (a back-test, a Live tick) that each load a *)
(* window of candles through ensure_backtest_candles.  A load clears the   *)
(* table of the timeframe it replaces, asks the broker for what the bounds *)
(* of its own table leave open, one window after the other, and then reads *)
(* the table.  SQLite and market-data-meta.json are shared: every query,   *)
(* commit and file access is a step.                                       *)
(*                                                                         *)
(* A table is the rows of one (instrument, timeframe).  Time is counted in *)
(* seconds, the smallest distance the code uses; a candle is the time it   *)
(* opens at.  The broker answers a window with all its candles: the code   *)
(* keeps nothing between an answer and its commit that another process     *)
(* could change, so that both are one step.                                *)
(***************************************************************************)
EXTENDS Integers

CONSTANTS
  Loaders,         \* processes that load candles
  Tables,          \* the (instrument, timeframe) pairs in use
  Instrument,      \* the instrument of a table
  Bar,             \* seconds between two candles of a table
  Chunk,           \* seconds that one broker request may span
  Bars,            \* the candles that the market has
  Windows,         \* the [from, to] that are asked for
  None             \* no meta file or an unreadable one; no candle

Window == [from : Nat, to : Nat]

ASSUME CandleStoreAssumption ==
  /\ Bar \in [Tables -> Nat] /\ \A t \in Tables : Bar[t] > 1
  /\ Chunk \in [Tables -> Nat]
  /\ Bars \in [Tables -> SUBSET Nat]
  /\ \A t \in Tables : \A a, b \in Bars[t] : a < b => a + Bar[t] <= b
  /\ Windows \subseteq Window /\ \A w \in Windows : w.from < w.to
  /\ None \notin Tables \cup Nat

VARIABLES
  meta,            \* the table named by market-data-meta.json
  rows,            \* the candles stored in each table
  pc,              \* where each loader is
  table,           \* the table it loads
  want,            \* the window it loads
  old,             \* the meta it has read
  low, high,       \* the bounds of the table that it has read
  head, tail,      \* what it still has to fetch before and after these
  torn             \* history: tables that a broken-off load or a race has damaged

private == <<pc, table, want, old, low, high, head, tail>>
vars == <<meta, rows, pc, table, want, old, low, high, head, tail, torn>>

Ended == {"idle", "refused"}
LoaderPcs == Ended \cup {"clear", "open", "write", "earliest", "latest", "fetch", "load"}

TypeOK ==
  /\ meta \in Tables \cup {None}
  /\ rows \in [Tables -> SUBSET Nat] /\ \A t \in Tables : rows[t] \subseteq Bars[t]
  /\ pc \in [Loaders -> LoaderPcs]
  /\ table \in [Loaders -> Tables]
  /\ want \in [Loaders -> Windows]
  /\ old \in [Loaders -> Tables \cup {None}]
  /\ low \in [Loaders -> Nat \cup {None}]
  /\ high \in [Loaders -> Nat \cup {None}]
  /\ head \in [Loaders -> Window]
  /\ tail \in [Loaders -> Window]
  /\ torn \subseteq Tables

-----------------------------------------------------------------------------
(* Gaps and windows.                                                       *)

Tolerance(t) == 2 * Bar[t]

Within(t, w) == {b \in Bars[t] : w.from <= b /\ b <= w.to}

\* A gap is fetched while its cursor, its from, is before its end.
Open(gap) == gap.from < gap.to
NoGap == [from |-> 0, to |-> 0]

HeadGapSwapped(t, w, earliest) ==       \* mutant: compares with the wrong end
  IF earliest > w.to + Tolerance(t) THEN [from |-> w.from, to |-> earliest - 1] ELSE NoGap

HeadGap(t, w, earliest) ==
  IF earliest > w.from + Tolerance(t) THEN [from |-> w.from, to |-> earliest - 1] ELSE NoGap

TailGapSkipping(t, w, latest) ==        \* mutant: resumes a bar too late
  IF latest < w.to - Tolerance(t) THEN [from |-> latest + Bar[t] + 1, to |-> w.to] ELSE NoGap

TailGap(t, w, latest) ==
  IF latest < w.to - Tolerance(t) THEN [from |-> latest + 1, to |-> w.to] ELSE NoGap

\* The next request for a gap, and what is left of the gap after it.
Request(t, gap) ==
  [from |-> gap.from,
   to   |-> IF gap.from + Chunk[t] <= gap.to THEN gap.from + Chunk[t] ELSE gap.to]
Rest(t, gap) == [gap EXCEPT !.from = Request(t, gap).to + 1]

StoredEverywhere(t, candles) ==         \* mutant: the key lacks the timeframe
  [u \in Tables |-> rows[u] \cup candles]

Stored(t, candles) == [rows EXCEPT ![t] = @ \cup candles]

\* The loader has stored the beginning of a gap before the table, not its end.
MidHead(p) == pc[p] = "fetch" /\ Open(head[p]) /\ head[p].from > want[p].from

\* The loader relies on bounds of its table that it has read.
Relies(p) == pc[p] \in {"latest", "fetch", "load"}

\* The loader fetches a table that was empty.
Fills(p) == pc[p] = "fetch" /\ low[p] = None

Init ==
  /\ meta = None
  /\ rows = [t \in Tables |-> {}]
  /\ pc = [p \in Loaders |-> "idle"]
  /\ table \in [Loaders -> Tables]
  /\ want \in [Loaders -> Windows]
  /\ old = [p \in Loaders |-> None]
  /\ low = [p \in Loaders |-> None]
  /\ high = [p \in Loaders |-> None]
  /\ head = [p \in Loaders |-> NoGap]
  /\ tail = [p \in Loaders |-> NoGap]
  /\ torn = {}

-----------------------------------------------------------------------------
(* A load.                                                                 *)

Call(p) ==                              \* ensure_backtest_candles, up to _load_meta
  /\ pc[p] \in Ended
  /\ \E t \in Tables, w \in Windows :
       /\ table' = [table EXCEPT ![p] = t]
       /\ want' = [want EXCEPT ![p] = w]
       /\ LET replaces == meta # None /\ meta # t /\ Instrument[meta] = Instrument[t]
          IN /\ pc' = [pc EXCEPT ![p] = IF replaces THEN "clear" ELSE "open"]
             /\ old' = [old EXCEPT ![p] = IF replaces THEN meta ELSE None]
  /\ UNCHANGED <<meta, rows, low, high, head, tail, torn>>

ClearCandles(p) ==
  /\ pc[p] = "clear"
  /\ rows' = [rows EXCEPT ![old[p]] = {}]
  /\ torn' = IF \E q \in Loaders : table[q] = old[p] /\ Relies(q)
             THEN torn \cup {old[p]}
             ELSE torn \ {old[p]}
  /\ pc' = [pc EXCEPT ![p] = "open"]
  /\ old' = [old EXCEPT ![p] = None]
  /\ UNCHANGED <<meta, table, want, low, high, head, tail>>

SaveMetaOpen(p) ==                      \* truncates the file
  /\ pc[p] = "open"
  /\ meta' = None
  /\ pc' = [pc EXCEPT ![p] = "write"]
  /\ UNCHANGED <<rows, table, want, old, low, high, head, tail, torn>>

SaveMetaWrite(p) ==
  /\ pc[p] = "write"
  /\ meta' = table[p]
  /\ pc' = [pc EXCEPT ![p] = "earliest"]
  /\ UNCHANGED <<rows, table, want, old, low, high, head, tail, torn>>

Earliest(t) == {b \in rows[t] : \A x \in rows[t] : b <= x}
Latest(t) == {b \in rows[t] : \A x \in rows[t] : x <= b}

ReadEarliest(p) ==
  /\ pc[p] = "earliest"
  /\ \/ rows[table[p]] = {} /\ low' = [low EXCEPT ![p] = None]
     \/ \E e \in Earliest(table[p]) : low' = [low EXCEPT ![p] = e]
  /\ pc' = [pc EXCEPT ![p] = "latest"]
  /\ UNCHANGED <<meta, rows, table, want, old, high, head, tail, torn>>

\* Both bounds are there: fetch what they leave open, if anything.
ReadLatest(p) ==
  /\ pc[p] = "latest" /\ low[p] # None
  /\ \E l \in Latest(table[p]) :
       /\ high' = [high EXCEPT ![p] = l]
       /\ head' = [head EXCEPT ![p] = HeadGap(table[p], want[p], low[p])]
       /\ tail' = [tail EXCEPT ![p] = TailGap(table[p], want[p], l)]
  /\ pc' = [pc EXCEPT ![p] = IF Open(head'[p]) \/ Open(tail'[p]) THEN "fetch" ELSE "load"]
  /\ UNCHANGED <<meta, rows, table, want, old, low, torn>>

\* A bound is missing: fetch the whole window.
ReadNoBounds(p) ==
  /\ pc[p] = "latest" /\ (low[p] = None \/ rows[table[p]] = {})
  /\ low' = [low EXCEPT ![p] = None]
  /\ high' = [high EXCEPT ![p] = None]
  /\ head' = [head EXCEPT ![p] = NoGap]
  /\ tail' = [tail EXCEPT ![p] = want[p]]
  /\ torn' = IF \/ rows[table[p]] # {}
                \/ \E q \in Loaders : table[q] = table[p] /\ Fills(q)
             THEN torn \cup {table[p]}
             ELSE torn
  /\ pc' = [pc EXCEPT ![p] = "fetch"]
  /\ UNCHANGED <<meta, rows, table, want, old>>

\* One window of the first open gap, as the broker answers it.
Answer(p) ==
  Within(table[p], Request(table[p], IF Open(head[p]) THEN head[p] ELSE tail[p]))

FetchHead(p) ==
  /\ pc[p] = "fetch" /\ Open(head[p])
  /\ Answer(p) # {}
  /\ rows' = Stored(table[p], Answer(p))
  /\ head' = [head EXCEPT ![p] = Rest(table[p], @)]
  /\ pc' = [pc EXCEPT ![p] = IF Open(head'[p]) \/ Open(tail[p]) THEN "fetch" ELSE "load"]
  /\ UNCHANGED <<meta, table, want, old, low, high, tail, torn>>

FetchTail(p) ==
  /\ pc[p] = "fetch" /\ ~Open(head[p])
  /\ Answer(p) # {}
  /\ rows' = Stored(table[p], Answer(p))
  /\ tail' = [tail EXCEPT ![p] = Rest(table[p], @)]
  /\ pc' = [pc EXCEPT ![p] = IF Open(tail'[p]) THEN "fetch" ELSE "load"]
  /\ UNCHANGED <<meta, table, want, old, low, high, head, torn>>

\* The process ends: what it has read is gone, what it has stored stays.
End(p, how) ==
  /\ pc' = [pc EXCEPT ![p] = how]
  /\ old' = [old EXCEPT ![p] = None]
  /\ low' = [low EXCEPT ![p] = None] /\ high' = [high EXCEPT ![p] = None]
  /\ head' = [head EXCEPT ![p] = NoGap] /\ tail' = [tail EXCEPT ![p] = NoGap]
  /\ torn' = IF MidHead(p) THEN torn \cup {table[p]} ELSE torn
  /\ UNCHANGED <<meta, rows, table, want>>

FetchNothing(p) ==                      \* "No candles returned from broker"
  /\ pc[p] = "fetch" /\ Answer(p) = {}
  /\ End(p, "refused")

Fail(p) ==                              \* broker error, locked database, killed process
  /\ pc[p] \notin Ended
  /\ End(p, "idle")

LoadCandles(p) ==
  /\ pc[p] = "load"
  /\ End(p, IF Within(table[p], want[p]) \cap rows[table[p]] = {} THEN "refused" ELSE "idle")

Next ==
  \E p \in Loaders :
    \/ Call(p) \/ ClearCandles(p) \/ SaveMetaOpen(p) \/ SaveMetaWrite(p)
    \/ ReadEarliest(p) \/ ReadLatest(p) \/ ReadNoBounds(p)
    \/ FetchHead(p) \/ FetchTail(p) \/ FetchNothing(p) \/ Fail(p) \/ LoadCandles(p)

Spec == Init /\ [][Next]_vars

-----------------------------------------------------------------------------
(* Properties.                                                             *)

\* Only the bounds of a table decide what is fetched, so that a hole between
\* stored candles is never seen again.  Unless a load was broken off in the
\* middle of a gap before the table, a table was cleared under a load, or two
\* loads filled an empty table at once, each hole lies in what a running load
\* is still going to fetch.
HolesAreBeingFilled ==
  \A t \in Tables \ torn : \A x, y \in rows[t], b \in Bars[t] \ rows[t] :
    x < b /\ b < y =>
      \E p \in Loaders : /\ table[p] = t /\ MidHead(p)
                         /\ head[p].from <= b /\ b <= head[p].to

\* The candles of the window except the tolerance at both its ends.
Due(p) ==
  {b \in Bars[table[p]] : /\ want[p].from + Tolerance(table[p]) <= b
                          /\ b <= want[p].to - Tolerance(table[p])}

\* A load that is about to read an undamaged table, while nobody else is in
\* the middle of a gap, finds every candle of its window that the tolerance
\* does not excuse: whatever other loads of any window did before.
LoadsAreCovered ==
  \A p \in Loaders :
    /\ pc[p] = "load" /\ table[p] \notin torn
    /\ \A q \in Loaders : table[q] = table[p] => ~MidHead(q)
    => Due(p) \subseteq rows[table[p]]

\* A load that finds no gap, or has fetched them all, finds every candle that
\* the market has for its window: "empty = DB is enough".
EmptyGapsMeanCovered == \A p \in Loaders : pc[p] = "load" => Due(p) \subseteq rows[table[p]]

=============================================================================
