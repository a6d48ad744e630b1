-------------------------- MODULE CandleStore_proofs --------------------------
(***************************************************************************)
(* Theorems of CandleStore: its types, HolesAreBeingFilled and             *)
(* LoadsAreCovered, for any loaders, tables, markets, windows and request  *)
(* sizes.                                                                  *)
(***************************************************************************)
EXTENDS CandleStore, TLAPS

-----------------------------------------------------------------------------
(* The inductive invariant: what each loader that relies on an undamaged   *)
(* table knows of it.                                                      *)

\* The bounds that the loader has read are still stored.
Anchored(p) ==
  /\ low[p] # None => low[p] \in rows[table[p]]
  /\ pc[p] # "latest" /\ low[p] # None => high[p] # None /\ high[p] \in rows[table[p]]

\* The gap before the table is stored up to its cursor.
HeadDone(p) ==
  \/ /\ head[p] = NoGap
     /\ low[p] <= want[p].from + Tolerance(table[p])
  \/ /\ head[p].to = low[p] - 1
     /\ want[p].from <= head[p].from
     /\ \A b \in Bars[table[p]] :
          want[p].from <= b /\ b < head[p].from => b \in rows[table[p]]

\* The gap after the table is stored up to its cursor.
TailDone(p) ==
  \/ /\ tail[p] = NoGap
     /\ high[p] >= want[p].to - Tolerance(table[p])
  \/ /\ tail[p].to = want[p].to
     /\ high[p] < tail[p].from
     /\ \A b \in Bars[table[p]] :
          high[p] < b /\ b < tail[p].from => b \in rows[table[p]]

\* A load of an empty table has stored its window up to the cursor.
FillDone(p) ==
  /\ head[p] = NoGap
  /\ tail[p].to = want[p].to
  /\ want[p].from <= tail[p].from
  /\ \A b \in Bars[table[p]] :
       want[p].from <= b /\ b < tail[p].from => b \in rows[table[p]]
  /\ pc[p] = "fetch" =>
       \/ rows[table[p]] = {}
       \/ \E z \in rows[table[p]] : want[p].from <= z /\ z < tail[p].from

Sound(p) ==
  /\ Relies(p) => Anchored(p)
  /\ pc[p] \in {"fetch", "load"} /\ low[p] # None => HeadDone(p) /\ TailDone(p)
  /\ pc[p] \in {"fetch", "load"} /\ low[p] = None => FillDone(p)

\* A loader fetches while it has an open gap, and no longer.
GapsDrive(p) ==
  /\ pc[p] = "fetch" => Open(head[p]) \/ Open(tail[p])
  /\ pc[p] = "load" => ~Open(head[p]) /\ ~Open(tail[p])

\* A table other than the loader's own is cleared.
ClearsAnother(p) == pc[p] = "clear" => old[p] \in Tables \ {table[p]}

FillsAlone ==
  \A p, q \in Loaders :
    p # q /\ Fills(p) /\ Fills(q) /\ table[p] = table[q] => table[p] \in torn

BaseInv ==
  /\ TypeOK
  /\ \A p \in Loaders : GapsDrive(p) /\ ClearsAnother(p)

CacheInv ==
  /\ BaseInv
  /\ \A p \in Loaders : table[p] \notin torn => Sound(p)
  /\ FillsAlone
  /\ HolesAreBeingFilled

-----------------------------------------------------------------------------
(* Gaps and requests.                                                      *)

\* A request lies in its gap, and what is left of the gap begins behind it.
LEMMA Requests ==
  ASSUME NEW t \in Tables, NEW gap \in Window
  PROVE  /\ Request(t, gap).from = gap.from
         /\ Open(gap) => Request(t, gap).to \in Nat
         /\ Open(gap) => gap.from <= Request(t, gap).to /\ Request(t, gap).to <= gap.to
         /\ Rest(t, gap).to = gap.to
         /\ Rest(t, gap).from = Request(t, gap).to + 1
         /\ Open(gap) => Rest(t, gap) \in Window
  BY CandleStoreAssumption DEF Window, Request, Rest, Open

\* Gaps are windows.
LEMMA Gaps ==
  ASSUME NEW t \in Tables, NEW w \in Windows, NEW b \in Nat
  PROVE  HeadGap(t, w, b) \in Window /\ TailGap(t, w, b) \in Window /\ NoGap \in Window
  BY CandleStoreAssumption DEF Window, HeadGap, TailGap, NoGap, Tolerance

\* Candles of one table are more than a second apart.
LEMMA Spacing ==
  ASSUME NEW t \in Tables, NEW a \in Bars[t], NEW b \in Bars[t], a < b
  PROVE  a \in Nat /\ b \in Nat /\ a + 1 < b
  BY CandleStoreAssumption

-----------------------------------------------------------------------------
(* Types.                                                                  *)

LEMMA BaseInit == Init => BaseInv
  BY CandleStoreAssumption
  DEF Init, BaseInv, TypeOK, GapsDrive, ClearsAnother, Window, NoGap, LoaderPcs, Ended

LEMMA BaseStep == BaseInv /\ [Next]_vars => BaseInv'
<1> SUFFICES ASSUME BaseInv, [Next]_vars PROVE BaseInv'
  OBVIOUS
<1> USE CandleStoreAssumption DEF BaseInv
<1>1. ASSUME NEW p \in Loaders, Call(p) PROVE BaseInv'
  <2>1. TypeOK'
    BY <1>1 DEF Call, TypeOK, LoaderPcs, Ended
  <2>2. \A q \in Loaders : GapsDrive(q)'
    BY <1>1 DEF Call, TypeOK, GapsDrive
  <2>3. ClearsAnother(p)'
    BY <1>1 DEF Call, TypeOK, ClearsAnother
  <2>4. \A q \in Loaders \ {p} : ClearsAnother(q)'
    BY <1>1 DEF Call, TypeOK, ClearsAnother
  <2> QED BY <2>1, <2>2, <2>3, <2>4
<1>2. ASSUME NEW p \in Loaders, ClearCandles(p) PROVE BaseInv'
  <2>1. old[p] \in Tables
    BY <1>2 DEF ClearCandles, ClearsAnother
  <2>2. rows' \in [Tables -> SUBSET Nat] /\ \A t \in Tables : rows'[t] \subseteq Bars[t]
    BY <1>2 DEF ClearCandles, TypeOK
  <2>3. torn' \subseteq Tables
    BY <1>2, <2>1 DEF ClearCandles, TypeOK
  <2>4. TypeOK'
    BY <1>2, <2>2, <2>3 DEF ClearCandles, TypeOK, LoaderPcs, Ended
  <2> QED BY <1>2, <2>4 DEF ClearCandles, TypeOK, GapsDrive, ClearsAnother
<1>3. ASSUME NEW p \in Loaders, SaveMetaOpen(p) PROVE BaseInv'
  BY <1>3 DEF SaveMetaOpen, TypeOK, LoaderPcs, Ended, GapsDrive, ClearsAnother
<1>4. ASSUME NEW p \in Loaders, SaveMetaWrite(p) PROVE BaseInv'
  BY <1>4 DEF SaveMetaWrite, TypeOK, LoaderPcs, Ended, GapsDrive, ClearsAnother
<1>5. ASSUME NEW p \in Loaders, ReadEarliest(p) PROVE BaseInv'
  <2>1. TypeOK'
    BY <1>5 DEF ReadEarliest, Earliest, TypeOK, LoaderPcs, Ended
  <2> QED BY <1>5, <2>1 DEF ReadEarliest, TypeOK, GapsDrive, ClearsAnother
<1>6. ASSUME NEW p \in Loaders, ReadLatest(p) PROVE BaseInv'
  <2>1. PICK l \in Latest(table[p]) :
          /\ high' = [high EXCEPT ![p] = l]
          /\ head' = [head EXCEPT ![p] = HeadGap(table[p], want[p], low[p])]
          /\ tail' = [tail EXCEPT ![p] = TailGap(table[p], want[p], l)]
    BY <1>6 DEF ReadLatest
  <2>2. l \in Nat /\ low[p] \in Nat /\ table[p] \in Tables /\ want[p] \in Windows
    BY <1>6 DEF ReadLatest, Latest, TypeOK
  <2>3. HeadGap(table[p], want[p], low[p]) \in Window /\ TailGap(table[p], want[p], l) \in Window
    BY <2>2, Gaps
  <2>4. head' \in [Loaders -> Window] /\ tail' \in [Loaders -> Window]
    BY <2>1, <2>3 DEF TypeOK
  <2>5. high' \in [Loaders -> Nat \cup {None}]
    BY <2>1, <2>2 DEF TypeOK
  <2>6. TypeOK'
    BY <1>6, <2>4, <2>5 DEF ReadLatest, TypeOK, LoaderPcs, Ended
  <2>7. GapsDrive(p)' /\ ClearsAnother(p)'
    BY <1>6 DEF ReadLatest, TypeOK, GapsDrive, ClearsAnother, Open
  <2>8. \A q \in Loaders \ {p} : GapsDrive(q)' /\ ClearsAnother(q)'
    BY <1>6, <2>1 DEF ReadLatest, TypeOK, GapsDrive, ClearsAnother, Open
  <2> QED BY <2>6, <2>7, <2>8
<1>7. ASSUME NEW p \in Loaders, ReadNoBounds(p) PROVE BaseInv'
  <2>1. NoGap \in Window /\ want[p] \in Window /\ table[p] \in Tables
    BY DEF NoGap, Window, TypeOK
  <2>2. torn' \subseteq Tables
    BY <1>7, <2>1 DEF ReadNoBounds, TypeOK
  <2>3. TypeOK'
    BY <1>7, <2>1, <2>2 DEF ReadNoBounds, TypeOK, LoaderPcs, Ended
  <2> QED BY <1>7, <2>3 DEF ReadNoBounds, TypeOK, GapsDrive, ClearsAnother, Open
<1>8. ASSUME NEW p \in Loaders, FetchHead(p) PROVE BaseInv'
  <2>1. table[p] \in Tables /\ head[p] \in Window /\ Open(head[p])
    BY <1>8 DEF FetchHead, TypeOK
  <2>2. Rest(table[p], head[p]) \in Window
    BY <2>1, Requests
  <2>3. rows' \in [Tables -> SUBSET Nat] /\ \A t \in Tables : rows'[t] \subseteq Bars[t]
    BY <1>8, <2>1 DEF FetchHead, Stored, Answer, Within, TypeOK
  <2>4. TypeOK'
    BY <1>8, <2>2, <2>3 DEF FetchHead, TypeOK, LoaderPcs, Ended
  <2>5. GapsDrive(p)' /\ ClearsAnother(p)'
    BY <1>8 DEF FetchHead, TypeOK, GapsDrive, ClearsAnother, Open
  <2>6. \A q \in Loaders \ {p} : GapsDrive(q)' /\ ClearsAnother(q)'
    BY <1>8 DEF FetchHead, TypeOK, GapsDrive, ClearsAnother, Open
  <2> QED BY <2>4, <2>5, <2>6
<1>9. ASSUME NEW p \in Loaders, FetchTail(p) PROVE BaseInv'
  <2>1. table[p] \in Tables /\ tail[p] \in Window /\ Open(tail[p])
    BY <1>9 DEF FetchTail, TypeOK, GapsDrive
  <2>2. Rest(table[p], tail[p]) \in Window
    BY <2>1, Requests
  <2>3. rows' \in [Tables -> SUBSET Nat] /\ \A t \in Tables : rows'[t] \subseteq Bars[t]
    BY <1>9, <2>1 DEF FetchTail, Stored, Answer, Within, TypeOK
  <2>4. TypeOK'
    BY <1>9, <2>2, <2>3 DEF FetchTail, TypeOK, LoaderPcs, Ended
  <2>5. GapsDrive(p)' /\ ClearsAnother(p)'
    BY <1>9 DEF FetchTail, TypeOK, GapsDrive, ClearsAnother, Open
  <2>6. \A q \in Loaders \ {p} : GapsDrive(q)' /\ ClearsAnother(q)'
    BY <1>9 DEF FetchTail, TypeOK, GapsDrive, ClearsAnother, Open
  <2> QED BY <2>4, <2>5, <2>6
<1>10. ASSUME NEW p \in Loaders, NEW how \in Ended, End(p, how) PROVE BaseInv'
  <2>1. TypeOK'
    <3>1. NoGap \in Window
      BY DEF NoGap, Window
    <3> QED BY <1>10, <3>1 DEF End, TypeOK, LoaderPcs, Ended
  <2> QED BY <1>10, <2>1 DEF End, TypeOK, GapsDrive, ClearsAnother, Ended
<1>11. CASE UNCHANGED vars
  BY <1>11
  DEF vars, TypeOK, GapsDrive, ClearsAnother, Open
<1> QED BY <1>1, <1>2, <1>3, <1>4, <1>5, <1>6, <1>7, <1>8, <1>9, <1>10, <1>11
        DEF Next, FetchNothing, Fail, LoadCandles, Ended

-----------------------------------------------------------------------------
(* What loaders know stays true.                                           *)

\* Nothing that the loader q holds changes.
Unmoved(q) ==
  /\ pc'[q] = pc[q] /\ table'[q] = table[q] /\ want'[q] = want[q]
  /\ low'[q] = low[q] /\ high'[q] = high[q]
  /\ head'[q] = head[q] /\ tail'[q] = tail[q]

\* Candles that are added to a table disturb nobody, except one that counts on
\* the table still being empty.
LEMMA SoundGrows ==
  ASSUME NEW q \in Loaders, Sound(q), Unmoved(q),
         rows[table[q]] \subseteq rows'[table[q]],
         Fills(q) /\ rows[table[q]] = {} => rows'[table[q]] = {}
  PROVE  Sound(q)'
<1>1. Relies(q)' = Relies(q)
  BY DEF Unmoved, Relies
<1>2. Anchored(q) => Anchored(q)'
  BY DEF Unmoved, Anchored
<1>3. HeadDone(q) => HeadDone(q)'
  BY DEF Unmoved, HeadDone, Tolerance, NoGap
<1>4. TailDone(q) => TailDone(q)'
  BY DEF Unmoved, TailDone, Tolerance, NoGap
<1>5. FillDone(q) /\ (pc[q] = "fetch" => low[q] = None) => FillDone(q)'
  BY DEF Unmoved, FillDone, NoGap, Fills
<1> QED BY <1>1, <1>2, <1>3, <1>4, <1>5 DEF Unmoved, Sound

\* A loader that relies on nothing, or is past its bounds, is sound.
LEMMA SoundElsewhere ==
  ASSUME NEW q \in Loaders, pc'[q] \notin {"latest", "fetch", "load"}
  PROVE  Sound(q)'
  BY DEF Sound, Relies

\* Storing the answer to a request completes the candles up to the cursor.
LEMMA Advance ==
  ASSUME NEW t \in Tables, NEW gap \in Window, Open(gap), NEW f \in Nat, f <= gap.from,
         NEW R, R \subseteq Bars[t],
         \A b \in Bars[t] : f <= b /\ b < gap.from => b \in R
  PROVE  \A b \in Bars[t] :
           f <= b /\ b < Rest(t, gap).from => b \in R \cup Within(t, Request(t, gap))
<1>1. SUFFICES ASSUME NEW b \in Bars[t], f <= b, b < Rest(t, gap).from
               PROVE  b \in R \cup Within(t, Request(t, gap))
  OBVIOUS
<1>2. b \in Nat
  BY CandleStoreAssumption
<1>3. /\ Request(t, gap).from = gap.from /\ Request(t, gap).to \in Nat
      /\ Rest(t, gap).from = Request(t, gap).to + 1
  BY Requests
<1>4. CASE b < gap.from
  BY <1>1, <1>4
<1>5. CASE b >= gap.from
  BY <1>1, <1>2, <1>3, <1>5 DEF Within
<1> QED BY <1>2, <1>4, <1>5 DEF Window

LEMMA SoundStep ==
  CacheInv /\ [Next]_vars => \A q \in Loaders : table'[q] \notin torn' => Sound(q)'
<1> SUFFICES ASSUME CacheInv, [Next]_vars, NEW q \in Loaders, table'[q] \notin torn'
             PROVE  Sound(q)'
  OBVIOUS
<1> USE DEF CacheInv, BaseInv
<1>1. ASSUME NEW p \in Loaders, Call(p) \/ SaveMetaOpen(p) \/ SaveMetaWrite(p) PROVE Sound(q)'
  <2>1. CASE q = p
    BY <1>1, <2>1, SoundElsewhere DEF Call, SaveMetaOpen, SaveMetaWrite, TypeOK
  <2>2. CASE q # p
    <3>1. Unmoved(q) /\ rows' = rows /\ torn' = torn
      BY <1>1, <2>2 DEF Call, SaveMetaOpen, SaveMetaWrite, TypeOK, Unmoved
    <3>2. Sound(q)
      BY <3>1 DEF Unmoved
    <3> QED BY <3>1, <3>2, SoundGrows
  <2> QED BY <2>1, <2>2
<1>2. ASSUME NEW p \in Loaders, ClearCandles(p) PROVE Sound(q)'
  <2>1. CASE ~Relies(q)
    <3>1. pc'[q] \notin {"latest", "fetch", "load"}
      BY <1>2, <2>1 DEF ClearCandles, TypeOK, Relies
    <3> QED BY <3>1, SoundElsewhere
  <2>2. CASE Relies(q)
    <3>1. Unmoved(q)
      BY <1>2, <2>2 DEF ClearCandles, TypeOK, Unmoved, Relies
    <3>2. old[p] \in Tables
      BY <1>2 DEF ClearCandles, ClearsAnother
    <3>3. table[q] # old[p]
      BY <1>2, <2>2, <3>1 DEF ClearCandles, Unmoved
    <3>4. rows'[table[q]] = rows[table[q]]
      BY <1>2, <3>3 DEF ClearCandles, TypeOK
    <3>5. table[q] \notin torn
      BY <1>2, <3>1, <3>3 DEF ClearCandles, Unmoved
    <3> QED BY <3>1, <3>4, <3>5, SoundGrows
  <2> QED BY <2>1, <2>2
<1>3. ASSUME NEW p \in Loaders, ReadEarliest(p) PROVE Sound(q)'
  <2>1. CASE q = p
    <3>1. low'[p] = None \/ low'[p] \in rows[table[p]]
      BY <1>3 DEF ReadEarliest, Earliest, TypeOK
    <3> QED BY <1>3, <2>1, <3>1 DEF ReadEarliest, TypeOK, Sound, Relies, Anchored
  <2>2. CASE q # p
    <3>1. Unmoved(q) /\ rows' = rows /\ torn' = torn
      BY <1>3, <2>2 DEF ReadEarliest, TypeOK, Unmoved
    <3>2. Sound(q)
      BY <3>1 DEF Unmoved
    <3> QED BY <3>1, <3>2, SoundGrows
  <2> QED BY <2>1, <2>2
<1>4. ASSUME NEW p \in Loaders, ReadLatest(p) PROVE Sound(q)'
  <2>1. CASE q = p
    <3>1. PICK l \in Latest(table[p]) :
            /\ high' = [high EXCEPT ![p] = l]
            /\ head' = [head EXCEPT ![p] = HeadGap(table[p], want[p], low[p])]
            /\ tail' = [tail EXCEPT ![p] = TailGap(table[p], want[p], l)]
      BY <1>4 DEF ReadLatest
    <3>2. /\ l \in Nat /\ low[p] \in Nat /\ l # None /\ l \in rows[table[p]]
          /\ table[p] \in Tables /\ want[p] \in Windows /\ want[p] \in Window
      BY <1>4, CandleStoreAssumption DEF ReadLatest, Latest, TypeOK
    <3>3. /\ high'[p] = l /\ low'[p] = low[p] /\ rows' = rows
          /\ table'[p] = table[p] /\ want'[p] = want[p] /\ torn' = torn
          /\ head'[p] = HeadGap(table[p], want[p], low[p])
          /\ tail'[p] = TailGap(table[p], want[p], l)
          /\ low[p] # None
      BY <1>4, <3>1 DEF ReadLatest, TypeOK
    <3>4. low[p] \in rows[table[p]]
      BY <1>4, <2>1, <3>3 DEF ReadLatest, Sound, Relies, Anchored
    <3>5. Anchored(p)'
      BY <3>2, <3>3, <3>4 DEF Anchored
    <3>6. Tolerance(table[p]) \in Nat /\ Bars[table[p]] \subseteq Nat
      BY <3>2, CandleStoreAssumption DEF Tolerance
    <3>7. HeadDone(p)'
      BY <3>2, <3>3, <3>6 DEF HeadDone, HeadGap, Window, Tolerance
    <3>8. \A b \in Bars[table[p]] : ~(l < b /\ b < l + 1)
      BY <3>2, CandleStoreAssumption
    <3>9. TailDone(p)'
      BY <3>2, <3>3, <3>6, <3>8 DEF TailDone, TailGap, Window, Tolerance
    <3> QED BY <2>1, <3>3, <3>5, <3>7, <3>9 DEF Sound
  <2>2. CASE q # p
    <3>1. Unmoved(q) /\ rows' = rows /\ torn' = torn
      BY <1>4, <2>2 DEF ReadLatest, TypeOK, Unmoved
    <3>2. Sound(q)
      BY <3>1 DEF Unmoved
    <3> QED BY <3>1, <3>2, SoundGrows
  <2> QED BY <2>1, <2>2
<1>5. ASSUME NEW p \in Loaders, ReadNoBounds(p) PROVE Sound(q)'
  <2>1. CASE q = p
    <3>1. rows[table[p]] = {}
      BY <1>5, <2>1 DEF ReadNoBounds
    <3>2. /\ low'[p] = None /\ pc'[p] = "fetch" /\ rows' = rows
          /\ table'[p] = table[p] /\ want'[p] = want[p]
          /\ head'[p] = NoGap /\ tail'[p] = want[p]
      BY <1>5 DEF ReadNoBounds, TypeOK
    <3>3. want[p] \in Window /\ Bars[table[p]] \subseteq Nat
      BY CandleStoreAssumption DEF TypeOK
    <3>4. FillDone(p)'
      BY <3>1, <3>2, <3>3 DEF FillDone, Window
    <3> QED BY <2>1, <3>2, <3>4 DEF Sound, Anchored
  <2>2. CASE q # p
    <3>1. Unmoved(q) /\ rows' = rows /\ torn \subseteq torn'
      BY <1>5, <2>2 DEF ReadNoBounds, TypeOK, Unmoved
    <3>2. Sound(q)
      BY <3>1 DEF Unmoved
    <3> QED BY <3>1, <3>2, SoundGrows
  <2> QED BY <2>1, <2>2
<1>6. ASSUME NEW p \in Loaders, FetchHead(p) PROVE Sound(q)'
  <2> DEFINE t == table[p]
             R == Within(t, Request(t, head[p]))
  <2>1. /\ t \in Tables /\ head[p] \in Window /\ Open(head[p]) /\ want[p] \in Window
        /\ pc[p] = "fetch" /\ rows[t] \subseteq Bars[t] /\ Bars[t] \subseteq Nat
    BY <1>6, CandleStoreAssumption DEF FetchHead, TypeOK
  <2>2. /\ rows' = [rows EXCEPT ![t] = @ \cup R] /\ torn' = torn
        /\ head'[p] = Rest(t, head[p]) /\ tail'[p] = tail[p]
        /\ low'[p] = low[p] /\ high'[p] = high[p]
        /\ table'[p] = t /\ want'[p] = want[p] /\ pc'[p] \in {"fetch", "load"}
    BY <1>6, <2>1 DEF FetchHead, Stored, Answer, TypeOK
  <2>3. rows'[t] = rows[t] \cup R
    BY <2>1, <2>2 DEF TypeOK
  <2>4. CASE q = p
    <3>1. Sound(p)
      BY <2>2, <2>4
    <3>2. low[p] # None /\ head[p] # NoGap
      BY <2>1, <3>1 DEF Sound, FillDone, NoGap, Open
    <3>3. HeadDone(p) /\ TailDone(p) /\ Anchored(p)
      BY <2>1, <3>1, <3>2 DEF Sound, Relies
    <3>4. Rest(t, head[p]).to = head[p].to /\ head[p].from <= Rest(t, head[p]).from
          /\ Rest(t, head[p]).from \in Nat
      BY <2>1, Requests DEF Window
    <3>5. /\ head[p].to = low[p] - 1 /\ want[p].from <= head[p].from
          /\ \A b \in Bars[t] : want[p].from <= b /\ b < head[p].from => b \in rows[t]
      BY <3>2, <3>3 DEF HeadDone
    <3>6. \A b \in Bars[t] :
            want[p].from <= b /\ b < Rest(t, head[p]).from => b \in rows[t] \cup R
      BY <2>1, <3>5, Advance DEF Window
    <3>7. HeadDone(p)'
      BY <2>1, <2>2, <2>3, <3>4, <3>5, <3>6 DEF HeadDone, Window
    <3>8. TailDone(p)'
      BY <2>2, <2>3, <3>3 DEF TailDone, NoGap, Tolerance
    <3>9. Anchored(p)'
      BY <2>1, <2>2, <2>3, <3>3 DEF Anchored
    <3> QED BY <2>2, <2>4, <3>2, <3>7, <3>8, <3>9 DEF Sound
  <2>5. CASE q # p
    <3>1. Unmoved(q)
      BY <1>6, <2>5 DEF FetchHead, TypeOK, Unmoved
    <3>2. Sound(q)
      BY <2>2, <3>1 DEF Unmoved
    <3>3. rows[table[q]] \subseteq rows'[table[q]] /\ table[q] \in Tables
      BY <2>1, <2>2 DEF TypeOK
    <3>4. table[q] = t => rows[t] # {}
      <4>1. SUFFICES ASSUME table[q] = t PROVE rows[t] # {}
        OBVIOUS
      <4>2. Sound(p)
        BY <2>2, <3>1, <4>1 DEF Unmoved
      <4> QED BY <2>1, <4>2 DEF Sound, Relies, Anchored, FillDone, NoGap, Open
    <3>5. Fills(q) /\ rows[table[q]] = {} => rows'[table[q]] = {}
      BY <2>1, <2>2, <3>3, <3>4 DEF TypeOK
    <3> QED BY <3>1, <3>2, <3>3, <3>5, SoundGrows
  <2> QED BY <2>4, <2>5
<1>7. ASSUME NEW p \in Loaders, FetchTail(p) PROVE Sound(q)'
  <2> DEFINE t == table[p]
             R == Within(t, Request(t, tail[p]))
  <2>1. /\ t \in Tables /\ tail[p] \in Window /\ Open(tail[p]) /\ want[p] \in Window
        /\ pc[p] = "fetch" /\ rows[t] \subseteq Bars[t] /\ Bars[t] \subseteq Nat
    BY <1>7, CandleStoreAssumption DEF FetchTail, TypeOK, GapsDrive
  <2>2. /\ rows' = [rows EXCEPT ![t] = @ \cup R] /\ torn' = torn /\ R # {}
        /\ tail'[p] = Rest(t, tail[p]) /\ head'[p] = head[p]
        /\ low'[p] = low[p] /\ high'[p] = high[p]
        /\ table'[p] = t /\ want'[p] = want[p] /\ pc'[p] \in {"fetch", "load"}
    BY <1>7, <2>1 DEF FetchTail, Stored, Answer, TypeOK
  <2>3. rows'[t] = rows[t] \cup R
    BY <2>1, <2>2 DEF TypeOK
  <2>4. /\ Rest(t, tail[p]).to = tail[p].to /\ tail[p].from <= Rest(t, tail[p]).from
        /\ Rest(t, tail[p]).from = Request(t, tail[p]).to + 1
        /\ Request(t, tail[p]).from = tail[p].from
        /\ Rest(t, tail[p]).from \in Nat
    BY <2>1, Requests DEF Window
  <2>5. CASE q = p /\ low[p] # None
    <3>1. Sound(p)
      BY <2>2, <2>5
    <3>2. HeadDone(p) /\ TailDone(p) /\ Anchored(p) /\ tail[p] # NoGap
      BY <2>1, <2>5, <3>1 DEF Sound, Relies, Open, NoGap
    <3>3. /\ tail[p].to = want[p].to /\ high[p] < tail[p].from
          /\ \A b \in Bars[t] : high[p] < b /\ b < tail[p].from => b \in rows[t]
          /\ high[p] \in Nat
      BY <2>1, <2>5, <3>2 DEF TailDone, Anchored
    <3>4. \A b \in Bars[t] :
            high[p] + 1 <= b /\ b < Rest(t, tail[p]).from => b \in rows[t] \cup R
      <4>1. \A b \in Bars[t] : high[p] + 1 <= b /\ b < tail[p].from => b \in rows[t]
        BY <2>1, <3>3
      <4>2. high[p] + 1 \in Nat /\ high[p] + 1 <= tail[p].from
        BY <2>1, <3>3 DEF Window
      <4> QED BY <2>1, <4>1, <4>2, Advance
    <3>5. TailDone(p)'
      BY <2>1, <2>2, <2>3, <2>4, <3>3, <3>4 DEF TailDone, Window
    <3>6. HeadDone(p)'
      BY <2>2, <2>3, <3>2 DEF HeadDone, NoGap, Tolerance
    <3>7. Anchored(p)'
      BY <2>1, <2>2, <2>3, <3>2 DEF Anchored
    <3> QED BY <2>2, <2>5, <3>5, <3>6, <3>7 DEF Sound
  <2>6. CASE q = p /\ low[p] = None
    <3>1. FillDone(p)
      BY <2>1, <2>2, <2>6 DEF Sound
    <3>2. \A b \in Bars[t] :
            want[p].from <= b /\ b < Rest(t, tail[p]).from => b \in rows[t] \cup R
      BY <2>1, <3>1, Advance DEF FillDone, Window
    <3>3. PICK z \in R : z \in Nat /\ tail[p].from <= z /\ z < Rest(t, tail[p]).from
      BY <2>1, <2>2, <2>4, Requests DEF Within
    <3>4. want[p].from <= z /\ z \in rows'[t]
      BY <2>1, <2>3, <3>1, <3>3 DEF FillDone, Window
    <3>5. FillDone(p)'
      BY <2>1, <2>2, <2>3, <2>4, <3>1, <3>2, <3>3, <3>4 DEF FillDone, NoGap, Window
    <3> QED BY <2>2, <2>6, <3>5 DEF Sound, Anchored
  <2>7. CASE q # p
    <3>1. Unmoved(q)
      BY <1>7, <2>7 DEF FetchTail, TypeOK, Unmoved
    <3>2. Sound(q) /\ table[q] \notin torn
      BY <2>2, <3>1 DEF Unmoved
    <3>3. rows[table[q]] \subseteq rows'[table[q]] /\ table[q] \in Tables
      BY <2>1, <2>2 DEF TypeOK
    <3>4. table[q] = t /\ Fills(q) => rows[t] # {}
      <4>1. SUFFICES ASSUME table[q] = t, Fills(q) PROVE rows[t] # {}
        OBVIOUS
      <4>2. Sound(p) /\ ~Fills(p)
        BY <2>7, <3>2, <4>1 DEF FillsAlone
      <4> QED BY <2>1, <4>2 DEF Sound, Relies, Anchored, Fills
    <3>5. Fills(q) /\ rows[table[q]] = {} => rows'[table[q]] = {}
      BY <2>1, <2>2, <3>3, <3>4 DEF TypeOK
    <3> QED BY <3>1, <3>2, <3>3, <3>5, SoundGrows
  <2> QED BY <2>5, <2>6, <2>7
<1>8. ASSUME NEW p \in Loaders, NEW how \in Ended, End(p, how) PROVE Sound(q)'
  <2>1. CASE q = p
    BY <1>8, <2>1, SoundElsewhere DEF End, TypeOK, Ended
  <2>2. CASE q # p
    <3>1. Unmoved(q) /\ rows' = rows /\ torn \subseteq torn'
      BY <1>8, <2>2 DEF End, TypeOK, Unmoved
    <3>2. Sound(q)
      BY <3>1 DEF Unmoved
    <3> QED BY <3>1, <3>2, SoundGrows
  <2> QED BY <2>1, <2>2
<1>9. CASE UNCHANGED vars
  <2>1. Unmoved(q) /\ rows' = rows /\ torn' = torn
    BY <1>9 DEF vars, Unmoved
  <2>2. Sound(q)
    BY <2>1 DEF Unmoved
  <2> QED BY <2>1, <2>2, SoundGrows
<1> QED BY <1>1, <1>2, <1>3, <1>4, <1>5, <1>6, <1>7, <1>8, <1>9
        DEF Next, FetchNothing, Fail, LoadCandles, Ended

-----------------------------------------------------------------------------
(* Two loads that fill one table damage it.                                *)

LEMMA FillsStep == CacheInv /\ [Next]_vars => FillsAlone'
<1> SUFFICES ASSUME CacheInv, [Next]_vars,
                    NEW p \in Loaders, NEW q \in Loaders, p # q,
                    Fills(p)', Fills(q)', table'[p] = table'[q]
             PROVE  table'[p] \in torn'
  BY DEF FillsAlone
<1> USE DEF CacheInv, BaseInv
<1>1. ASSUME NEW r \in Loaders, NEW s \in Loaders, r # s, ReadNoBounds(r),
             Fills(s)', table'[s] = table'[r]
      PROVE  table'[r] \in torn'
  <2>1. table[s] = table[r] /\ Fills(s) /\ table'[r] = table[r]
    BY <1>1 DEF ReadNoBounds, Fills, TypeOK
  <2>2. table[r] \in torn'
    BY <1>1, <2>1 DEF ReadNoBounds
  <2> QED BY <1>1, <2>1, <2>2
<1>2. CASE Fills(p) /\ Fills(q) /\ table'[p] = table[p] /\ table'[q] = table[q]
  <2>1. table[p] \in torn
    BY <1>2 DEF FillsAlone
  <2>2. ASSUME NEW r \in Loaders, ClearCandles(r) PROVE table[p] \in torn'
    BY <1>2, <2>1, <2>2 DEF ClearCandles, Fills, Relies
  <2>3. (\A r \in Loaders : ~ClearCandles(r)) => torn \subseteq torn'
    BY DEF Next, Call, SaveMetaOpen, SaveMetaWrite, ReadEarliest, ReadLatest, ReadNoBounds,
           FetchHead, FetchTail, FetchNothing, Fail, LoadCandles, End, vars
  <2> QED BY <1>2, <2>1, <2>2, <2>3
<1>3. ASSUME NEW r \in Loaders, ReadNoBounds(r), NEW s \in Loaders, s # r, Fills(s)'
      PROVE  Fills(s) /\ table'[s] = table[s]
  BY <1>3 DEF ReadNoBounds, Fills, TypeOK
<1>4. ASSUME \A r \in Loaders : ~ReadNoBounds(r), NEW s \in Loaders, Fills(s)'
      PROVE  Fills(s) /\ table'[s] = table[s]
  <2>1. ASSUME NEW r \in Loaders, Call(r) \/ ClearCandles(r) \/ SaveMetaOpen(r) \/ SaveMetaWrite(r)
        PROVE  Fills(s) /\ table'[s] = table[s]
    BY <1>4, <2>1 DEF Call, ClearCandles, SaveMetaOpen, SaveMetaWrite, Fills, TypeOK
  <2>2. ASSUME NEW r \in Loaders, ReadEarliest(r) \/ ReadLatest(r)
        PROVE  Fills(s) /\ table'[s] = table[s]
    BY <1>4, <2>2 DEF ReadEarliest, ReadLatest, Fills, TypeOK
  <2>3. ASSUME NEW r \in Loaders, FetchHead(r) \/ FetchTail(r)
        PROVE  Fills(s) /\ table'[s] = table[s]
    BY <1>4, <2>3 DEF FetchHead, FetchTail, Fills, TypeOK
  <2>4. ASSUME NEW r \in Loaders, NEW how \in Ended, End(r, how)
        PROVE  Fills(s) /\ table'[s] = table[s]
    BY <1>4, <2>4 DEF End, Ended, Fills, TypeOK
  <2>5. CASE UNCHANGED vars
    BY <1>4, <2>5 DEF vars, Fills
  <2> QED BY <1>4, <2>1, <2>2, <2>3, <2>4, <2>5
          DEF Next, FetchNothing, Fail, LoadCandles, Ended
<1>5. CASE \E r \in Loaders : ReadNoBounds(r)
  <2>1. PICK r \in Loaders : ReadNoBounds(r)
    BY <1>5
  <2>2. CASE r # p /\ r # q
    BY <1>2, <1>3, <2>1, <2>2
  <2>3. CASE r = p
    BY <1>1, <2>1, <2>3
  <2>4. CASE r = q
    BY <1>1, <2>1, <2>4
  <2> QED BY <2>2, <2>3, <2>4
<1>6. CASE \A r \in Loaders : ~ReadNoBounds(r)
  BY <1>2, <1>4, <1>6
<1> QED BY <1>5, <1>6

-----------------------------------------------------------------------------
(* Holes.                                                                  *)

\* The candle b of the table t is what the loader p is still going to fetch.
Coming(p, t, b) ==
  table[p] = t /\ MidHead(p) /\ head[p].from <= b /\ b <= head[p].to

\* Nothing is stored and no gap moves: holes stay as they are.
LEMMA HolesStay ==
  ASSUME HolesAreBeingFilled, rows' = rows, torn \subseteq torn',
         \A p \in Loaders, t \in Tables, b \in Nat :
           t \notin torn' /\ Coming(p, t, b) => Coming(p, t, b)'
  PROVE  HolesAreBeingFilled'
<1> SUFFICES ASSUME NEW t \in Tables \ torn', NEW x \in rows'[t], NEW y \in rows'[t],
                    NEW b \in Bars[t] \ rows'[t], x < b, b < y
             PROVE  \E p \in Loaders : Coming(p, t, b)'
  BY DEF HolesAreBeingFilled, Coming
<1>1. PICK p \in Loaders : Coming(p, t, b)
  BY DEF HolesAreBeingFilled, Coming
<1>2. b \in Nat
  BY CandleStoreAssumption
<1> QED BY <1>1, <1>2

LEMMA HolesStep == CacheInv /\ [Next]_vars => HolesAreBeingFilled'
<1> SUFFICES ASSUME CacheInv, [Next]_vars PROVE HolesAreBeingFilled'
  OBVIOUS
<1> USE DEF CacheInv, BaseInv
<1>1. ASSUME NEW p \in Loaders, Call(p) \/ SaveMetaOpen(p) \/ SaveMetaWrite(p)
      PROVE  HolesAreBeingFilled'
  <2>1. rows' = rows /\ torn' = torn
    BY <1>1 DEF Call, SaveMetaOpen, SaveMetaWrite
  <2>2. \A q \in Loaders : pc[q] = "fetch" => Unmoved(q)
    BY <1>1 DEF Call, SaveMetaOpen, SaveMetaWrite, TypeOK, Unmoved, Ended
  <2>3. \A q \in Loaders, t \in Tables, b \in Nat : Coming(q, t, b) => Coming(q, t, b)'
    BY <2>2 DEF Coming, MidHead, Unmoved, Open
  <2> QED BY <2>1, <2>3, HolesStay
<1>2. ASSUME NEW p \in Loaders, ReadEarliest(p) \/ ReadLatest(p) \/ ReadNoBounds(p)
      PROVE  HolesAreBeingFilled'
  <2>1. rows' = rows /\ torn \subseteq torn'
    BY <1>2 DEF ReadEarliest, ReadLatest, ReadNoBounds
  <2>2. \A q \in Loaders : pc[q] = "fetch" => Unmoved(q)
    BY <1>2 DEF ReadEarliest, ReadLatest, ReadNoBounds, TypeOK, Unmoved
  <2>3. \A q \in Loaders, t \in Tables, b \in Nat : Coming(q, t, b) => Coming(q, t, b)'
    BY <2>2 DEF Coming, MidHead, Unmoved, Open
  <2> QED BY <2>1, <2>3, HolesStay
<1>3. ASSUME NEW p \in Loaders, ClearCandles(p) PROVE HolesAreBeingFilled'
  <2>1. \A q \in Loaders : MidHead(q) => MidHead(q)' /\ head'[q] = head[q] /\ table'[q] = table[q]
    BY <1>3 DEF ClearCandles, TypeOK, MidHead, Open
  <2>2. old[p] \in Tables
    BY <1>3 DEF ClearCandles, ClearsAnother
  <2> SUFFICES ASSUME NEW t \in Tables \ torn', NEW x \in rows'[t], NEW y \in rows'[t],
                      NEW b \in Bars[t] \ rows'[t], x < b, b < y
               PROVE  \E q \in Loaders : Coming(q, t, b)'
    BY DEF HolesAreBeingFilled, Coming
  <2>3. rows'[t] = rows[t] /\ t \notin torn
    BY <1>3, <2>2 DEF ClearCandles, TypeOK
  <2>4. PICK q \in Loaders : table[q] = t /\ MidHead(q) /\ head[q].from <= b /\ b <= head[q].to
    BY <2>3 DEF HolesAreBeingFilled
  <2> QED BY <2>1, <2>4 DEF Coming
<1>4. ASSUME NEW p \in Loaders, NEW how \in Ended, End(p, how) PROVE HolesAreBeingFilled'
  <2>1. rows' = rows /\ torn \subseteq torn'
    BY <1>4 DEF End
  <2>2. \A q \in Loaders \ {p} : Unmoved(q)
    BY <1>4 DEF End, TypeOK, Unmoved
  <2>3. ASSUME NEW q \in Loaders, NEW t \in Tables, NEW b \in Nat, t \notin torn', Coming(q, t, b)
        PROVE  Coming(q, t, b)'
    <3>1. q # p
      BY <1>4, <2>3 DEF End, Coming
    <3> QED BY <2>2, <2>3, <3>1 DEF Coming, MidHead, Unmoved, Open
  <2> QED BY <2>1, <2>3, HolesStay
<1>5. ASSUME NEW p \in Loaders, FetchHead(p) PROVE HolesAreBeingFilled'
  <2> DEFINE s == table[p]
             R == Within(s, Request(s, head[p]))
  <2> SUFFICES ASSUME NEW t \in Tables \ torn', NEW x \in rows'[t], NEW y \in rows'[t],
                      NEW b \in Bars[t] \ rows'[t], x < b, b < y
               PROVE  \E q \in Loaders : Coming(q, t, b)'
    BY DEF HolesAreBeingFilled, Coming
  <2>1. /\ s \in Tables /\ head[p] \in Window /\ Open(head[p]) /\ want[p] \in Window
        /\ pc[p] = "fetch" /\ \A u \in Tables : rows[u] \subseteq Bars[u] /\ Bars[u] \subseteq Nat
    BY <1>5, CandleStoreAssumption DEF FetchHead, TypeOK
  <2>2. /\ rows' = [rows EXCEPT ![s] = @ \cup R] /\ torn' = torn
        /\ head'[p] = Rest(s, head[p]) /\ table'[p] = s /\ want'[p] = want[p]
        /\ Open(head'[p]) => pc'[p] = "fetch"
    BY <1>5, <2>1 DEF FetchHead, Stored, Answer, TypeOK
  <2>3. \A q \in Loaders \ {p} : Unmoved(q)
    BY <1>5 DEF FetchHead, TypeOK, Unmoved
  <2>4. rows' \in [Tables -> SUBSET Nat] /\ x \in Nat /\ y \in Nat /\ b \in Nat
    <3>1. rows' \in [Tables -> SUBSET Nat]
      BY <2>1, <2>2 DEF TypeOK, Within
    <3> QED BY <2>1, <3>1
  <2>5. ASSUME NEW q \in Loaders, q # p, Coming(q, t, b) PROVE Coming(q, t, b)'
    BY <2>3, <2>5 DEF Coming, MidHead, Unmoved, Open
  <2>6. CASE t # s
    <3>1. rows'[t] = rows[t] /\ t \notin torn
      BY <2>1, <2>2, <2>6 DEF TypeOK
    <3>2. PICK q \in Loaders : Coming(q, t, b)
      BY <3>1 DEF HolesAreBeingFilled, Coming
    <3> QED BY <2>5, <2>6, <3>2 DEF Coming
  <2>7. CASE t = s
    <3>1. rows'[s] = rows[s] \cup R /\ s \notin torn
      BY <2>1, <2>2, <2>7 DEF TypeOK
    <3>2. Sound(p)
      BY <3>1
    <3>3. low[p] # None /\ head[p] # NoGap
      BY <2>1, <3>2 DEF Sound, FillDone, NoGap, Open
    <3>4. HeadDone(p) /\ low[p] \in rows[s]
      BY <2>1, <3>2, <3>3 DEF Sound, Relies, Anchored
    <3>5. /\ head[p].to = low[p] - 1 /\ want[p].from <= head[p].from
          /\ \A c \in Bars[s] : want[p].from <= c /\ c < head[p].from => c \in rows[s]
      BY <3>3, <3>4 DEF HeadDone
    <3>6. /\ Request(s, head[p]).from = head[p].from
          /\ Request(s, head[p]).to \in Nat
          /\ head[p].from <= Request(s, head[p]).to /\ Request(s, head[p]).to <= head[p].to
          /\ Rest(s, head[p]).to = head[p].to
          /\ Rest(s, head[p]).from = Request(s, head[p]).to + 1
      BY <2>1, Requests
    <3>7. /\ low[p] \in Nat /\ low[p] \in Bars[s] /\ head[p].from \in Nat /\ want[p].from \in Nat
          /\ b \in Bars[s] /\ b \notin rows[s] /\ b \notin R
      BY <2>1, <2>7, <3>1, <3>4 DEF Window
    <3>8. \A c \in R : head[p].from <= c /\ c <= Request(s, head[p]).to
      BY <3>6 DEF Within
    <3>9. b < head[p].from \/ b > Request(s, head[p]).to
      BY <2>4, <3>6, <3>7 DEF Within
    <3>10. ASSUME NEW v \in rows[s], NEW w \in rows[s], v < b, b < w,
                  b < head[p].from \/ b > head[p].to
           PROVE  \E q \in Loaders : Coming(q, t, b)'
      <4> HIDE DEF s, R
      <4>1. PICK q \in Loaders : Coming(q, s, b)
        <5>1. s \in Tables \ torn /\ b \in Bars[s] \ rows[s]
          BY <2>1, <3>1, <3>7
        <5> QED BY <3>10, <5>1 DEF HolesAreBeingFilled, Coming
      <4>2. q # p
        BY <2>1, <2>4, <3>5, <3>7, <3>10, <4>1 DEF Coming
      <4> QED BY <2>5, <2>7, <4>1, <4>2
    <3>11. CASE b > Request(s, head[p]).to /\ b < low[p]
      <4>1. b + 1 < low[p]
        BY <3>7, <3>11, Spacing, <2>1
      <4>2. MidHead(p)'
        BY <2>1, <2>2, <2>4, <3>5, <3>6, <3>7, <3>11, <4>1 DEF MidHead, Open
      <4>3. head'[p].from <= b /\ b <= head'[p].to
        BY <2>2, <2>4, <3>5, <3>6, <3>7, <3>11
      <4> QED BY <2>2, <2>7, <4>2, <4>3 DEF Coming
    <3>12. CASE b > Request(s, head[p]).to /\ b >= low[p]
      <4>1. low[p] < b /\ b > head[p].to
        BY <2>4, <3>4, <3>5, <3>7, <3>12
      <4>2. y \in rows[s]
        BY <2>4, <2>7, <3>1, <3>6, <3>8, <3>12
      <4> QED BY <3>4, <3>10, <4>1, <4>2
    <3>13. CASE b < head[p].from
      <4>1. b < want[p].from
        BY <2>4, <3>5, <3>7, <3>13
      <4>2. x \in rows[s]
        BY <2>4, <2>7, <3>1, <3>7, <3>8, <3>13
      <4>3. b < low[p]
        BY <2>1, <2>4, <3>5, <3>6, <3>7, <3>13
      <4> QED BY <3>4, <3>10, <3>13, <4>2, <4>3
    <3> QED BY <2>4, <3>7, <3>9, <3>11, <3>12, <3>13
  <2> QED BY <2>6, <2>7
<1>6. ASSUME NEW p \in Loaders, FetchTail(p) PROVE HolesAreBeingFilled'
  <2> DEFINE s == table[p]
             R == Within(s, Request(s, tail[p]))
  <2> SUFFICES ASSUME NEW t \in Tables \ torn', NEW x \in rows'[t], NEW y \in rows'[t],
                      NEW b \in Bars[t] \ rows'[t], x < b, b < y
               PROVE  \E q \in Loaders : Coming(q, t, b)'
    BY DEF HolesAreBeingFilled, Coming
  <2>1. /\ s \in Tables /\ tail[p] \in Window /\ Open(tail[p]) /\ want[p] \in Window
        /\ pc[p] = "fetch" /\ \A u \in Tables : rows[u] \subseteq Bars[u] /\ Bars[u] \subseteq Nat
    BY <1>6, CandleStoreAssumption DEF FetchTail, TypeOK, GapsDrive
  <2>2. rows' = [rows EXCEPT ![s] = @ \cup R] /\ torn' = torn
    BY <1>6, <2>1 DEF FetchTail, Stored, Answer, TypeOK
  <2>3. \A q \in Loaders \ {p} : Unmoved(q)
    BY <1>6 DEF FetchTail, TypeOK, Unmoved
  <2>4. rows' \in [Tables -> SUBSET Nat] /\ x \in Nat /\ y \in Nat /\ b \in Nat
    <3>1. rows' \in [Tables -> SUBSET Nat]
      BY <2>1, <2>2 DEF TypeOK, Within
    <3> QED BY <2>1, <3>1
  <2>5. ASSUME NEW q \in Loaders, Coming(q, t, b) PROVE Coming(q, t, b)'
    <3>1. q # p
      BY <1>6, <2>5 DEF FetchTail, Coming, MidHead
    <3> QED BY <2>3, <2>5, <3>1 DEF Coming, MidHead, Unmoved, Open
  <2>6. CASE t # s
    <3>1. rows'[t] = rows[t] /\ t \notin torn
      BY <2>1, <2>2, <2>6 DEF TypeOK
    <3>2. PICK q \in Loaders : Coming(q, t, b)
      BY <3>1 DEF HolesAreBeingFilled, Coming
    <3> QED BY <2>5, <3>2
  <2>7. CASE t = s
    <3>1. rows'[s] = rows[s] \cup R /\ s \notin torn
      BY <2>1, <2>2, <2>7 DEF TypeOK
    <3>2. Sound(p)
      BY <3>1
    <3>3. /\ Request(s, tail[p]).from = tail[p].from
          /\ Request(s, tail[p]).to \in Nat
          /\ tail[p].from <= Request(s, tail[p]).to
      BY <2>1, Requests
    <3>4. /\ b \in Bars[s] /\ b \notin rows[s] /\ b \notin R
          /\ tail[p].from \in Nat /\ want[p].from \in Nat
      BY <2>1, <2>7, <3>1 DEF Window
    <3>5. \A c \in R : tail[p].from <= c /\ c <= Request(s, tail[p]).to
      BY <3>3 DEF Within
    <3>6. b < tail[p].from \/ b > Request(s, tail[p]).to
      BY <2>4, <3>3, <3>4 DEF Within
    <3>7. ASSUME NEW v \in rows[s], NEW w \in rows[s], v < b, b < w
          PROVE  \E q \in Loaders : Coming(q, t, b)'
      <4> HIDE DEF s, R
      <4>1. PICK q \in Loaders : Coming(q, s, b)
        <5>1. s \in Tables \ torn /\ b \in Bars[s] \ rows[s]
          BY <2>1, <3>1, <3>4
        <5> QED BY <3>7, <5>1 DEF HolesAreBeingFilled, Coming
      <4> QED BY <2>5, <2>7, <4>1
    \* An old candle that lies beside b on the side away from the request.
    <3>8. b > Request(s, tail[p]).to => y \in rows[s]
      BY <2>4, <2>7, <3>1, <3>3, <3>5
    <3>9. b < tail[p].from => x \in rows[s]
      BY <2>4, <2>7, <3>1, <3>3, <3>4, <3>5
    <3>10. CASE low[p] # None
      <4>1. tail[p] # NoGap /\ TailDone(p) /\ high[p] \in rows[s]
        BY <2>1, <3>2, <3>10 DEF Sound, Relies, Anchored, Open, NoGap
      <4>2. /\ high[p] \in Nat /\ high[p] < tail[p].from
            /\ \A c \in Bars[s] : high[p] < c /\ c < tail[p].from => c \in rows[s]
        BY <2>1, <4>1 DEF TailDone
      <4>3. CASE b > Request(s, tail[p]).to
        BY <2>4, <3>3, <3>4, <3>7, <3>8, <4>1, <4>2, <4>3
      <4>4. CASE b < tail[p].from
        <5>1. b < high[p]
          BY <2>4, <3>4, <4>1, <4>2, <4>4
        <5> QED BY <3>7, <3>9, <4>1, <4>4, <5>1
      <4> QED BY <3>6, <4>3, <4>4
    <3>11. CASE low[p] = None
      <4>1. /\ want[p].from <= tail[p].from
            /\ \A c \in Bars[s] : want[p].from <= c /\ c < tail[p].from => c \in rows[s]
            /\ \/ rows[s] = {}
               \/ \E z \in rows[s] : want[p].from <= z /\ z < tail[p].from
        BY <2>1, <3>2, <3>11 DEF Sound, FillDone
      <4>2. rows[s] # {}
        BY <3>6, <3>8, <3>9
      <4>3. PICK z \in rows[s] : want[p].from <= z /\ z < tail[p].from
        BY <4>1, <4>2
      <4>4. z \in Nat
        BY <2>1
      <4>5. CASE b > Request(s, tail[p]).to
        BY <2>4, <3>3, <3>4, <3>7, <3>8, <4>3, <4>4, <4>5
      <4>6. CASE b < tail[p].from
        <5>1. b < z
          BY <2>4, <3>4, <4>1, <4>3, <4>4, <4>6
        <5> QED BY <3>7, <3>9, <4>6, <5>1
      <4> QED BY <3>6, <4>5, <4>6
    <3> QED BY <3>10, <3>11
  <2> QED BY <2>6, <2>7
<1>7. CASE UNCHANGED vars
  <2>1. rows' = rows /\ torn' = torn /\ \A q \in Loaders : Unmoved(q)
    BY <1>7 DEF vars, Unmoved
  <2>2. \A q \in Loaders, t \in Tables, b \in Nat : Coming(q, t, b) => Coming(q, t, b)'
    BY <2>1 DEF Coming, MidHead, Unmoved, Open
  <2> QED BY <2>1, <2>2, HolesStay
<1> QED BY <1>1, <1>2, <1>3, <1>4, <1>5, <1>6, <1>7
        DEF Next, FetchNothing, Fail, LoadCandles, Ended

-----------------------------------------------------------------------------
(* Theorems.                                                               *)

LEMMA CacheInit == Init => CacheInv
  BY BaseInit
  DEF Init, CacheInv, BaseInv, Sound, Relies, FillsAlone, Fills, HolesAreBeingFilled

LEMMA CacheStep == CacheInv /\ [Next]_vars => CacheInv'
  BY BaseStep, SoundStep, FillsStep, HolesStep DEF CacheInv

LEMMA Cache == Spec => []CacheInv
  BY CacheInit, CacheStep, PTL DEF Spec

\* Whatever loads are called, race, fail and resume, meta, tables, gaps and
\* cursors keep their types: no table holds a candle of another market.
THEOREM TypeCorrect == Spec => []TypeOK
<1>1. CacheInv => TypeOK
  BY DEF CacheInv, BaseInv
<1> QED BY Cache, <1>1, PTL

\* Every hole in a table that no broken-off load, clear or double fill has
\* damaged lies in what a running load will still fetch.
THEOREM HolesAreTemporary == Spec => []HolesAreBeingFilled
<1>1. CacheInv => HolesAreBeingFilled
  BY DEF CacheInv
<1> QED BY Cache, <1>1, PTL

\* A load of an undamaged table that nobody is filling reads its whole window,
\* the tolerance at its ends apart.
THEOREM LoadsComplete == Spec => []LoadsAreCovered
<1>1. CacheInv => LoadsAreCovered
  <2> SUFFICES ASSUME CacheInv, NEW p \in Loaders, pc[p] = "load", table[p] \notin torn,
                      \A q \in Loaders : table[q] = table[p] => ~MidHead(q),
                      NEW b \in Due(p), b \notin rows[table[p]]
               PROVE  FALSE
    BY DEF LoadsAreCovered
  <2> DEFINE t == table[p]
  <2>1. /\ t \in Tables /\ head[p] \in Window /\ tail[p] \in Window /\ want[p] \in Window
        /\ b \in Bars[t] /\ b \in Nat /\ rows[t] \subseteq Bars[t] /\ Bars[t] \subseteq Nat
        /\ Tolerance(t) \in Nat /\ Tolerance(t) > 1
        /\ ~Open(head[p]) /\ ~Open(tail[p])
    BY CandleStoreAssumption DEF CacheInv, BaseInv, TypeOK, GapsDrive, Due, Tolerance
  <2>2. want[p].from + Tolerance(t) <= b /\ b <= want[p].to - Tolerance(t)
    BY DEF Due
  <2>3. Sound(p)
    BY DEF CacheInv
  <2>4. CASE low[p] = None
    <3>1. FillDone(p)
      BY <2>3, <2>4 DEF Sound
    <3> QED BY <2>1, <2>2, <3>1 DEF FillDone, Open, Window
  <2>5. CASE low[p] # None
    <3>1. HeadDone(p) /\ TailDone(p) /\ low[p] \in rows[t] /\ high[p] \in rows[t]
      BY <2>3, <2>5 DEF Sound, Relies, Anchored
    <3>2. low[p] \in Nat /\ high[p] \in Nat /\ low[p] \in Bars[t]
      BY <2>1, <3>1
    <3>3. low[p] < b
      <4>1. SUFFICES ASSUME b < low[p] PROVE FALSE
        BY <2>1, <3>1, <3>2
      <4>2. b + 1 < low[p]
        BY <2>1, <3>2, <4>1, Spacing
      <4> QED BY <2>1, <2>2, <3>1, <3>2, <4>1, <4>2 DEF HeadDone, Open, Window
    <3>4. b < high[p]
      <4>1. SUFFICES ASSUME high[p] < b PROVE FALSE
        BY <2>1, <3>1, <3>2
      <4> QED BY <2>1, <2>2, <3>1, <3>2, <4>1 DEF TailDone, Open, Window
    <3>5. t \in Tables \ torn /\ b \in Bars[t] \ rows[t]
      BY <2>1
    <3> QED BY <3>1, <3>3, <3>4, <3>5 DEF CacheInv, HolesAreBeingFilled
  <2> QED BY <2>4, <2>5
<1> QED BY Cache, <1>1, PTL

=============================================================================
