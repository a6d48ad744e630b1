------------------------- MODULE ParameterSearch_proofs -------------------------
(***************************************************************************)
(* What a search of parameters finds, for any strategies, choices,         *)
(* constraints, reports and number of iterations, and a stop at any time.  *)
(***************************************************************************)
EXTENDS ParameterSearch, Listing_proofs

All == Grid[Strategy]
Runnable == {params \in Range(All) : /\ ValidCombination(params)
                                     /\ CompilesWith(Definitions[Strategy], params)}

\* What an iteration may add to the list.
Results == {[params |-> params, report |-> WithoutChart(report)] :
              params \in Range(All), report \in Reports}

\* The best so far is the first of those that earned the most.
FirstBest ==
  /\ best = Nothing <=> iterations = <<>>
  /\ iterations # <<>> =>
       \E i \in DOMAIN iterations :
         /\ iterations[i] = best
         /\ \A j \in DOMAIN iterations :
              /\ iterations[j].report.totalPnl <= best.report.totalPnl
              /\ j < i => iterations[j].report.totalPnl < best.report.totalPnl

(***************************************************************************)
(* The inductive invariant: the properties speak of the end of a search;   *)
(* on the way to it every combination that can be run has been run or is   *)
(* still to be tried.                                                      *)
(***************************************************************************)
Searching == {"search", "decide", "complete"}
SearchInv ==
  pc \in Searching =>
    /\ Strategy \in DOMAIN Definitions
    /\ chosen \in Seq(Range(All))
    /\ tried \subseteq Runnable
    /\ mode = "grid" => Runnable \subseteq tried \cup Range(chosen)
    /\ iterations \in Seq(Results)
    /\ \A i \in DOMAIN iterations : iterations[i].params \in tried
    /\ FirstBest

-----------------------------------------------------------------------------

\* Leaving out the chart does not change what was earned, and a report is never none.
LEMMA ResultsEarn ==
  ASSUME NEW result \in Results
  PROVE  result.report.totalPnl \in Int /\ result # Nothing
<1>1. PICK params \in Range(All), report \in Reports :
        result = [params |-> params, report |-> WithoutChart(report)]
  BY DEF Results
<1>2. "totalPnl" \in DOMAIN report /\ report.totalPnl \in Int
  BY SearchAssumption DEF IsReport
<1>3. DOMAIN WithoutChart(report) = DOMAIN report
  BY DEF WithoutChart
<1>4. WithoutChart(report).totalPnl = report.totalPnl
  BY <1>2 DEF WithoutChart
<1>5. "totalPnl" \notin DOMAIN NoReport
  BY DEF NoReport
<1>6. WithoutChart(report) # NoReport
  BY <1>2, <1>3, <1>5
<1> QED BY <1>1, <1>2, <1>4, <1>6 DEF Nothing

\* A sample is made of the combinations, and a grid is all of them.
LEMMA SamplesAreListed ==
  ASSUME NEW s \in DOMAIN Definitions, NEW list \in Samples(s)
  PROVE  LET all == Grid[s]
         IN  list \in Seq(Range(all)) /\ (mode = "grid" => list = all)
<1> DEFINE all == Grid[s]
<1>1. all \in Seq(Range(all))
  BY ListAssumption
<1> HIDE DEF all
<1>2. CASE list = all
  BY <1>1, <1>2 DEF all
<1>3. CASE mode # "grid"
  <2>1. \/ list = all
        \/ \E pick \in [1..Iterations -> DOMAIN all] :
             list = [k \in 1..Iterations |-> all[pick[k]]]
    BY <1>3 DEF Samples, all
  <2>2. ASSUME NEW pick \in [1..Iterations -> DOMAIN all],
               list = [k \in 1..Iterations |-> all[pick[k]]]
        PROVE  list \in Seq(Range(all))
    <3>1. \A k \in 1..Iterations : all[pick[k]] \in Range(all)
      BY DEF Range
    <3>2. Iterations \in Nat
      BY SearchAssumption
    <3> QED BY <2>2, <3>1, <3>2
  <2> QED BY <1>1, <1>3, <2>1, <2>2 DEF all
<1>4. mode = "grid" => list = all
  BY DEF Samples, all
<1> QED BY <1>2, <1>3, <1>4

-----------------------------------------------------------------------------

LEMMA TakeUpStep ==
  ASSUME TakeUp PROVE SearchInv'
<1> SUFFICES ASSUME pc' \in Searching PROVE SearchInv'
  BY DEF SearchInv
<1> DEFINE s == Strategies[cursor + 1]
<1>1. Searchable(s) /\ chosen' \in Samples(s) /\ cursor' = cursor + 1
  BY DEF TakeUp, Searching
<1>2. tried' = {} /\ iterations' = <<>> /\ best' = Nothing /\ mode' = mode
  BY DEF TakeUp
<1>3. s \in DOMAIN Definitions
  BY <1>1 DEF Searchable
<1>4. All' = Grid[s]
  BY <1>1 DEF All, Strategy
<1>5. chosen' \in Seq(Range(All')) /\ (mode = "grid" => chosen' = All')
  BY <1>1, <1>3, <1>4, SamplesAreListed
<1>6. Runnable' \subseteq Range(All')
  BY DEF Runnable
<1>7. FirstBest'
  BY <1>2 DEF FirstBest
<1>8. iterations' \in Seq(Results')
  BY <1>2
<1>9. Strategy' = s
  BY <1>1 DEF Strategy
<1> QED BY <1>2, <1>3, <1>5, <1>6, <1>7, <1>8, <1>9 DEF SearchInv

\* Nothing that the properties speak of changes but what is left to be tried.
LEMMA SameSearch ==
  ASSUME UNCHANGED cursor
  PROVE  All' = All /\ Runnable' = Runnable /\ Results' = Results /\ Strategy' = Strategy
<1>1. All' = All
  BY DEF All, Strategy
<1>2. Runnable' = Runnable
  BY <1>1 DEF Runnable, Strategy
<1>3. Results' = Results
  BY <1>1 DEF Results
<1> QED BY <1>1, <1>2, <1>3 DEF Strategy

\* An iteration takes one combination off the list.
LEMMA ListShrinks ==
  ASSUME SearchInv, pc = "search", chosen # <<>>
  PROVE  /\ Head(chosen) \in Range(All)
         /\ Tail(chosen) \in Seq(Range(All))
         /\ Range(chosen) \subseteq {Head(chosen)} \cup Range(Tail(chosen))
<1>1. chosen \in Seq(Range(All))
  BY DEF SearchInv, Searching
<1>2. Head(chosen) \in Range(All) /\ Tail(chosen) \in Seq(Range(All))
  BY <1>1
<1>3. ASSUME NEW i \in DOMAIN chosen, i # 1
      PROVE  chosen[i] \in Range(Tail(chosen))
  <2>1. i - 1 \in DOMAIN Tail(chosen) /\ Tail(chosen)[i - 1] = chosen[i]
    BY <1>1, <1>3
  <2> QED BY <2>1 DEF Range
<1>4. Head(chosen) = chosen[1]
  BY <1>1
<1> QED BY <1>2, <1>3, <1>4 DEF Range

\* The new result is the best one exactly if it earned more than all before it.
LEMMA EvaluatedIsBest ==
  ASSUME NEW report \in Reports, SearchInv, pc = "search", chosen # <<>>,
         Evaluated(report), UNCHANGED cursor
  PROVE  /\ iterations' \in Seq(Results)
         /\ \A i \in DOMAIN iterations' : iterations'[i].params \in tried'
         /\ FirstBest'
<1> DEFINE found == [params |-> Head(chosen), report |-> WithoutChart(report)]
<1>1. /\ iterations' = Append(iterations, found)
      /\ best' = IF Better(report) THEN found ELSE best
      /\ tried' = tried \cup {Head(chosen)}
  BY DEF Evaluated
<1>2. found \in Results
  BY ListShrinks DEF Results
<1>3. found.report.totalPnl \in Int /\ found # Nothing
  BY <1>2, ResultsEarn
<1>4. found.params = Head(chosen) /\ found.report.totalPnl = report.totalPnl
  BY SearchAssumption DEF IsReport, WithoutChart
<1> HIDE DEF found
<1>5. /\ iterations \in Seq(Results) /\ FirstBest
      /\ \A i \in DOMAIN iterations : iterations[i].params \in tried
  BY DEF SearchInv, Searching
<1>6. /\ iterations' \in Seq(Results) /\ Len(iterations') = Len(iterations) + 1
      /\ Len(iterations) \in Nat
      /\ iterations'[Len(iterations')] = found
      /\ \A i \in DOMAIN iterations : iterations'[i] = iterations[i]
      /\ DOMAIN iterations = 1..Len(iterations)
      /\ DOMAIN iterations' = 1..Len(iterations')
      /\ iterations' # <<>>
  BY <1>1, <1>2, <1>5
<1>7. \A i \in DOMAIN iterations' : iterations'[i].params \in tried'
  BY <1>1, <1>4, <1>5, <1>6
<1>8. \A i \in DOMAIN iterations : iterations[i].report.totalPnl \in Int
  BY <1>5, ResultsEarn
<1>9. CASE Better(report)
  <2>1. best' = found
    BY <1>1, <1>9
  <2>2. \A j \in DOMAIN iterations : iterations[j].report.totalPnl < found.report.totalPnl
    <3>1. CASE best = Nothing
      BY <1>5, <3>1 DEF FirstBest
    <3>2. CASE best # Nothing
      <4>1. /\ report.totalPnl > best.report.totalPnl
            /\ \E i \in DOMAIN iterations : iterations[i] = best
            /\ \A j \in DOMAIN iterations :
                 iterations[j].report.totalPnl <= best.report.totalPnl
        BY <1>5, <1>9, <3>2 DEF Better, FirstBest
      <4> QED BY <1>3, <1>4, <1>8, <4>1
    <3> QED BY <3>1, <3>2
  <2>3. \A j \in DOMAIN iterations' :
          /\ iterations'[j].report.totalPnl <= found.report.totalPnl
          /\ j < Len(iterations') =>
               iterations'[j].report.totalPnl < found.report.totalPnl
    BY <1>3, <1>6, <1>8, <2>2
  <2>4. Len(iterations') \in DOMAIN iterations' /\ best' # Nothing
    BY <1>3, <1>6, <2>1
  <2>5. iterations'[Len(iterations')] = best'
    BY <1>6, <2>1
  <2>6. FirstBest'
    BY <1>6, <2>1, <2>3, <2>4, <2>5 DEF FirstBest
  <2> QED BY <1>6, <1>7, <2>6
<1>10. CASE ~Better(report)
  <2>1. best' = best /\ best # Nothing /\ ~(report.totalPnl > best.report.totalPnl)
    BY <1>1, <1>10 DEF Better
  <2>2. PICK i \in DOMAIN iterations :
          /\ iterations[i] = best
          /\ \A j \in DOMAIN iterations :
               /\ iterations[j].report.totalPnl <= best.report.totalPnl
               /\ j < i => iterations[j].report.totalPnl < best.report.totalPnl
    BY <1>5, <2>1 DEF FirstBest
  <2>3. found.report.totalPnl <= best.report.totalPnl
    BY <1>3, <1>4, <1>8, <2>1, <2>2
  <2>4. /\ i \in DOMAIN iterations' /\ iterations'[i] = best'
        /\ \A j \in DOMAIN iterations' :
             /\ iterations'[j].report.totalPnl <= best'.report.totalPnl
             /\ j < i => iterations'[j].report.totalPnl < best'.report.totalPnl
    BY <1>6, <2>1, <2>2, <2>3
  <2>5. FirstBest'
    BY <1>6, <2>1, <2>4 DEF FirstBest
  <2> QED BY <1>6, <1>7, <2>5
<1> QED BY <1>9, <1>10

LEMMA IterateStep ==
  ASSUME SearchInv, Iterate PROVE SearchInv'
<1>1. /\ pc = "search" /\ chosen # <<>> /\ chosen' = Tail(chosen)
      /\ UNCHANGED <<cursor, mode, pc>>
  BY DEF Iterate
<1>2. All' = All /\ Runnable' = Runnable /\ Results' = Results /\ Strategy' = Strategy
  BY <1>1, SameSearch
<1>3. chosen' \in Seq(Range(All'))
  BY <1>1, <1>2, ListShrinks
<1>4. /\ tried \subseteq Runnable
      /\ mode = "grid" => Runnable \subseteq tried \cup Range(chosen)
      /\ iterations \in Seq(Results) /\ FirstBest
      /\ \A i \in DOMAIN iterations : iterations[i].params \in tried
      /\ Strategy \in DOMAIN Definitions
  BY <1>1 DEF SearchInv, Searching
<1>5. Head(chosen) \in Range(All) /\ Range(chosen) \subseteq {Head(chosen)} \cup Range(chosen')
  BY <1>1, ListShrinks
<1>6. Head(chosen) \in Runnable =>
        /\ ValidCombination(Head(chosen))
        /\ CompilesWith(Definitions[Strategy], Head(chosen))
  BY DEF Runnable
<1>7. /\ tried' \subseteq Runnable /\ tried \subseteq tried'
      /\ Head(chosen) \in Runnable => Head(chosen) \in tried'
  <2>1. CASE Invalid
    BY <1>4, <1>6, <2>1 DEF Invalid
  <2>2. CASE Skipped
    BY <1>4, <1>5, <1>6, <2>2 DEF Skipped, Runnable
  <2>3. CASE \E report \in Reports : Evaluated(report)
    BY <1>4, <1>5, <2>3 DEF Evaluated, Runnable
  <2> QED BY <2>1, <2>2, <2>3 DEF Iterate
<1>8. mode' = "grid" => Runnable' \subseteq tried' \cup Range(chosen')
  BY <1>1, <1>2, <1>4, <1>5, <1>7
<1>9. /\ iterations' \in Seq(Results)
      /\ \A i \in DOMAIN iterations' : iterations'[i].params \in tried'
      /\ FirstBest'
  <2>1. CASE Invalid \/ Skipped
    <3>1. UNCHANGED <<iterations, best>>
      BY <2>1 DEF Invalid, Skipped
    <3> QED BY <1>4, <1>7, <3>1 DEF FirstBest
  <2>2. CASE \E report \in Reports : Evaluated(report)
    BY <1>1, <2>2, EvaluatedIsBest
  <2> QED BY <2>1, <2>2 DEF Iterate
<1> QED BY <1>2, <1>3, <1>4, <1>7, <1>8, <1>9 DEF SearchInv

\* A step that leaves the search alone, or is not part of one.
LEMMA OtherStep ==
  ASSUME SearchInv,
         \/ pc' \notin Searching
         \/ /\ pc' \in Searching => pc \in Searching
            /\ UNCHANGED <<cursor, mode, chosen, tried, iterations, best>>
  PROVE  SearchInv'
<1>1. CASE pc' \notin Searching
  BY <1>1 DEF SearchInv
<1>2. CASE /\ pc' \in Searching => pc \in Searching
           /\ UNCHANGED <<cursor, mode, chosen, tried, iterations, best>>
  <2>1. All' = All /\ Runnable' = Runnable /\ Results' = Results /\ Strategy' = Strategy
    BY <1>2, SameSearch
  <2>2. FirstBest => FirstBest'
    BY <1>2 DEF FirstBest
  <2> QED BY <1>2, <2>1, <2>2 DEF SearchInv
<1> QED BY <1>1, <1>2

LEMMA NextKeeps == SearchInv /\ [SearchNext]_searchVars => SearchInv'
<1> SUFFICES ASSUME SearchInv, [SearchNext]_searchVars PROVE SearchInv'
  OBVIOUS
<1>1. CASE TakeUp
  BY <1>1, TakeUpStep
<1>2. CASE Leave
  BY <1>2, OtherStep DEF Leave, Searching
<1>3. CASE Iterate
  BY <1>3, IterateStep
<1>4. CASE EndSearch
  BY <1>4, OtherStep DEF EndSearch, Searching
<1>5. CASE Decide
  BY <1>5, OtherStep DEF Decide, Concluded, Searching
<1>6. CASE Complete \/ Single \/ StrategyFails \/ BreakOff
  BY <1>6, OtherStep DEF Complete, Single, StrategyFails, BreakOff, Concluded, Searching
<1>7. CASE Rank
  BY <1>7, OtherStep DEF Rank, Searching
<1>8. ASSUME NEW s, NEW id, NEW at, Validate(s, id, at) PROVE SearchInv'
  BY <1>8, OtherStep DEF Validate, Searching
<1>9. ASSUME NEW s, NEW report, Tick(s, report) PROVE SearchInv'
  BY <1>9, OtherStep DEF Tick, Searching
<1>10. CASE RefreshRanking
  BY <1>10, OtherStep DEF RefreshRanking, Searching
<1>11. CASE StopRequest
  BY <1>11, OtherStep DEF StopRequest
<1>12. CASE UNCHANGED searchVars
  BY <1>12, OtherStep DEF searchVars
<1> QED
  BY <1>1, <1>2, <1>3, <1>4, <1>5, <1>6, <1>7, <1>8, <1>9, <1>10, <1>11, <1>12
     DEF SearchNext

-----------------------------------------------------------------------------

LEMMA SearchInvariant == SearchSpec => []SearchInv
<1>1. SearchInit => SearchInv
  BY DEF SearchInit, SearchInv, Searching
<1> QED BY <1>1, NextKeeps, PTL DEF SearchSpec

\* BestIsFound: whatever the combinations come to, and in whatever order they are
\* tried, the search keeps the first of those that earned the most.
THEOREM BestIsFound == SearchSpec => []SearchFindsBest
<1>1. SearchInv => SearchFindsBest
  BY DEF SearchInv, SearchFindsBest, FirstBest, Runnable, Searching
<1> QED BY <1>1, SearchInvariant, PTL

\* GridsAreExhausted: no combination of a grid is left out because of an earlier one
\* that was invalid, raised or did not trade.
THEOREM GridsAreExhausted == SearchSpec => []GridIsExhaustive
<1>1. SearchInv => GridIsExhaustive
  <2> SUFFICES ASSUME SearchInv, pc = "decide", chosen = <<>>, mode = "grid"
               PROVE  tried = Runnable
    BY DEF GridIsExhaustive, Runnable, All
  <2>1. Range(chosen) = {}
    BY DEF Range
  <2> QED BY <2>1 DEF SearchInv, Searching
<1> QED BY <1>1, SearchInvariant, PTL

(***************************************************************************)
(* The order of keys, and what Best lists.                                 *)
(***************************************************************************)
Keys(m) == {key \in Seq(Int) : Len(key) = m}

\* Keys are compared by the first place at which they differ.
LEMMA PrecedesOrders ==
  ASSUME NEW m \in Nat
  PROVE  /\ \A a \in Keys(m) : ~Precedes(a, a)
         /\ \A a, b, c \in Keys(m) : Precedes(a, b) /\ Precedes(b, c) => Precedes(a, c)
         /\ \A a, b \in Keys(m) : a = b \/ Precedes(a, b) \/ Precedes(b, a)
<1>1. \A a \in Keys(m) : DOMAIN a = 1..m /\ \A i \in 1..m : a[i] \in Int
  BY DEF Keys
<1>2. ASSUME NEW a \in Keys(m) PROVE ~Precedes(a, a)
  <2>1. \A i \in DOMAIN a : ~(a[i] > a[i])
    BY <1>1
  <2> QED BY <2>1 DEF Precedes
<1>3. ASSUME NEW a \in Keys(m), NEW b \in Keys(m), NEW c \in Keys(m),
             Precedes(a, b), Precedes(b, c)
      PROVE  Precedes(a, c)
  <2>1. PICK i \in 1..m : a[i] > b[i] /\ \A k \in 1..(i - 1) : a[k] = b[k]
    BY <1>1, <1>3 DEF Precedes
  <2>2. PICK j \in 1..m : b[j] > c[j] /\ \A k \in 1..(j - 1) : b[k] = c[k]
    BY <1>1, <1>3 DEF Precedes
  <2> DEFINE l == IF i <= j THEN i ELSE j
  <2>3. l \in 1..m /\ l <= i /\ l <= j /\ (l = i \/ l = j)
    OBVIOUS
  <2>4. /\ l = i => a[l] > b[l]
        /\ l < i => a[l] = b[l]
        /\ l = j => b[l] > c[l]
        /\ l < j => b[l] = c[l]
    <3> HIDE DEF l
    <3>1. (l < i => l \in 1..(i - 1)) /\ (l < j => l \in 1..(j - 1))
      BY <2>3
    <3> QED BY <2>1, <2>2, <3>1
  <2> HIDE DEF l
  <2>5. a[l] \in Int /\ b[l] \in Int /\ c[l] \in Int
    BY <1>1, <2>3
  <2>6. a[l] > c[l]
    <3>1. (l = i \/ l < i) /\ (l = j \/ l < j)
      BY <2>3
    <3> QED BY <2>3, <2>4, <2>5, <3>1
  <2>7. ASSUME NEW k \in 1..(l - 1) PROVE a[k] = c[k]
    <3>1. k \in 1..(i - 1) /\ k \in 1..(j - 1)
      BY <2>3
    <3> QED BY <2>1, <2>2, <3>1
  <2> QED BY <1>1, <2>3, <2>6, <2>7 DEF Precedes
<1>4. ASSUME NEW a \in Keys(m), NEW b \in Keys(m), a # b
      PROVE  Precedes(a, b) \/ Precedes(b, a)
  <2> DEFINE D == {i \in 1..m : a[i] # b[i]}
             l == Min(D)
  <2>1. D # {}
    <3>1. a \in Seq(Int) /\ b \in Seq(Int) /\ Len(a) = m /\ Len(b) = m
      BY DEF Keys
    <3> QED BY <1>4, <3>1, SeqEqual
  <2>2. IsFiniteSet(D) /\ D \in SUBSET Int
    <3>1. IsFiniteSet(1..m)
      BY FS_Interval
    <3> QED BY <3>1, FS_Subset
  <2>3. l \in D /\ \A x \in D : l <= x
    <3> HIDE DEF D
    <3> QED BY <2>1, <2>2, MaxMin
  <2> HIDE DEF l
  <2>4. l \in 1..m /\ a[l] # b[l]
    BY <2>3
  <2>5. \A k \in 1..(l - 1) : a[k] = b[k]
    <3> SUFFICES ASSUME NEW k \in 1..(l - 1) PROVE a[k] = b[k]
      OBVIOUS
    <3>1. k \in 1..m /\ ~(l <= k)
      BY <2>4
    <3> QED BY <2>3, <3>1
  <2>6. a[l] \in Int /\ b[l] \in Int
    BY <1>1, <2>4
  <2>7. a[l] > b[l] \/ b[l] > a[l]
    BY <2>4, <2>6
  <2>8. CASE a[l] > b[l]
    BY <1>1, <2>4, <2>5, <2>8 DEF Precedes
  <2>9. CASE b[l] > a[l]
    <3>1. \A k \in 1..(l - 1) : b[k] = a[k]
      BY <2>5
    <3> QED BY <1>1, <2>4, <2>9, <3>1 DEF Precedes
  <2> QED BY <2>7, <2>8, <2>9
<1> QED BY <1>2, <1>3, <1>4

\* What Best lists: the first n of the items, rearranged so that no key is preceded by
\* one that comes later.
IsBest(listed, items, keys, n) ==
  LET all == Len(items)
  IN  /\ Len(listed) = IF n <= all THEN n ELSE all
      /\ \E at \in [1..all -> 1..all] :
           /\ \A k \in 1..Len(listed) : listed[k] = items[at[k]]
           /\ \A i \in 1..all : \E k \in 1..all : at[k] = i
           /\ \A i, j \in 1..all : at[i] = at[j] => i = j
           /\ \A i, j \in 1..all : i < j => ~Precedes(keys[at[j]], keys[at[i]])

LEMMA BestProperties ==
  ASSUME NEW T, NEW items \in Seq(T), NEW m \in Nat, NEW keys \in Seq(Keys(m)),
         Len(keys) = Len(items), NEW n \in Nat
  PROVE  Best(items, keys, n) \in Seq(T) /\ IsBest(Best(items, keys, n), items, keys, n)
<1> DEFINE all == Len(items)
           before(i, j) == Precedes(keys[i], keys[j]) \/ (keys[i] = keys[j] /\ i < j)
           order == {p \in (DOMAIN items) \X (DOMAIN items) : before(p[1], p[2])}
           s == Sorted(items, order)
           most == IF n <= all THEN n ELSE all
           listed == SubSeq(s, 1, most)
<1>1. all \in Nat /\ DOMAIN items = 1..all /\ \A i \in 1..all : keys[i] \in Keys(m)
  OBVIOUS
<1>2. Best(items, keys, n) = listed
  <2>1. Computed(keys) = keys
    BY ComputedProperties
  <2>2. Min({n, Len(items)}) = most
    <3> HIDE DEF all, most
    <3>1. n \in Int /\ all \in Int
      BY <1>1
    <3>2. Min({n, all}) = IF n <= all THEN n ELSE all
      BY <3>1, PairMaxMin
    <3> QED BY <3>2 DEF all, most
  <2> HIDE DEF most
  <2> QED BY <2>1, <2>2 DEF Best
<1> HIDE DEF all
<1>3. \A i, j \in 1..all : <<i, j>> \in order <=> before(i, j)
  BY <1>1
<1>4. Orders(order, DOMAIN items)
  <2> HIDE DEF order
  <2>1. ASSUME NEW i \in 1..all PROVE <<i, i>> \notin order
    <3>1. ~Precedes(keys[i], keys[i])
      BY <1>1, PrecedesOrders
    <3> QED BY <1>1, <1>3, <3>1
  <2>2. ASSUME NEW i \in 1..all, NEW j \in 1..all, NEW k \in 1..all,
               <<i, j>> \in order, <<j, k>> \in order
        PROVE  <<i, k>> \in order
    <3>1. keys[i] \in Keys(m) /\ keys[j] \in Keys(m) /\ keys[k] \in Keys(m)
      BY <1>1
    <3>2. before(i, j) /\ before(j, k)
      BY <1>3, <2>2
    <3>3. Precedes(keys[i], keys[j]) /\ Precedes(keys[j], keys[k]) => Precedes(keys[i], keys[k])
      BY <3>1, PrecedesOrders
    <3>4. i < j /\ j < k => i < k
      BY <1>1
    <3>5. before(i, k)
      BY <3>2, <3>3, <3>4
    <3> QED BY <1>3, <3>5
  <2>3. ASSUME NEW i \in 1..all, NEW j \in 1..all
        PROVE  i = j \/ <<i, j>> \in order \/ <<j, i>> \in order
    <3>1. keys[i] = keys[j] \/ Precedes(keys[i], keys[j]) \/ Precedes(keys[j], keys[i])
      BY <1>1, PrecedesOrders
    <3>2. i = j \/ i < j \/ j < i
      BY <1>1
    <3> QED BY <1>3, <3>1, <3>2
  <2> QED BY <1>1, <2>1, <2>2, <2>3 DEF Orders
<1> HIDE DEF order
<1>5. s \in Seq(T) /\ Len(s) = all
  BY <1>4, SortedProperties DEF all
<1>6. \E at \in [1..all -> 1..all] :
        /\ \A i \in 1..all : s[i] = items[at[i]]
        /\ \A i \in 1..all : \E j \in 1..all : at[j] = i
        /\ \A i, j \in 1..all : i < j <=> <<at[i], at[j]>> \in order
  <2>1. \E at \in [DOMAIN items -> DOMAIN items] :
          /\ \A i \in DOMAIN items : s[i] = items[at[i]]
          /\ \A i \in DOMAIN items : \E j \in DOMAIN items : at[j] = i
          /\ \A i, j \in DOMAIN items : i < j <=> <<at[i], at[j]>> \in order
    BY <1>4, SortedProperties
  <2> HIDE DEF s
  <2> QED BY <1>1, <2>1
<1> HIDE DEF s
<1>6a. PICK at \in [1..all -> 1..all] :
        /\ \A i \in 1..all : s[i] = items[at[i]]
        /\ \A i \in 1..all : \E j \in 1..all : at[j] = i
        /\ \A i, j \in 1..all : i < j <=> <<at[i], at[j]>> \in order
  BY <1>6
<1>7. most \in Nat /\ most <= all
  BY <1>1
<1>8. listed \in Seq(T) /\ Len(listed) = most /\ \A k \in 1..most : listed[k] = s[k]
  <2> HIDE DEF most
  <2>1. \A k \in 1..most : k \in 1..all
    BY <1>1, <1>7
  <2>2. SubSeq(s, 1, most) \in Seq(T)
    BY <1>5, <1>7, <2>1
  <2>3. Len(SubSeq(s, 1, most)) = most /\ \A k \in 1..most : SubSeq(s, 1, most)[k] = s[k]
    BY <1>5, <1>7, <2>1
  <2> QED BY <2>2, <2>3
<1> HIDE DEF listed
<1>9. \A k \in 1..Len(listed) : listed[k] = items[at[k]]
  <2>1. \A k \in 1..most : k \in 1..all
    BY <1>1, <1>7
  <2> QED BY <1>6a, <1>8, <2>1
<1>10. ASSUME NEW i \in 1..all, NEW j \in 1..all, at[i] = at[j] PROVE i = j
  <2>1. at[i] \in 1..all /\ <<at[i], at[i]>> \notin order
    BY <1>1, <1>4, <1>6 DEF Orders
  <2>2. ~(i < j) /\ ~(j < i)
    BY <1>6a, <1>10, <2>1
  <2> QED BY <1>1, <2>2
<1>11. ASSUME NEW i \in 1..all, NEW j \in 1..all, i < j
       PROVE  ~Precedes(keys[at[j]], keys[at[i]])
  <2>1. at[i] \in 1..all /\ at[j] \in 1..all /\ <<at[i], at[j]>> \in order
    BY <1>6a, <1>11
  <2>2. SUFFICES ASSUME Precedes(keys[at[j]], keys[at[i]]) PROVE FALSE
    OBVIOUS
  <2>3. <<at[j], at[i]>> \in order
    BY <1>3, <2>1, <2>2
  <2>4. <<at[i], at[i]>> \in order
    BY <1>1, <1>4, <2>1, <2>3 DEF Orders
  <2> QED BY <1>1, <1>4, <2>1, <2>4 DEF Orders
<1>12. IsBest(listed, items, keys, n)
  BY <1>6a, <1>8, <1>9, <1>10, <1>11 DEF IsBest, all, most
<1> QED BY <1>2, <1>8, <1>12

\* The keys of reports are made of numbers.
LEMMA PartIsInt ==
  ASSUME NEW ratio \in Ratio
  PROVE  Part(ratio) \in Int
<1>1. ratio[1] \in Int /\ ratio[2] \in Nat \ {0}
  BY DEF Ratio
<1>2. ratio[1] * 1000 \in Int
  BY <1>1
<1>3. \A x \in Int, d \in Nat \ {0} : x \div d \in Int
  OBVIOUS
<1> QED BY <1>1, <1>2, <1>3 DEF Part

LEMMA IterationKeys ==
  ASSUME NEW r, IsReport(r)
  PROVE  IterationKey(r) \in Keys(4) /\ IterationKey(r)[1] = r.totalPnl
<1>1. /\ r.totalPnl \in Int /\ r.sharpe \in Int
      /\ Part(r.maxDrawdown) \in Int /\ Part(r.winRate) \in Int
  BY PartIsInt DEF IsReport
<1> QED BY <1>1 DEF IterationKey, Keys

LEMMA FlagsAreFew ==
  ASSUME NEW r
  PROVE  Cardinality(Flags(r)) \in Nat
<1> DEFINE S == {"profit_factor_below_1", "below_deposit_baseline",
                 "underperforms_buy_hold", "low_consistency"}
<1>1. Flags(r) \subseteq S
  BY DEF Flags
<1> DEFINE one == {"profit_factor_below_1"}
           two == one \union {"below_deposit_baseline"}
           three == two \union {"underperforms_buy_hold"}
<1>2. S = three \union {"low_consistency"}
  OBVIOUS
<1> HIDE DEF S
<1>3. IsFiniteSet(S)
  <2>1. IsFiniteSet(one)
    BY FS_Singleton
  <2> HIDE DEF one
  <2>2. IsFiniteSet(two)
    BY <2>1, FS_AddElement
  <2> HIDE DEF two
  <2>3. IsFiniteSet(three)
    BY <2>2, FS_AddElement
  <2> HIDE DEF three
  <2> QED BY <1>2, <2>3, FS_AddElement
<1> QED BY <1>1, <1>3, FS_Subset, FS_CardinalityType

LEMMA RankingKeys ==
  ASSUME NEW r, IsReport(r)
  PROVE  /\ RankingKey(r) \in Keys(8)
         /\ Grade(r) \in {"PASS", "CAUTION", "FAIL"}
         /\ RankingKey(r)[1] = GradeOrder(Grade(r))
<1>1. Grade(r) \in {"PASS", "CAUTION", "FAIL"}
  BY DEF Grade
<1>2. GradeOrder(Grade(r)) \in Int
  BY <1>1 DEF GradeOrder
<1>3. -Cardinality(Flags(r)) \in Int
  BY FlagsAreFew
<1>4. /\ r.sharpe \in Int /\ Part(r.profitFactor) \in Int /\ Part(r.vsBuyHold) \in Int
      /\ Part(r.consistency) \in Int /\ Part(r.totalReturn) \in Int
      /\ Part(r.maxDrawdown) \in Int
  BY PartIsInt DEF IsReport
<1>5. -Part(r.maxDrawdown) \in Int
  BY <1>4
<1> DEFINE g == GradeOrder(Grade(r))
           f == -Cardinality(Flags(r))
           d == -Part(r.maxDrawdown)
           key == << g, f, Part(r.profitFactor), Part(r.vsBuyHold), Part(r.consistency),
                     Part(r.totalReturn), d, r.sharpe >>
<1>6. RankingKey(r) = key
  BY DEF RankingKey
<1> HIDE DEF g, f, d
<1>7. key \in Keys(8) /\ key[1] = g
  BY <1>2, <1>3, <1>4, <1>5 DEF Keys, g, f, d
<1> HIDE DEF key
<1> QED BY <1>1, <1>6, <1>7 DEF g

\* The result of an iteration has a report that can be ranked.
LEMMA ResultsAreReports ==
  ASSUME NEW result \in Results
  PROVE  /\ IsReport(result.report) /\ result.report # NoReport
         /\ \E report \in Reports : result.report = WithoutChart(report)
<1>1. PICK params \in Range(All), report \in Reports :
        result = [params |-> params, report |-> WithoutChart(report)]
  BY DEF Results
<1> DEFINE short == WithoutChart(report)
<1>2. IsReport(report)
  BY SearchAssumption
<1>3. DOMAIN short = DOMAIN report
  BY DEF WithoutChart
<1>4. <<0, 1>> \in Ratio
  BY DEF Ratio
<1>5. /\ short.vsBuyHold = <<0, 1>> /\ short.consistency = <<0, 1>>
      /\ short.totalPnl = report.totalPnl /\ short.deposit = report.deposit
      /\ short.sharpe = report.sharpe /\ short.profitFactor = report.profitFactor
      /\ short.totalReturn = report.totalReturn /\ short.maxDrawdown = report.maxDrawdown
      /\ short.winRate = report.winRate
  BY <1>2 DEF WithoutChart, IsReport
<1> HIDE DEF short
<1>6. IsReport(short)
  BY <1>2, <1>3, <1>4, <1>5 DEF IsReport
<1>7. "totalPnl" \in DOMAIN short /\ "totalPnl" \notin DOMAIN NoReport
  BY <1>6 DEF IsReport, NoReport
<1>8. short # NoReport
  BY <1>7
<1> QED BY <1>1, <1>6, <1>8 DEF short

\* The table of a search begins with a combination that earned the most, and a short
\* one has them all.
LEMMA SummaryIsBest ==
  ASSUME iterations \in Seq(Results), FirstBest, best # Nothing
  PROVE  /\ Summary # <<>>
         /\ Summary[1].report.totalPnl = best.report.totalPnl
         /\ Len(Summary) < 5 => \E k \in DOMAIN Summary : Summary[k] = best
<1> DEFINE n == Len(iterations)
           shown == Kept(iterations, {x \in Range(iterations) : x.report # NoReport})
           keys == [k \in DOMAIN iterations |-> IterationKey(iterations[k].report)]
<1>1. /\ n \in Nat /\ DOMAIN iterations = 1..n
      /\ \A i \in 1..n : iterations[i] \in Results /\ iterations[i] \in Range(iterations)
  BY DEF Range
<1>2. \A i \in 1..n : IsReport(iterations[i].report) /\ iterations[i].report # NoReport
  BY <1>1, ResultsAreReports
<1>3. shown = iterations
  <2>1. \A i \in 1..Len(iterations) :
          iterations[i] \in {x \in Range(iterations) : x.report # NoReport}
    BY <1>1, <1>2
  <2> QED BY <2>1, KeptOfAll
<1>4. Summary = Best(iterations, keys, 5)
  BY <1>3 DEF Summary, RankedIterations
<1> HIDE DEF shown
<1>5. \A i \in 1..n : keys[i] \in Keys(4) /\ keys[i][1] = iterations[i].report.totalPnl
  BY <1>1, <1>2, IterationKeys
<1>6. keys \in Seq(Keys(4)) /\ Len(keys) = n
  <2>1. keys \in [1..n -> Keys(4)]
    BY <1>1, <1>5
  <2> HIDE DEF keys
  <2> QED BY <1>1, <2>1
<1> HIDE DEF keys
<1>7. Summary \in Seq(Results) /\ IsBest(Summary, iterations, keys, 5)
  BY <1>4, <1>6, BestProperties
<1>8. /\ Len(Summary) = IF 5 <= n THEN 5 ELSE n
      /\ \E at \in [1..n -> 1..n] :
           /\ \A k \in 1..Len(Summary) : Summary[k] = iterations[at[k]]
           /\ \A i \in 1..n : \E k \in 1..n : at[k] = i
           /\ \A i, j \in 1..n : i < j => ~Precedes(keys[at[j]], keys[at[i]])
  BY <1>7 DEF IsBest
<1>9. PICK at \in [1..n -> 1..n] :
        /\ \A k \in 1..Len(Summary) : Summary[k] = iterations[at[k]]
        /\ \A i \in 1..n : \E k \in 1..n : at[k] = i
        /\ \A i, j \in 1..n : i < j => ~Precedes(keys[at[j]], keys[at[i]])
  BY <1>8
<1>10. PICK first \in 1..n :
         /\ iterations[first] = best
         /\ \A j \in 1..n : iterations[j].report.totalPnl <= best.report.totalPnl
  BY <1>1 DEF FirstBest
<1>11. n > 0 /\ Len(Summary) \in 1..n /\ 1 \in 1..Len(Summary)
  BY <1>1, <1>8, <1>10
<1>12. Summary # <<>> /\ DOMAIN Summary = 1..Len(Summary)
  BY <1>7, <1>11
<1>13. PICK place \in 1..n : at[place] = first
  BY <1>9
<1>14. Summary[1].report.totalPnl = best.report.totalPnl
  <2>1. Summary[1] = iterations[at[1]] /\ at[1] \in 1..n /\ 1 \in 1..n
    <3>1. 1 \in 1..n
      BY <1>1, <1>11
    <3> QED BY <1>9, <1>11, <3>1
  <2>2. CASE place = 1
    BY <1>10, <1>13, <2>1, <2>2
  <2>3. CASE place # 1
    <3>1. 1 < place
      BY <1>1, <2>3
    <3>2. ~Precedes(keys[first], keys[at[1]])
      BY <1>9, <1>13, <2>1, <3>1
    <3>3. /\ keys[first][1] = best.report.totalPnl
          /\ keys[at[1]][1] = iterations[at[1]].report.totalPnl
          /\ keys[first] \in Keys(4) /\ keys[at[1]] \in Keys(4)
      BY <1>5, <1>10, <2>1
    <3>4. /\ 1 \in DOMAIN keys[first] /\ 1..(1 - 1) = {}
          /\ keys[first][1] \in Int /\ keys[at[1]][1] \in Int
      BY <3>3 DEF Keys
    <3>5. ~(keys[first][1] > keys[at[1]][1])
      BY <3>2, <3>4 DEF Precedes
    <3>6. iterations[at[1]].report.totalPnl <= best.report.totalPnl
      BY <1>10, <2>1
    <3> QED BY <2>1, <3>3, <3>4, <3>5, <3>6
  <2> QED BY <2>2, <2>3
<1>15. ASSUME Len(Summary) < 5 PROVE \E k \in DOMAIN Summary : Summary[k] = best
  <2>1. Len(Summary) = n
    BY <1>1, <1>8, <1>15
  <2>2. Summary[place] = iterations[first]
    BY <1>9, <1>13, <2>1
  <2> QED BY <1>10, <1>12, <2>1, <2>2
<1> QED BY <1>12, <1>14, <1>15

LEMMA WholeShare ==
  ASSUME NEW d \in Nat \ {0}
  PROVE  (100 * d) \div d = 100 /\ (100 * d) % d = 0
<1> DEFINE x == 100 * d
           c == x \div d
           e == x % d
<1>1. x \in Nat
  OBVIOUS
<1>2. c \in Nat /\ c * d <= x /\ x < c * d + d
  BY <1>1
<1>3. e \in Nat /\ e < d /\ x = c * d + e
  BY <1>1
<1> HIDE DEF c, e
<1>4. ~(c >= 101)
  <2> SUFFICES ASSUME c >= 101 PROVE FALSE
    OBVIOUS
  <2>1. c * d >= 101 * d
    BY <1>2
  <2> QED BY <1>2, <2>1
<1>5. ~(c <= 99)
  <2> SUFFICES ASSUME c <= 99 PROVE FALSE
    OBVIOUS
  <2>1. c * d <= 99 * d
    BY <1>2
  <2> QED BY <1>2, <2>1
<1>6. c = 100
  BY <1>2, <1>4, <1>5
<1>7. e = 0
  BY <1>3, <1>6
<1> QED BY <1>6, <1>7 DEF c, e

\* The progress at the end of the last strategy.
LEMMA ProgressEnds ==
  ASSUME NEW n \in Nat \ {0}
  PROVE  Percent(2 * n, 2 * n, FALSE) = 100
<1> DEFINE d == 2 * n
<1>1. d \in Nat \ {0}
  OBVIOUS
<1>2. Percent(d, d, FALSE) = Max({0, Min({100, Rounded(100 * d, d)})})
  BY DEF Percent
<1> HIDE DEF d
<1>3. (100 * d) \div d = 100 /\ (100 * d) % d = 0
  BY <1>1, WholeShare
<1>4. Rounded(100 * d, d) = 100
  BY <1>1, <1>3 DEF Rounded
<1>5. Min({100, 100}) = 100 /\ Max({0, 100}) = 100
  BY PairMaxMin
<1> QED BY <1>2, <1>4, <1>5 DEF d

(***************************************************************************)
(* The entries of the dashboard.  A strategy that has not been taken up, or *)
(* is being run, has no result and, until its parameters are written, those *)
(* it is configured with; one that has been left is not running any more.   *)
(* Where a run was broken off the entries stay what they were.              *)
(***************************************************************************)
Busy == {"search", "decide", "complete", "single"}
Left(k) == k < cursor \/ (k = cursor /\ pc \notin Busy)

IsEntry(e) ==
  /\ DOMAIN e = {"status", "params", "report", "top"}
  /\ e.status \in {"running", "idle", "error", "completed", "live"}
  /\ Done(e) => e.report \in Reports
  /\ ~Done(e) => e.report = NoReport

\* ConfigFollowsResult, of a strategy that is not pending: its entry e and its
\* parameters, saved and configured.
Fits(e, saved, configured) ==
  /\ saved # configured => (Done(e) /\ e.top # <<>>) \/ e.status = "error"
  /\ e.status = "completed" /\ e.top # <<>> =>
       /\ e.top[1].report.totalPnl = e.report.totalPnl
       /\ Len(e.top) < 5 =>
            \E k \in DOMAIN e.top : /\ Over(e.top[k].params, configured) = saved
                                    /\ e.top[k].report = WithoutChart(e.report)

\* Its parameters are written and it has no result yet, or never will.
IsPending(s) ==
  /\ entry[s].status = "running" /\ cursor > 0 /\ s = Strategy
  /\ pc \in {"complete", "broken"}

EntriesInv ==
  /\ cursor \in 0..Len(Strategies)
  /\ pc \in Busy \cup {"next", "rank", "over", "ticked", "broken"}
  /\ pc \in Busy => cursor > 0
  /\ DOMAIN entry = Range(Strategies) /\ DOMAIN config = Range(Strategies)
  /\ \A s \in Range(Strategies) :
       /\ IsEntry(entry[s])
       /\ Fits(entry[s], config[s], Configured[s]) \/ IsPending(s)
       /\ config[s] = Configured[s] \/ FoundFor(s, config[s])
  /\ pc # "broken" =>
       \A k \in 1..Len(Strategies) :
         IF Left(k) THEN entry[Strategies[k]].status # "running"
         ELSE /\ ~Done(entry[Strategies[k]])
              /\ \/ config[Strategies[k]] = Configured[Strategies[k]]
                 \/ k = cursor /\ pc = "complete"
  /\ pc \in {"rank", "over", "ticked"} =>
       \A s \in Range(Strategies) : entry[s].status # "running"
  /\ cursor = Len(Strategies) /\ pc \notin Busy \cup {"broken"} => progress = 100

\* The strategy that is being run: its search ends with nothing left or with a stop,
\* and its result is made only after the best parameters have been written.
CurrentInv ==
  pc \in Busy =>
    /\ entry[Strategy].status = "running"
    /\ pc = "decide" => stop \/ chosen = <<>>
    /\ pc = "complete" =>
         /\ chosen = <<>> /\ best # Nothing
         /\ config[Strategy] = Over(best.params, Configured[Strategy])

LEMMA StrategiesListed ==
  /\ Len(Strategies) \in Nat \ {0}
  /\ DOMAIN Strategies = 1..Len(Strategies)
  /\ \A k \in 1..Len(Strategies) : Strategies[k] \in Range(Strategies)
  /\ \A s \in Range(Strategies) : \E k \in 1..Len(Strategies) : Strategies[k] = s
  /\ \A i, j \in 1..Len(Strategies) : Strategies[i] = Strategies[j] => i = j
<1>1. Strategies \in Seq(Range(Strategies)) /\ Strategies # <<>> /\ IsInjective(Strategies)
  BY SearchAssumption
<1>2. Len(Strategies) \in Nat \ {0} /\ DOMAIN Strategies = 1..Len(Strategies)
  BY <1>1
<1> QED BY <1>1, <1>2 DEF Range, IsInjective

\* A strategy is left with the entry e.
LEMMA ConcludedStep ==
  ASSUME EntriesInv, pc \in Busy, NEW e, Concluded(e), UNCHANGED <<cursor, config>>,
         IsEntry(e), e.status # "running",
         Fits(e, config[Strategy], Configured[Strategy])
  PROVE  EntriesInv'
<1> DEFINE n == Len(Strategies)
           All1 == Range(Strategies)
<1>1. /\ cursor \in 1..n /\ cursor' = cursor /\ pc' = "next" /\ n \in Nat \ {0}
      /\ Strategy \in All1 /\ config' = config /\ pc # "broken"
  <2>1. cursor \in 0..n /\ cursor > 0
    BY DEF EntriesInv
  <2> QED BY <2>1, StrategiesListed DEF Concluded, Strategy, Busy
<1>2. /\ DOMAIN entry = All1 /\ entry' = [entry EXCEPT ![Strategy] = e]
      /\ progress' = Percent(2 * cursor, 2 * n, FALSE)
  BY DEF EntriesInv, Concluded
<1>3. /\ DOMAIN entry' = All1 /\ entry'[Strategy] = e
      /\ \A s \in All1 : s # Strategy => entry'[s] = entry[s]
  BY <1>1, <1>2
<1>4. \A s \in All1 : IsEntry(entry'[s]) /\ Fits(entry'[s], config[s], Configured[s])
  <2> SUFFICES ASSUME NEW s \in All1
               PROVE  IsEntry(entry'[s]) /\ Fits(entry'[s], config[s], Configured[s])
    OBVIOUS
  <2>1. CASE s = Strategy
    BY <1>3, <2>1
  <2>2. CASE s # Strategy
    <3>1. entry'[s] = entry[s] /\ ~IsPending(s)
      BY <1>3, <2>2 DEF IsPending
    <3>2. IsEntry(entry[s]) /\ Fits(entry[s], config[s], Configured[s])
      BY <3>1 DEF EntriesInv
    <3> QED BY <3>1, <3>2
  <2> QED BY <2>1, <2>2
<1>5. ASSUME NEW k \in 1..n
      PROVE  IF k <= cursor THEN entry'[Strategies[k]].status # "running"
             ELSE /\ ~Done(entry'[Strategies[k]])
                  /\ config[Strategies[k]] = Configured[Strategies[k]]
  <2>1. CASE k = cursor
    BY <1>1, <1>3, <2>1 DEF Strategy
  <2>2. CASE k # cursor
    <3>1. Strategies[k] # Strategy /\ Strategies[k] \in All1
      BY <1>1, <2>2, StrategiesListed DEF Strategy
    <3>2. entry'[Strategies[k]] = entry[Strategies[k]]
      BY <1>3, <3>1
    <3>3. IF Left(k) THEN entry[Strategies[k]].status # "running"
          ELSE /\ ~Done(entry[Strategies[k]])
               /\ config[Strategies[k]] = Configured[Strategies[k]]
      BY <1>1, <2>2 DEF EntriesInv
    <3>4. Left(k) <=> k <= cursor
      BY <1>1, <2>2 DEF Left
    <3> QED BY <3>2, <3>3, <3>4
  <2> QED BY <2>1, <2>2
<1>6. \A k \in 1..n : Left(k)' <=> k <= cursor
  BY <1>1 DEF Left, Busy
<1>7. ASSUME cursor = n PROVE progress' = 100
  <2>1. progress' = Percent(2 * n, 2 * n, FALSE)
    BY <1>2, <1>7
  <2> HIDE DEF n
  <2> QED BY <1>1, <2>1, ProgressEnds
<1>8. \A s \in All1 : config[s] = Configured[s] \/ FoundFor(s, config[s])
  BY DEF EntriesInv
<1>9. DOMAIN config = All1
  BY DEF EntriesInv
<1> QED BY <1>1, <1>3, <1>4, <1>5, <1>6, <1>7, <1>8, <1>9 DEF EntriesInv, Busy

\* Nothing that the entries depend on changes.
LEMMA EntriesStay ==
  ASSUME EntriesInv, UNCHANGED <<cursor, entry, config, progress>>,
         \/ pc' = pc
         \/ pc \in Busy \ {"complete"} /\ pc' \in Busy \ {"complete"}
         \/ pc \in {"rank", "over", "ticked"} /\ pc' \in {"rank", "over", "ticked"}
  PROVE  EntriesInv'
<1>1. \A k : Left(k)' <=> Left(k)
  BY DEF Left, Busy
<1>2. /\ pc' \in Busy \cup {"next", "rank", "over", "ticked", "broken"}
      /\ pc' \in Busy <=> pc \in Busy
      /\ pc' = "broken" <=> pc = "broken"
      /\ pc' = "complete" <=> pc = "complete"
      /\ pc' \in {"rank", "over", "ticked"} <=> pc \in {"rank", "over", "ticked"}
  BY DEF EntriesInv, Busy
<1>3. \A s : IsPending(s)' <=> IsPending(s)
  BY <1>2 DEF IsPending, Strategy
<1> QED BY <1>1, <1>2, <1>3 DEF EntriesInv

\* The files stay what they are when the run is broken off.
LEMMA BreakOffEntries ==
  ASSUME EntriesInv, BreakOff
  PROVE  EntriesInv'
<1>1. /\ UNCHANGED <<cursor, entry, config, progress>> /\ pc' = "broken" /\ pc # "broken"
  BY DEF BreakOff
<1>2. \A s : IsPending(s) => IsPending(s)'
  BY <1>1 DEF IsPending, Strategy
<1> QED BY <1>1, <1>2 DEF EntriesInv, Busy

LEMMA TakeUpEntries ==
  ASSUME EntriesInv, TakeUp
  PROVE  EntriesInv'
<1> DEFINE n == Len(Strategies)
           All1 == Range(Strategies)
           s == Strategies[cursor + 1]
           e == Skeleton(s, "running")
<1>1. /\ pc = "next" /\ cursor \in 0..n /\ cursor < n /\ n \in Nat \ {0}
      /\ cursor' = cursor + 1 /\ pc' \in Busy
      /\ DOMAIN entry = All1 /\ DOMAIN config = All1 /\ config' = config
      /\ entry' = [entry EXCEPT ![s] = e]
  BY StrategiesListed DEF TakeUp, EntriesInv, Busy
<1>2. cursor + 1 \in 1..n /\ s \in All1 /\ cursor' \in 0..n /\ cursor' > 0
  <2>1. cursor + 1 \in 1..n
    BY <1>1
  <2> QED BY <1>1, <2>1, StrategiesListed
<1>3. /\ DOMAIN entry' = All1 /\ entry'[s] = e
      /\ \A t \in All1 : t # s => entry'[t] = entry[t]
  BY <1>1, <1>2
<1>4. e.status = "running" /\ e.report = NoReport /\ IsEntry(e) /\ ~Done(e)
  BY DEF Skeleton, IsEntry, Done
<1> HIDE DEF e
<1>5. \A k \in 1..n : Left(k) <=> k <= cursor
  BY <1>1 DEF Left, Busy
<1>6. \A k \in 1..n : Left(k)' <=> k <= cursor
  BY <1>1 DEF Left
<1>7. config[s] = Configured[s]
  BY <1>1, <1>2, <1>5 DEF EntriesInv
<1>8. Fits(e, config[s], Configured[s])
  BY <1>4, <1>7 DEF Fits
<1>9. \A t \in All1 : IsEntry(entry'[t]) /\ Fits(entry'[t], config'[t], Configured[t])
  <2> SUFFICES ASSUME NEW t \in All1
               PROVE  IsEntry(entry'[t]) /\ Fits(entry'[t], config[t], Configured[t])
    BY <1>1
  <2>1. CASE t = s
    BY <1>3, <1>4, <1>8, <2>1
  <2>2. CASE t # s
    <3>1. ~IsPending(t)
      BY <1>1 DEF IsPending
    <3> QED BY <1>3, <2>2, <3>1 DEF EntriesInv
  <2> QED BY <2>1, <2>2
<1>10. ASSUME NEW k \in 1..n
       PROVE  IF k <= cursor THEN entry'[Strategies[k]].status # "running"
              ELSE /\ config[Strategies[k]] = Configured[Strategies[k]]
                   /\ ~Done(entry'[Strategies[k]])
  <2>1. CASE k = cursor + 1
    BY <1>1, <1>3, <1>4, <1>7, <2>1
  <2>2. CASE k # cursor + 1
    <3>1. Strategies[k] # s /\ Strategies[k] \in All1
      BY <1>2, <2>2, StrategiesListed
    <3> QED BY <1>1, <1>3, <1>5, <3>1 DEF EntriesInv
  <2> QED BY <2>1, <2>2
<1> QED BY <1>1, <1>2, <1>3, <1>6, <1>9, <1>10 DEF EntriesInv, Busy

LEMMA LeaveEntries ==
  ASSUME EntriesInv, Leave
  PROVE  EntriesInv'
<1> DEFINE n == Len(Strategies)
           All1 == Range(Strategies)
           stays(t) == ~(stop /\ cursor < n /\ entry[t].status = "running")
<1>1. /\ pc = "next" /\ (cursor = n \/ stop) /\ pc' = "rank" /\ n \in Nat \ {0}
      /\ cursor \in 0..n /\ cursor' = cursor /\ config' = config /\ progress' = progress
      /\ DOMAIN entry = All1 /\ DOMAIN config = All1
      /\ DOMAIN entry' = All1
  BY StrategiesListed DEF Leave, EntriesInv, Busy
<1>2. \A t \in All1 : entry'[t] = IF stays(t) THEN entry[t]
                                  ELSE [entry[t] EXCEPT !.status = "idle"]
  BY <1>1 DEF Leave
<1>3. ASSUME NEW t \in All1
      PROVE  /\ IsEntry(entry'[t]) /\ Fits(entry'[t], config[t], Configured[t])
             /\ entry'[t].status # "running" /\ (Done(entry'[t]) <=> Done(entry[t]))
  <2>1. IsEntry(entry[t]) /\ Fits(entry[t], config[t], Configured[t])
    BY <1>1 DEF EntriesInv, IsPending
  <2>2. CASE stays(t)
    <3>1. entry[t].status # "running"
      <4>1. CASE cursor = n
        <5>1. PICK k \in 1..n : Strategies[k] = t
          BY StrategiesListed
        <5>2. Left(k)
          BY <1>1, <4>1 DEF Left, Busy
        <5> QED BY <1>1, <5>1, <5>2 DEF EntriesInv
      <4>2. CASE cursor # n
        BY <1>1, <2>2, <4>2
      <4> QED BY <4>1, <4>2
    <3> QED BY <1>2, <2>1, <2>2, <3>1
  <2>3. CASE ~stays(t)
    <3> DEFINE e == [entry[t] EXCEPT !.status = "idle"]
    <3>1. entry'[t] = e /\ entry[t].status = "running" /\ ~Done(entry[t])
      BY <1>2, <2>3 DEF Done
    <3>2. e.status = "idle" /\ e.report = entry[t].report /\ DOMAIN e = DOMAIN entry[t]
          /\ ~Done(e)
      BY <2>1 DEF IsEntry, Done
    <3> HIDE DEF e
    <3>3. config[t] = Configured[t]
      BY <2>1, <3>1 DEF Fits, Done
    <3>4. IsEntry(e) /\ Fits(e, config[t], Configured[t])
      BY <2>1, <3>1, <3>2, <3>3 DEF IsEntry, Fits
    <3>5. e.status # "running"
      BY <3>2
    <3>6. Done(entry'[t]) <=> Done(entry[t])
      BY <3>1, <3>2
    <3> QED BY <3>1, <3>4, <3>5, <3>6
  <2> QED BY <2>2, <2>3
<1>4. \A k \in 1..n : Left(k)' <=> Left(k)
  BY <1>1 DEF Left, Busy
<1>5. \A k \in 1..n : Strategies[k] \in All1
  BY StrategiesListed
<1>6. \A k \in 1..n :
        IF Left(k)' THEN entry'[Strategies[k]].status # "running"
        ELSE /\ config'[Strategies[k]] = Configured[Strategies[k]]
             /\ ~Done(entry'[Strategies[k]])
  BY <1>1, <1>3, <1>4, <1>5 DEF EntriesInv
<1> QED BY <1>1, <1>3, <1>6 DEF EntriesInv, Busy

LEMMA TickEntries ==
  ASSUME EntriesInv, NEW s \in Range(Strategies), NEW report \in Reports, Tick(s, report)
  PROVE  EntriesInv'
<1> DEFINE n == Len(Strategies)
           All1 == Range(Strategies)
           e == Refreshed(entry[s], report)
<1>1. /\ pc = "over" /\ pc' = "ticked" /\ cursor' = cursor /\ config' = config
      /\ progress' = progress /\ DOMAIN entry = All1 /\ Done(entry[s])
      /\ entry' = [entry EXCEPT ![s] = e] /\ n \in Nat \ {0} /\ cursor \in 0..n
  BY StrategiesListed DEF Tick, EntriesInv
<1>2. /\ DOMAIN entry' = All1 /\ entry'[s] = e
      /\ \A t \in All1 : t # s => entry'[t] = entry[t]
  BY <1>1
<1>3. IsEntry(entry[s]) /\ Fits(entry[s], config[s], Configured[s])
  BY <1>1 DEF EntriesInv, IsPending
<1>4. /\ DOMAIN e = DOMAIN entry[s] /\ e.status = "live" /\ e.report = report
      /\ e.top = entry[s].top
  BY <1>3 DEF Refreshed, IsEntry
<1> HIDE DEF e
<1>5. IsEntry(e) /\ Fits(e, config[s], Configured[s]) /\ Done(e) /\ e.status # "running"
  BY <1>1, <1>3, <1>4 DEF IsEntry, Fits, Done
<1>6. \A t \in All1 :
        /\ IsEntry(entry'[t]) /\ Fits(entry'[t], config'[t], Configured[t])
        /\ (Done(entry'[t]) <=> Done(entry[t]))
        /\ entry[t].status # "running" => entry'[t].status # "running"
  <2> SUFFICES ASSUME NEW t \in All1
               PROVE  /\ IsEntry(entry'[t]) /\ Fits(entry'[t], config[t], Configured[t])
                      /\ (Done(entry'[t]) <=> Done(entry[t]))
                      /\ entry[t].status # "running" => entry'[t].status # "running"
    BY <1>1
  <2>1. CASE t = s
    <3>1. Done(entry[s]) \in BOOLEAN /\ Done(e) \in BOOLEAN
      BY DEF Done
    <3> QED BY <1>1, <1>2, <1>5, <2>1, <3>1
  <2>2. CASE t # s
    BY <1>1, <1>2, <2>2 DEF EntriesInv, IsPending
  <2> QED BY <2>1, <2>2
<1>7. \A k \in 1..n : Left(k)' <=> Left(k)
  BY <1>1 DEF Left, Busy
<1>8. \A k \in 1..n : Strategies[k] \in All1
  BY StrategiesListed
<1>9. \A k \in 1..n :
        IF Left(k)' THEN entry'[Strategies[k]].status # "running"
        ELSE /\ config'[Strategies[k]] = Configured[Strategies[k]]
             /\ ~Done(entry'[Strategies[k]])
  BY <1>1, <1>6, <1>7, <1>8 DEF EntriesInv
<1> QED BY <1>1, <1>2, <1>6, <1>9 DEF EntriesInv, Busy

\* A result that shows the configured parameters, beside its table.
LEMMA CompletedIsEntry ==
  ASSUME NEW report \in Reports, NEW top
  PROVE  LET e == Completed(report, top)
         IN  /\ IsEntry(e) /\ Done(e) /\ e.status = "completed"
             /\ e.report = report /\ e.top = top
BY DEF Completed, IsEntry, Done

LEMMA SkeletonIsEntry ==
  ASSUME NEW s, NEW status \in {"running", "idle", "error"}
  PROVE  LET e == Skeleton(s, status)
         IN  IsEntry(e) /\ ~Done(e) /\ e.status = status /\ e.report = NoReport
BY DEF Skeleton, IsEntry, Done

\* A strategy that is being run has the parameters it is configured with.
LEMMA BusyIsConfigured ==
  ASSUME EntriesInv, pc \in Busy
  PROVE  /\ Strategy \in Range(Strategies)
         /\ pc # "complete" => config[Strategy] = Configured[Strategy]
<1>1. cursor \in 1..Len(Strategies) /\ pc # "broken"
  <2>1. cursor \in 0..Len(Strategies) /\ cursor > 0
    BY DEF EntriesInv
  <2> QED BY <2>1, StrategiesListed DEF Busy
<1>2. ~Left(cursor)
  BY <1>1 DEF Left
<1> QED BY <1>1, <1>2, StrategiesListed DEF EntriesInv, Strategy

\* A stop request, or an error.
LEMMA FailureEntries ==
  ASSUME EntriesInv, pc \in Busy, NEW status \in {"idle", "error"},
         Concluded(Skeleton(Strategy, status)), UNCHANGED <<cursor, config>>,
         pc = "complete" => status = "error"
  PROVE  EntriesInv'
<1> DEFINE e == Skeleton(Strategy, status)
<1>1. pc # "complete" => config[Strategy] = Configured[Strategy]
  BY BusyIsConfigured
<1>2. IsEntry(e) /\ ~Done(e) /\ e.status = status
  BY SkeletonIsEntry
<1>3. Concluded(e)
  OBVIOUS
<1> HIDE DEF e
<1>4. Fits(e, config[Strategy], Configured[Strategy])
  BY <1>1, <1>2 DEF Fits
<1>5. e.status # "running"
  BY <1>2
<1> QED BY <1>2, <1>3, <1>4, <1>5, ConcludedStep

LEMMA SingleEntries ==
  ASSUME EntriesInv, Single
  PROVE  EntriesInv'
<1>1. /\ pc \in Busy /\ pc # "complete" /\ UNCHANGED <<cursor, config>>
  BY DEF Single, Busy
<1>2. config[Strategy] = Configured[Strategy]
  BY <1>1, BusyIsConfigured
<1>3. PICK report \in Reports : Concluded(Completed(report, <<>>))
  BY DEF Single
<1> DEFINE e == Completed(report, <<>>)
<1>4. IsEntry(e) /\ Done(e) /\ e.status = "completed" /\ e.top = <<>>
  BY CompletedIsEntry
<1>5. Concluded(e)
  BY <1>3
<1> HIDE DEF e
<1>6. Fits(e, config[Strategy], Configured[Strategy])
  BY <1>2, <1>4 DEF Fits
<1>7. e.status # "running"
  BY <1>4
<1> QED BY <1>1, <1>4, <1>5, <1>6, <1>7, ConcludedStep

\* What is written to the configuration is a combination that was run.
LEMMA BestIsFor ==
  ASSUME EntriesInv, SearchInv, pc \in Busy, pc \in Searching, best # Nothing
  PROVE  FoundFor(Strategy, Over(best.params, Configured[Strategy]))
<1>1. tried \subseteq Runnable /\ FirstBest
      /\ \A i \in DOMAIN iterations : iterations[i].params \in tried
  BY DEF SearchInv
<1>2. PICK i \in DOMAIN iterations : iterations[i] = best
  BY <1>1 DEF FirstBest
<1>3. best.params \in Runnable
  BY <1>1, <1>2
<1>4. Strategy \in DOMAIN Definitions
  BY DEF SearchInv
<1> QED BY <1>3, <1>4 DEF FoundFor, Runnable, All

LEMMA DecideEntries ==
  ASSUME EntriesInv, CurrentInv, SearchInv, Decide
  PROVE  EntriesInv'
<1>1. /\ pc = "decide" /\ pc \in Busy /\ UNCHANGED cursor
      /\ DOMAIN config = Range(Strategies)
  BY DEF Decide, EntriesInv, Busy
<1>2. config[Strategy] = Configured[Strategy] /\ Strategy \in Range(Strategies)
  BY <1>1, BusyIsConfigured
<1>3. CASE stop
  <2>1. Concluded(Skeleton(Strategy, "idle")) /\ config' = config
    BY <1>3 DEF Decide
  <2> QED BY <1>1, <2>1, FailureEntries
<1>4. CASE ~stop /\ best = Nothing
  <2>1. pc' = "single" /\ UNCHANGED <<cursor, entry, config, progress>>
    BY <1>4 DEF Decide
  <2> QED BY <1>1, <2>1, EntriesStay DEF Busy
<1>5. CASE ~stop /\ best # Nothing
  <2> DEFINE saved == Over(best.params, Configured[Strategy])
             All1 == Range(Strategies)
  <2>1. /\ config' = [config EXCEPT ![Strategy] = saved] /\ pc' = "complete"
        /\ UNCHANGED <<entry, progress>>
    BY <1>2, <1>5 DEF Decide
  <2>2. FoundFor(Strategy, saved)
    BY <1>1, <1>5, BestIsFor DEF Searching
  <2> HIDE DEF saved
  <2>3. /\ DOMAIN config' = All1 /\ config'[Strategy] = saved
        /\ \A s \in All1 : s # Strategy => config'[s] = config[s]
    BY <1>1, <1>2, <2>1
  <2>4. cursor \in 1..Len(Strategies) /\ entry[Strategy].status = "running"
    <3>1. cursor \in 0..Len(Strategies) /\ cursor > 0
      BY <1>1 DEF EntriesInv
    <3>2. entry[Strategy].status = "running"
      BY <1>1 DEF CurrentInv
    <3> QED BY <3>1, <3>2, StrategiesListed
  <2>5. \A s : s = Strategy => IsPending(s)'
    BY <1>1, <2>1, <2>4 DEF IsPending, Strategy
  <2>6. \A s \in All1 :
          /\ IsEntry(entry'[s])
          /\ Fits(entry'[s], config'[s], Configured[s]) \/ IsPending(s)'
          /\ config'[s] = Configured[s] \/ FoundFor(s, config'[s])
    <3> SUFFICES ASSUME NEW s \in All1
                 PROVE  /\ IsEntry(entry'[s])
                        /\ Fits(entry'[s], config'[s], Configured[s]) \/ IsPending(s)'
                        /\ config'[s] = Configured[s] \/ FoundFor(s, config'[s])
      OBVIOUS
    <3>1. /\ IsEntry(entry[s]) /\ entry' = entry
          /\ Fits(entry[s], config[s], Configured[s])
          /\ config[s] = Configured[s] \/ FoundFor(s, config[s])
      BY <1>1, <2>1 DEF EntriesInv, IsPending
    <3>2. CASE s = Strategy
      <4>1. IsPending(s)'
        BY <2>5, <3>2
      <4> QED BY <2>2, <2>3, <3>1, <3>2, <4>1
    <3>3. CASE s # Strategy
      BY <2>3, <3>1, <3>3
    <3> QED BY <3>2, <3>3
  <2>7. ASSUME NEW k \in 1..Len(Strategies)
        PROVE  IF Left(k)' THEN entry'[Strategies[k]].status # "running"
               ELSE /\ ~Done(entry'[Strategies[k]])
                    /\ \/ config'[Strategies[k]] = Configured[Strategies[k]]
                       \/ k = cursor' /\ pc' = "complete"
    <3>1. Left(k)' <=> Left(k)
      BY <1>1, <2>1 DEF Left, Busy
    <3>2. IF Left(k) THEN entry[Strategies[k]].status # "running"
          ELSE /\ ~Done(entry[Strategies[k]])
               /\ config[Strategies[k]] = Configured[Strategies[k]]
      BY <1>1 DEF EntriesInv
    <3>3. CASE k = cursor
      BY <1>1, <2>1, <3>1, <3>2, <3>3
    <3>4. CASE k # cursor
      <4>1. Strategies[k] # Strategy /\ Strategies[k] \in All1
        BY <2>4, <3>4, StrategiesListed DEF Strategy
      <4> QED BY <2>1, <2>3, <3>1, <3>2, <4>1
    <3> QED BY <3>3, <3>4
  <2> QED BY <1>1, <2>1, <2>3, <2>4, <2>6, <2>7 DEF EntriesInv, Busy
<1> QED BY <1>3, <1>4, <1>5

LEMMA CompleteEntries ==
  ASSUME EntriesInv, CurrentInv, SearchInv, Complete
  PROVE  EntriesInv'
<1>1. /\ pc = "complete" /\ pc \in Busy /\ UNCHANGED <<cursor, config>>
      /\ pc \in Searching
  BY DEF Complete, Busy, Searching
<1>2. /\ best # Nothing
      /\ config[Strategy] = Over(best.params, Configured[Strategy])
  BY <1>1 DEF CurrentInv
<1>3. PICK report \in Reports :
        WithoutChart(report) = best.report /\ Concluded(Completed(report, Summary))
  BY DEF Complete
<1> DEFINE e == Completed(report, Summary)
<1>4. /\ IsEntry(e) /\ Done(e) /\ e.status = "completed" /\ e.report = report
      /\ e.top = Summary
  BY CompletedIsEntry
<1>5. Concluded(e)
  BY <1>3
<1> HIDE DEF e
<1>6. /\ Summary # <<>> /\ Summary[1].report.totalPnl = best.report.totalPnl
      /\ Len(Summary) < 5 => \E k \in DOMAIN Summary : Summary[k] = best
  BY <1>1, <1>2, SummaryIsBest DEF SearchInv
<1>7. report.totalPnl = best.report.totalPnl
  BY <1>3, SearchAssumption DEF IsReport, WithoutChart
<1> DEFINE saved == config[Strategy]
           list == Summary
<1>8. saved = Over(best.params, Configured[Strategy])
  BY <1>2
<1> HIDE DEF saved, list
<1>9. /\ list # <<>> /\ list[1].report.totalPnl = best.report.totalPnl /\ e.top = list
      /\ Len(list) < 5 => \E k \in DOMAIN list : list[k] = best
  BY <1>4, <1>6 DEF list
<1>10. Fits(e, saved, Configured[Strategy])
  BY <1>3, <1>4, <1>7, <1>8, <1>9 DEF Fits
<1>11. Fits(e, config[Strategy], Configured[Strategy]) /\ e.status # "running"
  BY <1>4, <1>10 DEF saved
<1> QED BY <1>1, <1>4, <1>5, <1>11, ConcludedStep

LEMMA EntriesInit ==
  ASSUME SearchInit PROVE EntriesInv
<1> DEFINE n == Len(Strategies)
<1>1. /\ cursor = 0 /\ pc = "next" /\ config = Configured /\ n \in Nat \ {0}
      /\ entry = [s \in Range(Strategies) |-> Skeleton(s, "running")]
      /\ DOMAIN config = Range(Strategies)
  BY StrategiesListed, SearchAssumption DEF SearchInit
<1>2. \A s \in Range(Strategies) :
        /\ IsEntry(entry[s]) /\ ~Done(entry[s])
        /\ config[s] = Configured[s]
  BY <1>1, SkeletonIsEntry
<1>3. \A s \in Range(Strategies) : Fits(entry[s], config[s], Configured[s])
  BY <1>2 DEF Fits, Done
<1>4. \A k \in 1..n : ~Left(k) /\ Strategies[k] \in Range(Strategies)
  BY <1>1, StrategiesListed DEF Left
<1> QED BY <1>1, <1>2, <1>3, <1>4 DEF EntriesInv, Busy

LEMMA EntriesStep ==
  ASSUME EntriesInv, CurrentInv, SearchInv, [SearchNext]_searchVars
  PROVE  EntriesInv'
<1>1. CASE TakeUp
  BY <1>1, TakeUpEntries
<1>2. CASE Leave
  BY <1>2, LeaveEntries
<1>3. CASE Iterate
  BY <1>3, EntriesStay DEF Iterate
<1>4. CASE EndSearch
  BY <1>4, EntriesStay DEF EndSearch, Busy
<1>5. CASE Decide
  BY <1>5, DecideEntries
<1>6. CASE Single
  BY <1>6, SingleEntries
<1>13. CASE Complete
  BY <1>13, CompleteEntries
<1>14. CASE StrategyFails
  BY <1>14, FailureEntries DEF StrategyFails, Busy
<1>15. CASE BreakOff
  BY <1>15, BreakOffEntries
<1>7. CASE Rank
  BY <1>7, EntriesStay DEF Rank
<1>8. CASE RefreshRanking
  BY <1>8, EntriesStay DEF RefreshRanking
<1>9. ASSUME NEW s \in Range(Strategies), NEW id \in 1..2, NEW at \in 1..2,
             Validate(s, id, at)
      PROVE  EntriesInv'
  BY <1>9, EntriesStay DEF Validate
<1>10. ASSUME NEW s \in Range(Strategies), NEW report \in Reports, Tick(s, report)
       PROVE  EntriesInv'
  BY <1>10, TickEntries
<1>11. CASE StopRequest
  BY <1>11, EntriesStay DEF StopRequest
<1>12. CASE UNCHANGED searchVars
  BY <1>12, EntriesStay DEF searchVars
<1> QED
  BY <1>1, <1>2, <1>3, <1>4, <1>5, <1>6, <1>7, <1>8, <1>9, <1>10, <1>11, <1>12,
     <1>13, <1>14, <1>15
  DEF SearchNext

\* Stops are not taken back while a strategy is run, and only Decide goes on to make
\* a result of a search.
LEMMA CurrentStep ==
  ASSUME EntriesInv, CurrentInv, [SearchNext]_searchVars
  PROVE  CurrentInv'
<1>1. ASSUME pc' \notin Busy PROVE CurrentInv'
  BY <1>1 DEF CurrentInv
<1>2. ASSUME pc' = pc, UNCHANGED <<cursor, chosen, best, entry, config>>, stop => stop'
      PROVE  CurrentInv'
  BY <1>2 DEF CurrentInv, Strategy
<1>3. CASE TakeUp
  <2> DEFINE s == Strategies[cursor + 1]
  <2>1. /\ cursor + 1 \in 1..Len(Strategies) /\ cursor' = cursor + 1
        /\ DOMAIN entry = Range(Strategies) /\ pc' \in {"search", "single"}
        /\ entry' = [entry EXCEPT ![s] = Skeleton(s, "running")]
    <3>1. cursor \in 0..Len(Strategies) /\ cursor < Len(Strategies) /\ cursor' = cursor + 1
      BY <1>3 DEF TakeUp, EntriesInv
    <3>2. DOMAIN entry = Range(Strategies)
      BY DEF EntriesInv
    <3>3. pc' \in {"search", "single"}
      BY <1>3 DEF TakeUp
    <3>4. entry' = [entry EXCEPT ![s] = Skeleton(s, "running")]
      BY <1>3 DEF TakeUp
    <3> QED BY <3>1, <3>2, <3>3, <3>4, StrategiesListed
  <2>2. s \in Range(Strategies) /\ Strategy' = s
    BY <2>1, StrategiesListed DEF Strategy
  <2>3. entry'[s].status = "running"
    BY <2>1, <2>2 DEF Skeleton
  <2> QED BY <2>1, <2>2, <2>3 DEF CurrentInv
<1>4. CASE Iterate
  BY <1>4 DEF Iterate, CurrentInv, Strategy
<1>5. CASE EndSearch
  BY <1>5 DEF EndSearch, CurrentInv, Strategy, Busy
<1>6. CASE Decide
  <2>1. /\ pc = "decide" /\ pc \in Busy /\ UNCHANGED cursor
        /\ DOMAIN config = Range(Strategies)
        /\ entry[Strategy].status = "running" /\ (stop \/ chosen = <<>>)
    BY <1>6 DEF Decide, EntriesInv, CurrentInv, Busy
  <2>2. config[Strategy] = Configured[Strategy] /\ Strategy \in Range(Strategies)
    BY <2>1, BusyIsConfigured
  <2>3. CASE pc' = "next"
    BY <1>1, <2>3 DEF Busy
  <2>4. CASE pc' = "single"
    BY <1>6, <2>1, <2>4 DEF Decide, Concluded, CurrentInv, Strategy
  <2>5. CASE pc' = "complete"
    <3>1. /\ ~stop /\ best # Nothing /\ UNCHANGED <<chosen, best, entry>>
          /\ config' = [config EXCEPT ![Strategy] = Over(best.params, config[Strategy])]
      BY <1>6, <2>5 DEF Decide, Concluded
    <3>2. config'[Strategy] = Over(best.params, Configured[Strategy])
      BY <2>1, <2>2, <3>1
    <3>3. Strategy' = Strategy
      BY <2>1 DEF Strategy
    <3> QED BY <2>1, <2>5, <3>1, <3>2, <3>3 DEF CurrentInv
  <2> QED BY <1>6, <2>3, <2>4, <2>5 DEF Decide, Concluded
<1>7. CASE Leave \/ Complete \/ Single \/ StrategyFails \/ BreakOff \/ Rank
  BY <1>1, <1>7 DEF Leave, Complete, Single, StrategyFails, BreakOff, Rank, Concluded, Busy
<1>8. CASE RefreshRanking
  BY <1>1, <1>8 DEF RefreshRanking, Busy
<1>9. ASSUME NEW s, NEW id, NEW at, Validate(s, id, at) PROVE CurrentInv'
  BY <1>1, <1>9 DEF Validate, Busy
<1>10. ASSUME NEW s, NEW report, Tick(s, report) PROVE CurrentInv'
  BY <1>1, <1>10 DEF Tick, Busy
<1>11. CASE StopRequest
  BY <1>2, <1>11 DEF StopRequest
<1>12. CASE UNCHANGED searchVars
  BY <1>2, <1>12 DEF searchVars
<1> QED
  BY <1>3, <1>4, <1>5, <1>6, <1>7, <1>8, <1>9, <1>10, <1>11, <1>12 DEF SearchNext

LEMMA EntriesInvariant == SearchSpec => [](EntriesInv /\ CurrentInv)
<1>1. SearchInit => EntriesInv /\ CurrentInv
  <2>1. SearchInit => CurrentInv
    BY DEF SearchInit, CurrentInv, Busy
  <2> QED BY <2>1, EntriesInit
<1>2. SearchSpec => []SearchInv
  BY SearchInvariant
<1>3. EntriesInv /\ CurrentInv /\ SearchInv /\ [SearchNext]_searchVars
        => EntriesInv' /\ CurrentInv'
  BY EntriesStep, CurrentStep
<1> QED BY <1>1, <1>2, <1>3, PTL DEF SearchSpec

\* The parameters that are saved are always configured ones or those of a combination
\* that was run, and then of the result that is shown: unless making the result
\* failed, or the run was broken off between the two writes.  No stop comes between
\* them; a table without room for all of the iterations begins with one that earned
\* as much (run_strategy_backtest).
THEOREM ConfigFollows == SearchSpec => []ConfigFollowsResult
<1>1. ASSUME EntriesInv, CurrentInv PROVE ConfigFollowsResult
  <2>1. ASSUME NEW s \in Range(Strategies)
        PROVE  /\ Fits(entry[s], config[s], Configured[s]) \/ IsPending(s)
               /\ config[s] = Configured[s] \/ FoundFor(s, config[s])
               /\ entry[s].status \in {"idle", "error"} => entry[s].report = NoReport
    <3>1. /\ IsEntry(entry[s])
          /\ Fits(entry[s], config[s], Configured[s]) \/ IsPending(s)
          /\ config[s] = Configured[s] \/ FoundFor(s, config[s])
      BY <1>1 DEF EntriesInv
    <3>2. entry[s].status \in {"idle", "error"} => ~Done(entry[s])
      BY DEF Done
    <3> QED BY <3>1, <3>2 DEF IsEntry
  <2>2. pc = "complete" =>
          /\ chosen = <<>>
          /\ config[Strategy] = Over(best.params, Configured[Strategy])
    BY <1>1 DEF CurrentInv, Busy
  <2> QED BY <2>1, <2>2 DEF ConfigFollowsResult, Fits, IsPending
<1>2. SearchSpec => [](EntriesInv /\ CurrentInv)
  BY EntriesInvariant
<1> QED BY <1>1, <1>2, PTL

(***************************************************************************)
(* The ranking.  It lists every strategy with a result at one rank; the    *)
(* one shown is of the results of the last refresh, and strategies with a  *)
(* result only ever get a newer one.                                       *)
(***************************************************************************)
DoneSet == {s \in Range(Strategies) : Done(entry[s])}
Item == [strategy : DoneSet, report : Reports]
Ranked == [rank : Nat, strategy : DoneSet, report : Reports, moved : Int]

\* A list of the strategies with a result: every one at one place.
ListsDone(list) ==
  /\ \A s \in DoneSet : \E k \in 1..Len(list) : list[k].strategy = s
  /\ \A i, j \in 1..Len(list) : list[i].strategy = list[j].strategy => i = j

\* ... with the results they have.
IsCurrent(list) ==
  \A k \in 1..Len(list) : list[k].report = entry[list[k].strategy].report

IsRanking(list) ==
  /\ list \in Seq(Ranked)
  /\ ListsDone(list)
  /\ \A k \in 1..Len(list) : list[k].rank = k

\* A ranking that was just made.
GradesFall(list) ==
  \A i, j \in 1..Len(list) :
    i < j => GradeOrder(Grade(list[j].report)) <= GradeOrder(Grade(list[i].report))
IsFresh(list) ==
  /\ IsCurrent(list) /\ GradesFall(list)
  /\ Total([k \in DOMAIN list |-> list[k].moved]) = 0

Validation == [id : 1..2, strategy : Range(Strategies), at : 1..2]
RankingInv ==
  /\ pc \in {"over", "ticked"} => IsRanking(ranking)
  /\ pc = "over" => IsFresh(ranking)
  /\ validations \in Seq(Validation)

\* The strategies with a result, in the order of the run: what TopN keeps when it
\* does not require more than the deposit (requireAboveBaseline is FALSE).
Reports1 == Reports \cup {NoReport}
Shown ==
  Kept(Reported, {item \in Range(Reported) :
         /\ item.report # NoReport
         /\ FALSE => item.report.totalPnl > item.report.deposit})

LEMMA ReportsArePresent ==
  ASSUME NEW report \in Reports
  PROVE  report # NoReport /\ IsReport(report)
<1>1. IsReport(report)
  BY SearchAssumption
<1>2. "totalPnl" \in DOMAIN report /\ "totalPnl" \notin DOMAIN NoReport
  BY <1>1 DEF IsReport, NoReport
<1> QED BY <1>1, <1>2

LEMMA ShownLists ==
  ASSUME EntriesInv
  PROVE  /\ Shown \in Seq(Item) /\ ListsDone(Shown) /\ IsCurrent(Shown)
         /\ Len(Shown) \in Nat /\ Len(Shown) <= Len(Strategies)
<1> DEFINE n == Len(Strategies)
           All1 == Range(Strategies)
           r == Reported
           T == [strategy : All1, report : Reports1]
           S == {item \in Range(Reported) :
                   /\ item.report # NoReport
                   /\ FALSE => item.report.totalPnl > item.report.deposit}
           k == Kept(r, S)
<1>1. /\ n \in Nat /\ DOMAIN Strategies = 1..n
      /\ \A i \in 1..n : Strategies[i] \in All1
      /\ \A s \in All1 : \E i \in 1..n : Strategies[i] = s
      /\ \A i, j \in 1..n : Strategies[i] = Strategies[j] => i = j
  BY StrategiesListed
<1>2. \A s \in All1 : /\ Done(entry[s]) => entry[s].report \in Reports
                      /\ entry[s].report \in Reports1
  BY DEF EntriesInv, IsEntry, Reports1
<1> HIDE DEF n, All1
<1>3. /\ DOMAIN r = 1..n
      /\ \A i \in 1..n : /\ r[i].strategy = Strategies[i]
                         /\ r[i].report = IF Done(entry[Strategies[i]])
                                          THEN entry[Strategies[i]].report ELSE NoReport
                         /\ r[i] \in T
  <2>1. NoReport \in Reports1
    BY DEF Reports1
  <2> QED BY <1>1, <1>2, <2>1 DEF Reported
<1>4. r \in Seq(T) /\ Len(r) = n
  <2>1. r \in [1..n -> T]
    BY <1>3 DEF Reported
  <2> HIDE DEF r, T
  <2> QED BY <1>1, <2>1
<1>5. \A i \in 1..n : r[i] \in S <=> Done(entry[Strategies[i]])
  <2> SUFFICES ASSUME NEW i \in 1..n PROVE r[i] \in S <=> Done(entry[Strategies[i]])
    OBVIOUS
  <2>1. r[i] \in Range(Reported)
    BY <1>3 DEF Range
  <2>2. r[i] \in S <=> r[i].report # NoReport
    BY <2>1
  <2>3. Done(entry[Strategies[i]]) => r[i].report # NoReport
    BY <1>1, <1>2, <1>3, ReportsArePresent
  <2>4. ~Done(entry[Strategies[i]]) => r[i].report = NoReport
    BY <1>3
  <2> QED BY <2>2, <2>3, <2>4
<1>6. Shown = k
  BY DEF Shown
<1> HIDE DEF r, S, T
<1>7. /\ k \in Seq(T)
      /\ \E at \in [DOMAIN k -> DOMAIN r] :
           /\ \A i \in DOMAIN k : k[i] = r[at[i]] /\ r[at[i]] \in S
           /\ \A i \in DOMAIN r : r[i] \in S => \E j \in DOMAIN k : at[j] = i
           /\ \A i, j \in DOMAIN k : i < j => at[i] < at[j]
  BY <1>4, KeptProperties
<1>8. Len(k) \in Nat /\ Len(k) <= n
  BY <1>4, KeptIsShorter
<1> DEFINE m == Len(k)
<1> HIDE DEF k
<1>9. DOMAIN k = 1..m /\ m \in Nat /\ m <= n
  BY <1>7, <1>8
<1> HIDE DEF m
<1>10. PICK at \in [1..m -> 1..n] :
         /\ \A i \in 1..m : k[i] = r[at[i]] /\ r[at[i]] \in S
         /\ \A i \in 1..n : r[i] \in S => \E j \in 1..m : at[j] = i
         /\ \A i, j \in 1..m : i < j => at[i] < at[j]
  BY <1>3, <1>7, <1>9
<1>11. \A i \in 1..m :
         LET s == Strategies[at[i]]
         IN  /\ s \in All1 /\ Done(entry[s])
             /\ k[i].strategy = s /\ k[i].report = entry[s].report
  BY <1>1, <1>3, <1>5, <1>10
<1>12. \A i \in 1..m : k[i] \in Item /\ k[i].report = entry[k[i].strategy].report
  <2> SUFFICES ASSUME NEW i \in 1..m
               PROVE  k[i] \in Item /\ k[i].report = entry[k[i].strategy].report
    OBVIOUS
  <2>1. k[i] \in T
    BY <1>3, <1>10
  <2>2. k[i].strategy \in DoneSet /\ k[i].report \in Reports
    BY <1>2, <1>11 DEF DoneSet, All1
  <2>3. k[i] \in Item
    BY <2>1, <2>2 DEF Item, T
  <2> QED BY <1>11, <2>3
<1>13. k \in Seq(Item)
  <2>1. k \in [1..m -> Item]
    BY <1>7, <1>9, <1>12
  <2> QED BY <1>9, <2>1
<1>14. \A s \in DoneSet : \E i \in 1..m : k[i].strategy = s
  <2> SUFFICES ASSUME NEW s \in DoneSet PROVE \E i \in 1..m : k[i].strategy = s
    OBVIOUS
  <2>1. s \in All1 /\ Done(entry[s])
    BY DEF DoneSet, All1
  <2>2. PICK i \in 1..n : Strategies[i] = s
    BY <1>1, <2>1
  <2>3. PICK j \in 1..m : at[j] = i
    BY <1>5, <1>10, <2>1, <2>2
  <2> QED BY <1>11, <2>2, <2>3
<1>15. ASSUME NEW i \in 1..m, NEW j \in 1..m, k[i].strategy = k[j].strategy
       PROVE  i = j
  <2>1. at[i] = at[j] /\ at[i] \in Int
    BY <1>1, <1>10, <1>11, <1>15
  <2>2. ~(i < j) /\ ~(j < i)
    BY <1>10, <2>1
  <2> QED BY <1>9, <2>2
<1> QED BY <1>6, <1>8, <1>9, <1>12, <1>13, <1>14, <1>15
        DEF ListsDone, IsCurrent, m, n

\* The strategies with a result in the order of their keys.
Top == TopN(Reported, Len(Strategies), FALSE)

LEMMA TopLists ==
  ASSUME EntriesInv
  PROVE  /\ Top \in Seq([rank : Nat, strategy : DoneSet, report : Reports])
         /\ ListsDone(Top) /\ IsCurrent(Top) /\ GradesFall(Top)
         /\ \A k \in 1..Len(Top) : Top[k].rank = k
<1> DEFINE n == Len(Strategies)
           m == Len(Shown)
           keys == [k \in DOMAIN Shown |-> RankingKey(Shown[k].report)]
           b == Best(Shown, keys, n)
           T == [rank : Nat, strategy : DoneSet, report : Reports]
<1>1. /\ Shown \in Seq(Item) /\ ListsDone(Shown) /\ IsCurrent(Shown)
      /\ m \in Nat /\ m <= n /\ n \in Nat
  BY ShownLists, StrategiesListed
<1>2. Top = [k \in DOMAIN b |-> [rank |-> k, strategy |-> b[k].strategy,
                                 report |-> b[k].report]]
  BY DEF Top, TopN, Shown
<1>3. DOMAIN Shown = 1..m /\ \A k \in 1..m : Shown[k] \in Item
  BY <1>1
<1> HIDE DEF m, n
<1>4. \A k \in 1..m :
        /\ Shown[k].report \in Reports
        /\ keys[k] \in Keys(8)
        /\ keys[k][1] = GradeOrder(Grade(Shown[k].report))
        /\ GradeOrder(Grade(Shown[k].report)) \in Int
  <2> SUFFICES ASSUME NEW k \in 1..m
               PROVE  /\ Shown[k].report \in Reports
                      /\ keys[k] \in Keys(8)
                      /\ keys[k][1] = GradeOrder(Grade(Shown[k].report))
                      /\ GradeOrder(Grade(Shown[k].report)) \in Int
    OBVIOUS
  <2>1. Shown[k].report \in Reports
    BY <1>3 DEF Item
  <2>2. IsReport(Shown[k].report)
    BY <2>1, ReportsArePresent
  <2>3. keys[k] = RankingKey(Shown[k].report)
    BY <1>3
  <2> HIDE DEF keys
  <2>4. /\ keys[k] \in Keys(8) /\ keys[k][1] = GradeOrder(Grade(Shown[k].report))
        /\ Grade(Shown[k].report) \in {"PASS", "CAUTION", "FAIL"}
    BY <2>2, <2>3, RankingKeys
  <2>5. GradeOrder(Grade(Shown[k].report)) \in Int
    BY <2>4 DEF GradeOrder
  <2> QED BY <2>1, <2>4, <2>5
<1>5. keys \in Seq(Keys(8)) /\ Len(keys) = m
  <2>1. keys \in [1..m -> Keys(8)]
    BY <1>3, <1>4
  <2> HIDE DEF keys
  <2> QED BY <1>1, <2>1
<1> HIDE DEF keys
<1>6. b \in Seq(Item) /\ IsBest(b, Shown, keys, n)
  BY <1>1, <1>5, BestProperties DEF m
<1> HIDE DEF b
<1>7. /\ Len(b) = IF n <= m THEN n ELSE m
      /\ \E at \in [1..m -> 1..m] :
           /\ \A k \in 1..Len(b) : b[k] = Shown[at[k]]
           /\ \A i \in 1..m : \E k \in 1..m : at[k] = i
           /\ \A i, j \in 1..m : at[i] = at[j] => i = j
           /\ \A i, j \in 1..m : i < j => ~Precedes(keys[at[j]], keys[at[i]])
  BY <1>6 DEF IsBest, m
<1>8. Len(b) = m /\ DOMAIN b = 1..m
  BY <1>1, <1>6, <1>7
<1>9. PICK at \in [1..m -> 1..m] :
        /\ \A k \in 1..m : b[k] = Shown[at[k]]
        /\ \A i \in 1..m : \E k \in 1..m : at[k] = i
        /\ \A i, j \in 1..m : at[i] = at[j] => i = j
        /\ \A i, j \in 1..m : i < j => ~Precedes(keys[at[j]], keys[at[i]])
  BY <1>7, <1>8
<1>10. \A k \in 1..m : /\ at[k] \in 1..m /\ b[k] \in Item
                       /\ Top[k].rank = k
                       /\ Top[k].strategy = Shown[at[k]].strategy
                       /\ Top[k].report = Shown[at[k]].report
                       /\ Top[k] \in T
  <2> SUFFICES ASSUME NEW k \in 1..m
               PROVE  /\ at[k] \in 1..m /\ b[k] \in Item
                      /\ Top[k].rank = k
                      /\ Top[k].strategy = Shown[at[k]].strategy
                      /\ Top[k].report = Shown[at[k]].report
                      /\ Top[k] \in T
    OBVIOUS
  <2>1. at[k] \in 1..m /\ b[k] = Shown[at[k]] /\ b[k] \in Item
    BY <1>3, <1>9
  <2>2. Top[k] = [rank |-> k, strategy |-> b[k].strategy, report |-> b[k].report]
    BY <1>2, <1>8
  <2>3. k \in Nat /\ b[k].strategy \in DoneSet /\ b[k].report \in Reports
    BY <1>1, <2>1 DEF Item
  <2> QED BY <2>1, <2>2, <2>3
<1>11. Top \in Seq(T) /\ Len(Top) = m
  <2>1. \E body : Top = [k \in DOMAIN b |-> body[k]]
    <3>1. Top = [k \in DOMAIN b |-> Top[k]]
      BY <1>2
    <3> QED BY <3>1
  <2>2. \A k \in 1..m : Top[k] \in T
    BY <1>10
  <2> HIDE DEF T
  <2>3. Top \in [1..m -> T]
    BY <1>8, <2>1, <2>2
  <2> QED BY <1>1, <2>3
<1>12. /\ \A s \in DoneSet : \E k \in 1..m : Shown[k].strategy = s
       /\ \A i, j \in 1..m : Shown[i].strategy = Shown[j].strategy => i = j
       /\ \A k \in 1..m : Shown[k].report = entry[Shown[k].strategy].report
  BY <1>1 DEF ListsDone, IsCurrent, m
<1>13. ListsDone(Top)
  <2>1. ASSUME NEW s \in DoneSet PROVE \E k \in 1..m : Top[k].strategy = s
    <3>1. PICK i \in 1..m : Shown[i].strategy = s
      BY <1>12
    <3>2. PICK k \in 1..m : at[k] = i
      BY <1>9
    <3> QED BY <1>10, <3>1, <3>2
  <2>2. ASSUME NEW i \in 1..m, NEW j \in 1..m, Top[i].strategy = Top[j].strategy
        PROVE  i = j
    <3>1. at[i] \in 1..m /\ at[j] \in 1..m /\ Shown[at[i]].strategy = Shown[at[j]].strategy
      BY <1>10, <2>2
    <3>2. at[i] = at[j]
      BY <1>12, <3>1
    <3> QED BY <1>9, <3>2
  <2> QED BY <1>11, <2>1, <2>2 DEF ListsDone
<1>14. IsCurrent(Top)
  <2>1. ASSUME NEW k \in 1..m PROVE Top[k].report = entry[Top[k].strategy].report
    <3>1. /\ at[k] \in 1..m /\ Top[k].strategy = Shown[at[k]].strategy
          /\ Top[k].report = Shown[at[k]].report
      BY <1>10
    <3>2. Shown[at[k]].report = entry[Shown[at[k]].strategy].report
      BY <1>12, <3>1
    <3> QED BY <3>1, <3>2
  <2> QED BY <1>11, <2>1 DEF IsCurrent
<1>15. ASSUME NEW i \in 1..m, NEW j \in 1..m, i < j
       PROVE  GradeOrder(Grade(Top[j].report)) <= GradeOrder(Grade(Top[i].report))
  <2> DEFINE x == keys[at[i]]
             y == keys[at[j]]
  <2>1. ~Precedes(y, x) /\ x \in Keys(8) /\ y \in Keys(8)
    BY <1>4, <1>9, <1>10, <1>15
  <2>2. /\ x[1] = GradeOrder(Grade(Top[i].report)) /\ x[1] \in Int
        /\ y[1] = GradeOrder(Grade(Top[j].report)) /\ y[1] \in Int
    BY <1>4, <1>10
  <2> HIDE DEF x, y
  <2>3. 1 \in DOMAIN y /\ 1..(1 - 1) = {}
    BY <2>1 DEF Keys
  <2>4. ~(y[1] > x[1])
    BY <2>1, <2>3 DEF Precedes
  <2> QED BY <2>2, <2>4
<1>16. GradesFall(Top)
  BY <1>11, <1>15 DEF GradesFall
<1> QED BY <1>10, <1>11, <1>13, <1>14, <1>16

\* The ranks of the ranking before this one.
Before(previous) ==
  [s \in {previous[k].strategy : k \in DOMAIN previous} |->
     (CHOOSE k \in DOMAIN previous : previous[k].strategy = s)]

LEMMA NewRankingIs ==
  ASSUME EntriesInv, NEW previous
  PROVE  LET list == NewRanking(previous)
         IN  /\ DOMAIN list = 1..Len(Top) /\ Len(Top) \in Nat
             /\ \A k \in 1..Len(Top) :
                  /\ list[k].rank = k
                  /\ list[k].strategy = Top[k].strategy
                  /\ list[k].report = Top[k].report
                  /\ list[k].moved = Moved(Top[k], Before(previous))
                  /\ DOMAIN list[k] = {"rank", "strategy", "report", "moved"}
<1> DEFINE list == NewRanking(previous)
           T == [rank : Nat, strategy : DoneSet, report : Reports]
<1>1. list = [k \in DOMAIN Top |-> Over(Top[k], [moved |-> Moved(Top[k], Before(previous))])]
  BY DEF NewRanking, Top, Before
<1> HIDE DEF list
<1>2. /\ Top \in Seq(T) /\ \A k \in 1..Len(Top) : Top[k].rank = k
  BY TopLists
<1>3. DOMAIN Top = 1..Len(Top) /\ Len(Top) \in Nat /\ \A k \in 1..Len(Top) : Top[k] \in T
  <2> HIDE DEF T
  <2> QED BY <1>2
<1>4. ASSUME NEW k \in 1..Len(Top)
      PROVE  /\ list[k].rank = k
             /\ list[k].strategy = Top[k].strategy
             /\ list[k].report = Top[k].report
             /\ list[k].moved = Moved(Top[k], Before(previous))
             /\ DOMAIN list[k] = {"rank", "strategy", "report", "moved"}
  <2> DEFINE x == Top[k]
             y == Moved(Top[k], Before(previous))
  <2>1. list[k] = Over(x, [moved |-> y])
    BY <1>1, <1>3
  <2>2. x.rank = k /\ DOMAIN x = {"rank", "strategy", "report"}
    BY <1>2, <1>3
  <2> HIDE DEF x, y
  <2>3. DOMAIN [moved |-> y] = {"moved"} /\ [moved |-> y].moved = y
    OBVIOUS
  <2>4. DOMAIN list[k] = {"rank", "strategy", "report", "moved"}
    BY <2>1, <2>2, <2>3 DEF Over
  <2>5. /\ list[k].rank = x.rank /\ list[k].strategy = x.strategy
        /\ list[k].report = x.report /\ list[k].moved = y
    BY <2>1, <2>2, <2>3 DEF Over
  <2> QED BY <2>2, <2>4, <2>5 DEF x, y
<1> QED BY <1>1, <1>3, <1>4 DEF list

\* Two rankings of the same strategies put each place of the one at one place of the
\* other.
PlacesIn(previous, list) == [k \in 1..Len(list) |-> Before(previous)[list[k].strategy]]

LEMMA PlacesPermute ==
  ASSUME EntriesInv, NEW previous, IsRanking(previous)
  PROVE  /\ DOMAIN Before(previous) = DoneSet
         /\ Permutes(PlacesIn(previous, Top), Len(Top))
<1> DEFINE m == Len(Top)
           q == Len(previous)
           T == [rank : Nat, strategy : DoneSet, report : Reports]
           was == Before(previous)
           p == PlacesIn(previous, Top)
<1>1. Top \in Seq(T) /\ ListsDone(Top)
  BY TopLists
<1>2. previous \in Seq(Ranked) /\ ListsDone(previous)
  BY DEF IsRanking
<1>3. /\ m \in Nat /\ q \in Nat /\ DOMAIN previous = 1..q
      /\ \A k \in 1..m : Top[k].strategy \in DoneSet
      /\ \A k \in 1..q : previous[k].strategy \in DoneSet
  <2>1. m \in Nat /\ \A k \in 1..m : Top[k] \in T
    <3> HIDE DEF T
    <3> QED BY <1>1
  <2>2. q \in Nat /\ DOMAIN previous = 1..q /\ \A k \in 1..q : previous[k] \in Ranked
    BY <1>2
  <2> QED BY <2>1, <2>2 DEF Ranked
<1>4. /\ \A s \in DoneSet : \E k \in 1..m : Top[k].strategy = s
      /\ \A i, j \in 1..m : Top[i].strategy = Top[j].strategy => i = j
      /\ \A s \in DoneSet : \E k \in 1..q : previous[k].strategy = s
      /\ \A i, j \in 1..q : previous[i].strategy = previous[j].strategy => i = j
  BY <1>1, <1>2 DEF ListsDone
<1> HIDE DEF m, q
<1>5. {previous[k].strategy : k \in DOMAIN previous} = DoneSet
  BY <1>3, <1>4
<1>6. DOMAIN was = DoneSet
  BY <1>5 DEF Before
<1>7. \A s \in DoneSet : was[s] \in 1..q /\ previous[was[s]].strategy = s
  <2> SUFFICES ASSUME NEW s \in DoneSet
               PROVE  was[s] \in 1..q /\ previous[was[s]].strategy = s
    OBVIOUS
  <2>1. was[s] = CHOOSE k \in DOMAIN previous : previous[k].strategy = s
    BY <1>5 DEF Before
  <2>2. \E k \in DOMAIN previous : previous[k].strategy = s
    BY <1>3, <1>4
  <2> QED BY <1>3, <2>1, <2>2
<1>8. DOMAIN p = 1..m /\ \A k \in 1..m : p[k] = was[Top[k].strategy]
  BY DEF PlacesIn, m
<1> HIDE DEF was
<1>9. \A k \in 1..m : p[k] \in 1..q /\ previous[p[k]].strategy = Top[k].strategy
  BY <1>3, <1>7, <1>8
<1>10. p \in [1..m -> 1..q]
  <2>1. p = [k \in 1..m |-> p[k]]
    BY DEF PlacesIn, m
  <2> HIDE DEF p
  <2> QED BY <1>9, <2>1
<1> HIDE DEF p
<1>11. \A i, j \in 1..m : p[i] = p[j] => i = j
  BY <1>4, <1>9
<1>12. \A x \in 1..q : \E k \in 1..m : p[k] = x
  <2> SUFFICES ASSUME NEW x \in 1..q PROVE \E k \in 1..m : p[k] = x
    OBVIOUS
  <2>1. PICK k \in 1..m : Top[k].strategy = previous[x].strategy
    BY <1>3, <1>4
  <2>2. p[k] \in 1..q /\ previous[p[k]].strategy = previous[x].strategy
    BY <1>9, <2>1
  <2> QED BY <1>4, <2>2
<1>13. m <= q
  BY <1>3, <1>10, <1>11, FewPlaces
<1>14. q <= m
  <2> DEFINE back == [x \in 1..q |-> CHOOSE k \in 1..m : p[k] = x]
  <2>1. \A x \in 1..q : back[x] \in 1..m /\ p[back[x]] = x
    BY <1>12
  <2>2. back \in [1..q -> 1..m]
    BY <2>1
  <2> HIDE DEF back
  <2>3. \A i, j \in 1..q : back[i] = back[j] => i = j
    BY <2>1
  <2> QED BY <1>3, <2>2, <2>3, FewPlaces
<1>15. m = q
  BY <1>3, <1>13, <1>14
<1> QED BY <1>6, <1>10, <1>11, <1>12, <1>15 DEF Permutes, m, p, was

\* The moves of a ranking: none of a first one, and else those of a permutation.
LEMMA MovesCancel ==
  ASSUME EntriesInv, NEW previous, previous = <<>> \/ IsRanking(previous)
  PROVE  LET moves == [k \in 1..Len(Top) |-> Moved(Top[k], Before(previous))]
         IN  moves \in Seq(Int) /\ Len(moves) = Len(Top) /\ Total(moves) = 0
<1> DEFINE m == Len(Top)
           T == [rank : Nat, strategy : DoneSet, report : Reports]
           was == Before(previous)
           moves == [k \in 1..m |-> Moved(Top[k], was)]
<1>1. Top \in Seq(T) /\ \A k \in 1..m : Top[k].rank = k
  BY TopLists
<1>2. m \in Nat /\ \A k \in 1..m : Top[k].strategy \in DoneSet /\ Top[k].rank = k
  <2>1. m \in Nat /\ \A k \in 1..m : Top[k] \in T
    <3> HIDE DEF T
    <3> QED BY <1>1
  <2> QED BY <1>1, <2>1
<1> HIDE DEF m
<1>3. CASE previous = <<>>
  <2>1. DOMAIN was = {}
    BY <1>3 DEF Before
  <2> HIDE DEF was
  <2>2. \A k \in 1..m : moves[k] = 0
    BY <2>1 DEF Moved
  <2>3. DOMAIN moves = 1..m
    OBVIOUS
  <2>4. moves \in [1..m -> Int]
    BY <2>2
  <2> HIDE DEF moves
  <2>5. moves \in Seq(Int) /\ Len(moves) = m
    BY <1>2, <2>3, <2>4
  <2>6. Total(moves) = 0
    BY <2>2, <2>5, TotalOfZeros
  <2> QED BY <2>5, <2>6 DEF moves, was, m
<1>4. CASE IsRanking(previous)
  <2> DEFINE p == PlacesIn(previous, Top)
  <2>1. DOMAIN was = DoneSet /\ Permutes(p, m)
    BY <1>4, PlacesPermute DEF m
  <2>2. \A k \in 1..m : p[k] = was[Top[k].strategy]
    BY DEF PlacesIn, m
  <2> HIDE DEF was, p
  <2>3. p \in [1..m -> 1..m] /\ \A k \in 1..m : p[k] \in Int
    BY <1>2, <2>1 DEF Permutes
  <2>4. \A k \in 1..m : moves[k] = p[k] - k /\ moves[k] \in Int
    BY <1>2, <2>1, <2>2, <2>3 DEF Moved
  <2>5. DOMAIN moves = 1..m
    OBVIOUS
  <2>6. moves \in [1..m -> Int]
    BY <2>4
  <2> HIDE DEF moves
  <2>7. moves \in Seq(Int) /\ Len(moves) = m
    BY <1>2, <2>5, <2>6
  <2>8. p \in Seq(Int) /\ Len(p) = m
    <3>1. p \in [1..m -> Int]
      BY <2>3
    <3> QED BY <1>2, <3>1
  <2>9. Upto(m) \in Seq(Int) /\ Len(Upto(m)) = m /\ \A k \in 1..m : Upto(m)[k] = k
    <3>1. Upto(m) \in [1..m -> Int]
      BY <1>2 DEF Upto
    <3>2. \A k \in 1..m : Upto(m)[k] = k
      BY DEF Upto
    <3> QED BY <1>2, <3>1, <3>2
  <2>10. \A k \in 1..Len(moves) : p[k] = moves[k] + Upto(m)[k]
    BY <1>2, <2>3, <2>4, <2>7, <2>9
  <2>11. Total(p) = Total(moves) + Total(Upto(m))
    BY <2>7, <2>8, <2>9, <2>10, TotalOfBoth
  <2>12. Total(p) = Total(Upto(m))
    BY <1>2, <2>1, TotalOfPermutation
  <2>13. Total(moves) \in Int /\ Total(Upto(m)) \in Int
    BY <2>7, <2>9, TotalIsInt
  <2> QED BY <2>7, <2>11, <2>12, <2>13 DEF moves, was, m
<1> QED BY <1>3, <1>4

LEMMA RankingIsMade ==
  ASSUME EntriesInv, NEW previous, previous = <<>> \/ IsRanking(previous)
  PROVE  IsRanking(NewRanking(previous)) /\ IsFresh(NewRanking(previous))
<1> DEFINE m == Len(Top)
           list == NewRanking(previous)
           T == [rank : Nat, strategy : DoneSet, report : Reports]
           moves == [k \in 1..m |-> Moved(Top[k], Before(previous))]
<1>1. /\ DOMAIN list = 1..m /\ m \in Nat
      /\ \A k \in 1..m :
           /\ list[k].rank = k
           /\ list[k].strategy = Top[k].strategy
           /\ list[k].report = Top[k].report
           /\ list[k].moved = Moved(Top[k], Before(previous))
           /\ DOMAIN list[k] = {"rank", "strategy", "report", "moved"}
  BY NewRankingIs
<1>2. /\ Top \in Seq(T) /\ ListsDone(Top) /\ IsCurrent(Top) /\ GradesFall(Top)
      /\ \A k \in 1..m : Top[k].rank = k
  BY TopLists
<1>3. moves \in Seq(Int) /\ Len(moves) = m /\ Total(moves) = 0
  BY MovesCancel
<1>4. \A k \in 1..m : Top[k] \in T
  <2> HIDE DEF T
  <2> QED BY <1>2
<1>5. \A k \in 1..m : moves[k] \in Int /\ moves[k] = list[k].moved
  <2>1. \A k \in 1..m : moves[k] = list[k].moved
    BY <1>1
  <2> HIDE DEF moves, list
  <2> QED BY <1>3, <2>1
<1>6. DOMAIN moves = 1..m /\ moves = [k \in DOMAIN list |-> list[k].moved]
  BY <1>1
<1>7. \E body : list = [k \in 1..m |-> body[k]]
  <2>1. list = [k \in DOMAIN list |-> list[k]]
    BY DEF NewRanking
  <2> QED BY <1>1, <2>1
<1>8. \A k \in 1..m : \E body : list[k] = [x \in DOMAIN body |-> body[x]]
  <2> SUFFICES ASSUME NEW k \in 1..m
               PROVE  list[k] = [x \in DOMAIN list[k] |-> list[k][x]]
    BY Zenon
  <2> DEFINE x == TopN(Reported, Len(Strategies), FALSE)
  <2>1. list = [i \in DOMAIN x |-> Over(x[i], [moved |-> Moved(x[i], Before(previous))])]
    BY DEF NewRanking, Before
  <2> HIDE DEF x
  <2>2. k \in DOMAIN x
    BY <1>1, <2>1
  <2>3. list[k] = Over(x[k], [moved |-> Moved(x[k], Before(previous))])
    BY <2>1, <2>2
  <2> HIDE DEF list
  <2> QED BY <2>3 DEF Over
<1> HIDE DEF list, moves, m
<1>9. \A k \in 1..m : list[k] \in Ranked
  <2> SUFFICES ASSUME NEW k \in 1..m PROVE list[k] \in Ranked
    OBVIOUS
  <2> DEFINE e == list[k]
  <2>1. /\ e.rank \in Nat /\ e.strategy \in DoneSet /\ e.report \in Reports /\ e.moved \in Int
        /\ DOMAIN e = {"rank", "strategy", "report", "moved"}
    BY <1>1, <1>4, <1>5
  <2>2. e = [x \in DOMAIN e |-> e[x]]
    BY <1>8
  <2> HIDE DEF e
  <2>3. e = [rank |-> e.rank, strategy |-> e.strategy, report |-> e.report, moved |-> e.moved]
    BY <2>1, <2>2
  <2>4. e \in Ranked
    BY <2>1, <2>3 DEF Ranked
  <2> QED BY <2>4 DEF e
<1>10. list \in Seq(Ranked) /\ Len(list) = m
  <2>1. list \in [1..m -> Ranked]
    BY <1>7, <1>9
  <2> QED BY <1>1, <2>1
<1>11. ListsDone(list)
  BY <1>1, <1>2, <1>10 DEF ListsDone, m
<1>12. IsCurrent(list)
  BY <1>1, <1>2, <1>10 DEF IsCurrent, m
<1>13. GradesFall(list)
  BY <1>1, <1>2, <1>10 DEF GradesFall, m
<1>14. IsRanking(list)
  BY <1>1, <1>10, <1>11 DEF IsRanking
<1>15. IsFresh(list)
  BY <1>3, <1>6, <1>12, <1>13 DEF IsFresh
<1> QED BY <1>14, <1>15 DEF list

\* A result does not disappear, so a ranking remains one.
LEMMA SameDone ==
  ASSUME \A s \in Range(Strategies) : Done(entry'[s]) <=> Done(entry[s])
  PROVE  DoneSet' = DoneSet /\ \A list : IsRanking(list)' <=> IsRanking(list)
<1>1. DoneSet' = DoneSet
  BY DEF DoneSet
<1>2. Ranked' = Ranked
  BY <1>1 DEF Ranked
<1>3. \A list : ListsDone(list)' <=> ListsDone(list)
  BY <1>1 DEF ListsDone
<1> QED BY <1>1, <1>2, <1>3 DEF IsRanking

LEMMA RankingStays ==
  ASSUME RankingInv, UNCHANGED <<entry, ranking>>, validations' \in Seq(Validation),
         \/ pc' = pc
         \/ pc' \notin {"over", "ticked"}
  PROVE  RankingInv'
<1>1. IsRanking(ranking)' <=> IsRanking(ranking)
  BY SameDone
<1>2. IsFresh(ranking)' <=> IsFresh(ranking)
  BY DEF IsFresh, IsCurrent, GradesFall
<1> QED BY <1>1, <1>2 DEF RankingInv, Validation

LEMMA MakeRankingStep ==
  ASSUME EntriesInv, RankingInv, UNCHANGED <<entry, validations>>,
         NEW previous, previous = <<>> \/ IsRanking(previous),
         ranking' = NewRanking(previous)
  PROVE  RankingInv'
<1> DEFINE list == NewRanking(previous)
<1>1. IsRanking(list) /\ IsFresh(list)
  BY RankingIsMade
<1>2. ranking' = list
  OBVIOUS
<1> HIDE DEF list
<1>3. IsRanking(ranking)'
  <2>1. DoneSet' = DoneSet
    BY DEF DoneSet
  <2>2. Ranked' = Ranked
    BY <2>1 DEF Ranked
  <2> QED BY <1>1, <1>2, <2>1, <2>2 DEF IsRanking, ListsDone
<1>4. IsFresh(ranking)'
  BY <1>1, <1>2 DEF IsFresh, IsCurrent, GradesFall
<1> QED BY <1>3, <1>4 DEF RankingInv, Validation

LEMMA TickRanking ==
  ASSUME EntriesInv, RankingInv, NEW s \in Range(Strategies), NEW report \in Reports,
         Tick(s, report)
  PROVE  RankingInv'
<1>1. /\ pc = "over" /\ pc' = "ticked" /\ UNCHANGED <<ranking, validations>>
      /\ Done(entry[s]) /\ entry' = [entry EXCEPT ![s] = Refreshed(@, report)]
      /\ DOMAIN entry = Range(Strategies)
  BY DEF Tick, EntriesInv
<1>2. Done(entry'[s])
  <2>1. IsEntry(entry[s]) /\ entry'[s] = Refreshed(entry[s], report)
    BY <1>1 DEF EntriesInv
  <2>2. Refreshed(entry[s], report).status = "live"
    BY <2>1 DEF Refreshed, IsEntry
  <2> QED BY <2>1, <2>2 DEF Done
<1>3. \A t \in Range(Strategies) : Done(entry'[t]) <=> Done(entry[t])
  BY <1>1, <1>2
<1>4. IsRanking(ranking)' <=> IsRanking(ranking)
  <2>1. DoneSet' = DoneSet
    BY <1>3 DEF DoneSet
  <2>2. Ranked' = Ranked
    BY <2>1 DEF Ranked
  <2> QED BY <1>1, <2>1, <2>2 DEF IsRanking, ListsDone
<1> QED BY <1>1, <1>4 DEF RankingInv, Validation

\* A validation is stored in its place or at the end.
LEMMA ValidateRanking ==
  ASSUME RankingInv, NEW s \in Range(Strategies), NEW id \in 1..2, NEW at \in 1..2,
         Validate(s, id, at)
  PROVE  RankingInv'
<1> DEFINE v == [id |-> id, strategy |-> s, at |-> at]
<1>1. /\ UNCHANGED <<pc, entry, ranking>> /\ validations' = SaveValidation(validations, v)
      /\ validations \in Seq(Validation)
  BY DEF Validate, RankingInv
<1>2. v \in Validation
  BY DEF Validation
<1> HIDE DEF v
<1>3. CASE \E i \in DOMAIN validations : validations[i].id = v.id
  <2>1. validations' = [i \in DOMAIN validations |->
                          IF validations[i].id = v.id THEN v ELSE validations[i]]
    BY <1>1, <1>3 DEF SaveValidation
  <2>2. /\ DOMAIN validations = 1..Len(validations) /\ Len(validations) \in Nat
        /\ \A i \in 1..Len(validations) : validations[i] \in Validation
    BY <1>1
  <2>3. validations' \in [1..Len(validations) -> Validation]
    BY <1>2, <2>1, <2>2
  <2>4. validations' \in Seq(Validation)
    BY <2>2, <2>3
  <2> QED BY <1>1, <2>4, RankingStays
<1>4. CASE ~\E i \in DOMAIN validations : validations[i].id = v.id
  <2>1. validations' = Append(validations, v)
    BY <1>1, <1>4 DEF SaveValidation
  <2>2. validations' \in Seq(Validation)
    BY <1>1, <1>2, <2>1
  <2> QED BY <1>1, <2>2, RankingStays
<1> QED BY <1>3, <1>4

LEMMA RankingStep ==
  ASSUME EntriesInv, RankingInv, [SearchNext]_searchVars
  PROVE  RankingInv'
<1>1. ASSUME pc \notin {"over", "ticked"}, pc' \notin {"over", "ticked"},
             UNCHANGED <<validations>>
      PROVE  RankingInv'
  BY <1>1 DEF RankingInv, Validation
<1>2. CASE TakeUp
  BY <1>1, <1>2 DEF TakeUp
<1>3. CASE Leave
  BY <1>1, <1>3 DEF Leave
<1>4. CASE Iterate
  BY <1>1, <1>4 DEF Iterate
<1>5. CASE EndSearch
  BY <1>1, <1>5 DEF EndSearch
<1>6. CASE Decide
  BY <1>1, <1>6 DEF Decide, Concluded
<1>7. CASE Complete \/ Single \/ StrategyFails \/ BreakOff
  BY <1>1, <1>7 DEF Complete, Single, StrategyFails, BreakOff, Concluded
<1>8. CASE Rank
  BY <1>8, MakeRankingStep DEF Rank
<1>9. CASE RefreshRanking
  <2>1. /\ UNCHANGED <<entry, validations>> /\ ranking' = NewRanking(ranking)
        /\ IsRanking(ranking)
    BY <1>9 DEF RefreshRanking, RankingInv
  <2> QED BY <2>1, MakeRankingStep
<1>10. ASSUME NEW s \in Range(Strategies), NEW id \in 1..2, NEW at \in 1..2,
              Validate(s, id, at)
       PROVE  RankingInv'
  BY <1>10, ValidateRanking
<1>11. ASSUME NEW s \in Range(Strategies), NEW report \in Reports, Tick(s, report)
       PROVE  RankingInv'
  BY <1>11, TickRanking
<1>12. CASE StopRequest
  BY <1>1, <1>12 DEF StopRequest
<1>13. CASE UNCHANGED searchVars
  <2>1. validations' \in Seq(Validation)
    BY <1>13 DEF searchVars, RankingInv
  <2> QED BY <1>13, <2>1, RankingStays DEF searchVars
<1> QED
  BY <1>2, <1>3, <1>4, <1>5, <1>6, <1>7, <1>8, <1>9, <1>10, <1>11, <1>12, <1>13
  DEF SearchNext

LEMMA RankingInvariant == SearchSpec => []RankingInv
<1>1. SearchInit => RankingInv
  BY DEF SearchInit, RankingInv
<1>2. EntriesInv /\ RankingInv /\ [SearchNext]_searchVars => RankingInv'
  BY RankingStep
<1> QED BY <1>1, <1>2, EntriesInvariant, PTL DEF SearchSpec

\* What latest_validation_by_strategy looks for.
IsLatest(shown, store, s) ==
  LET own == {i \in DOMAIN store : store[i].strategy = s}
  IN  IF own = {} THEN shown = NoReport
      ELSE /\ \E i \in own : store[i] = shown
           /\ \A i \in own : store[i].at <= shown.at

Newer(latest, v) == IF v.at >= latest.at THEN v ELSE latest

IsLatestLog(f, list) ==
  /\ f \in [0..(Len(list) - 1) -> Validation]
  /\ f[0] = list[1]
  /\ \A k \in 1..(Len(list) - 1) : f[k] = Newer(f[k - 1], list[k + 1])
  /\ FoldLeft(Newer, Head(list), Tail(list)) = f[Len(list) - 1]

LEMMA LatestUnroll ==
  ASSUME NEW list \in Seq(Validation), list # <<>>
  PROVE  \E f : IsLatestLog(f, list)
<1> DEFINE rest == Tail(list)
           n == Len(rest)
           base == list[1]
           D == Validation
           g == [k \in 1..n |-> [o \in D |-> Newer(o, rest[k])]]
           R(it) == it = [S \in SUBSET (1..n) |->
                            IF S = {} THEN base
                            ELSE Newer(it[S \ {Max(S)}], rest[Max(S)])]
           t == CHOOSE it : R(it)
           f == [k \in 0..n |-> t[1..k]]
<1>1. /\ rest \in Seq(Validation) /\ n = Len(list) - 1 /\ n \in Nat /\ DOMAIN rest = 1..n
      /\ base \in D /\ Head(list) = base
      /\ \A k \in 1..n : rest[k] = list[k + 1] /\ rest[k] \in D
  <2>1. rest \in Seq(Validation) /\ n = Len(list) - 1 /\ n \in Nat /\ DOMAIN rest = 1..n
    OBVIOUS
  <2>2. base \in D /\ Head(list) = base
    OBVIOUS
  <2>3. \A k \in 1..n : rest[k] = list[k + 1] /\ rest[k] \in D
    OBVIOUS
  <2> QED BY <2>1, <2>2, <2>3
<1>2. \A o \in D : \A k \in 1..n : Newer(o, rest[k]) \in D
  BY <1>1 DEF Newer
<1>3. FoldLeft(Newer, base, rest) = t[1..n]
  <2> HIDE DEF base
  <2> QED BY <1>1 DEF FoldLeft, MapThenFoldSet
<1> HIDE DEF rest, n, base, D
<1>4. g \in [1..n -> [D -> D]]
  BY <1>2
<1>5. \A o \in D : \A k \in 1..n : g[k][o] = Newer(o, rest[k])
  OBVIOUS
<1> HIDE DEF g, t
<1>6. \E it : R(it) /\ it \in [SUBSET (1..n) -> D]
  <2>1. PICK it : IsFold(it, n, D, base, g)
    BY <1>1, <1>4, FoldExists
  <2>2. /\ it \in [SUBSET (1..n) -> D]
        /\ \A S \in SUBSET (1..n) :
             it[S] = IF S = {} THEN base ELSE g[Max(S)][it[S \ {Max(S)}]]
    BY <2>1 DEF IsFold
  <2>3. ASSUME NEW S \in SUBSET (1..n), S # {}
        PROVE  it[S] = Newer(it[S \ {Max(S)}], rest[Max(S)])
    <3>1. Max(S) \in 1..n
      BY <1>1, <2>3, FoldPlaces
    <3>2. it[S \ {Max(S)}] \in D
      BY <2>2
    <3> QED BY <1>5, <2>2, <2>3, <3>1, <3>2
  <2>4. it = [S \in SUBSET (1..n) |->
                IF S = {} THEN base ELSE Newer(it[S \ {Max(S)}], rest[Max(S)])]
    BY <2>2, <2>3
  <2> QED BY <2>2, <2>4
<1>7. R(t)
  BY <1>6 DEF t
<1>8. f[0] = base
  <2>1. 1..0 = {}
    OBVIOUS
  <2>2. t[{}] = base
    BY <1>7
  <2> QED BY <1>1, <2>1, <2>2
<1>9. ASSUME NEW k \in 1..n PROVE f[k] = Newer(f[k - 1], rest[k])
  <2>1. Max(1..k) = k /\ (1..k) \ {k} = 1..(k - 1) /\ 1..k # {}
    <3>1. k \in Nat \ {0}
      BY <1>1
    <3> HIDE DEF f, R
    <3> QED BY <3>1, PrefixMax
  <2>2. 1..k \in SUBSET (1..n)
    BY <1>1
  <2>3. t[1..k] = Newer(t[(1..k) \ {Max(1..k)}], rest[Max(1..k)])
    BY <1>7, <2>1, <2>2
  <2>4. f[k] = t[1..k] /\ f[k - 1] = t[1..(k - 1)]
    BY <1>1
  <2> HIDE DEF f, R
  <2> QED BY <2>1, <2>3, <2>4
<1>10. f[n] = t[1..n] /\ DOMAIN f = 0..n /\ f = [k \in 0..n |-> f[k]]
  BY <1>1
<1> HIDE DEF f, R
<1>11. \A k \in 0..n : f[k] \in D
  <2> DEFINE G == {k \in 0..n : f[k] \in D}
  <2>1. 0 \in G
    BY <1>1, <1>8
  <2>2. ASSUME NEW k \in 1..n, k - 1 \in G PROVE k \in G
    <3>1. f[k - 1] \in D
      BY <2>2
    <3>2. f[k] \in D
      BY <1>2, <1>9, <3>1
    <3> QED BY <1>1, <3>2
  <2> HIDE DEF G
  <2>3. \A k \in 0..n : k \in G
    BY <1>1, <2>1, <2>2, PrefixInduction
  <2> QED BY <2>3 DEF G
<1>12. f \in [0..n -> D]
  BY <1>10, <1>11
<1> HIDE DEF t
<1>13. /\ f \in [0..(Len(list) - 1) -> Validation] /\ f[0] = list[1]
       /\ FoldLeft(Newer, Head(list), Tail(list)) = f[Len(list) - 1]
  BY <1>1, <1>3, <1>8, <1>10, <1>12 DEF base, D, rest
<1>14. \A k \in 1..(Len(list) - 1) : f[k] = Newer(f[k - 1], list[k + 1])
  BY <1>1, <1>9
<1> QED BY <1>13, <1>14 DEF IsLatestLog

\* The last of the latest ones of a list, found by going through it.
LEMMA LatestOfList ==
  ASSUME NEW list \in Seq(Validation), list # <<>>
  PROVE  LET shown == FoldLeft(Newer, Head(list), Tail(list))
         IN  /\ \E i \in 1..Len(list) : list[i] = shown
             /\ \A i \in 1..Len(list) : list[i].at <= shown.at
<1> DEFINE n == Len(list) - 1
           Found(x, k) == /\ \E i \in 1..(k + 1) : list[i] = x
                          /\ \A i \in 1..(k + 1) : list[i].at <= x.at
<1>1. n \in Nat /\ Len(list) = n + 1 /\ \A i \in 1..(n + 1) : list[i] \in Validation
  OBVIOUS
<1>2. PICK f : IsLatestLog(f, list)
  BY LatestUnroll
<1>3. /\ f \in [0..n -> Validation] /\ f[0] = list[1]
      /\ \A k \in 1..n : f[k] = Newer(f[k - 1], list[k + 1])
      /\ FoldLeft(Newer, Head(list), Tail(list)) = f[n]
  BY <1>2 DEF IsLatestLog
<1> HIDE DEF n
<1>4. /\ \A i \in 1..(n + 1) : list[i].at \in Int
      /\ \A k \in 0..n : f[k].at \in Int
  BY <1>1, <1>3 DEF Validation
<1> DEFINE G == {k \in 0..n : Found(f[k], k)}
<1>5. 0 \in G
  <2>1. 1..(0 + 1) = {1} /\ 1 \in 1..(n + 1)
    BY <1>1
  <2>2. list[1].at <= list[1].at
    BY <1>4, <2>1
  <2>3. Found(f[0], 0)
    BY <1>3, <2>1, <2>2
  <2> QED BY <1>1, <2>3
<1>6. ASSUME NEW k \in 1..n, k - 1 \in G PROVE k \in G
  <2> DEFINE x == f[k - 1]
             v == list[k + 1]
  <2>1. k - 1 \in 0..n /\ k \in 0..n /\ k + 1 \in 1..(n + 1) /\ (k - 1) + 1 = k
    BY <1>1
  <2>2. f[k] = (IF v.at >= x.at THEN v ELSE x) /\ v.at \in Int /\ x.at \in Int
    BY <1>3, <1>4, <2>1 DEF Newer
  <2>3. (\E i \in 1..k : list[i] = x) /\ \A i \in 1..k : list[i].at <= x.at
    BY <1>6, <2>1
  <2>4. 1..(k + 1) = 1..k \cup {k + 1} /\ 1..k \subseteq 1..(n + 1)
    BY <1>1, <2>1
  <2> HIDE DEF x, G
  <2>5. CASE v.at >= x.at
    <3>1. f[k] = list[k + 1]
      BY <2>2, <2>5
    <3>2. \A i \in 1..(k + 1) : list[i].at <= v.at
      BY <1>4, <2>2, <2>3, <2>4, <2>5
    <3>3. Found(f[k], k)
      BY <2>4, <3>1, <3>2
    <3> QED BY <2>1, <3>3 DEF G
  <2>6. CASE ~(v.at >= x.at)
    <3>1. f[k] = x
      BY <2>2, <2>6
    <3>2. \A i \in 1..(k + 1) : list[i].at <= x.at
      BY <1>4, <2>2, <2>3, <2>4, <2>6
    <3>3. Found(f[k], k)
      BY <2>3, <2>4, <3>1, <3>2
    <3> QED BY <2>1, <3>3 DEF G
  <2> QED BY <2>5, <2>6
<1> HIDE DEF G
<1>7. \A k \in 0..n : k \in G
  BY <1>1, <1>5, <1>6, PrefixInduction
<1>8. Found(f[n], n)
  BY <1>1, <1>7 DEF G
<1> QED BY <1>1, <1>3, <1>8

\* The validation that is shown is the latest of its strategy.
LEMMA LatestIsLatest ==
  ASSUME NEW store \in Seq(Validation), NEW s
  PROVE  IsLatest(LatestValidation(store, s), store, s)
<1> DEFINE S == {v \in Range(store) : v.strategy = s}
           list == Kept(store, S)
           own == {i \in DOMAIN store : store[i].strategy = s}
           shown == LatestValidation(store, s)
<1>1. /\ list \in Seq(Validation)
      /\ \E at \in [DOMAIN list -> DOMAIN store] :
           /\ \A i \in DOMAIN list : list[i] = store[at[i]] /\ store[at[i]] \in S
           /\ \A i \in DOMAIN store : store[i] \in S => \E j \in DOMAIN list : at[j] = i
  <2> HIDE DEF S
  <2>1. /\ list \in Seq(Validation)
        /\ \E at \in [DOMAIN list -> DOMAIN store] :
             /\ \A i \in DOMAIN list : list[i] = store[at[i]] /\ store[at[i]] \in S
             /\ \A i \in DOMAIN store : store[i] \in S => \E j \in DOMAIN list : at[j] = i
             /\ \A i, j \in DOMAIN list : i < j => at[i] < at[j]
    BY KeptProperties
  <2> HIDE DEF list
  <2> QED BY <2>1
<1>2. \A i \in DOMAIN store : store[i] \in S <=> i \in own
  BY DEF Range
<1>3. shown = IF list = <<>> THEN NoReport ELSE FoldLeft(Newer, Head(list), Tail(list))
  BY DEF LatestValidation, FoldLeft, MapThenFoldSet, Newer
<1> HIDE DEF list, S, shown
<1>4. DOMAIN list = 1..Len(list) /\ Len(list) \in Nat
  BY <1>1
<1>5. PICK at \in [DOMAIN list -> DOMAIN store] :
        /\ \A i \in DOMAIN list : list[i] = store[at[i]] /\ at[i] \in own
        /\ \A i \in own : \E j \in DOMAIN list : at[j] = i
  BY <1>1, <1>2
<1>6. CASE list = <<>>
  <2>1. own = {}
    BY <1>4, <1>5, <1>6
  <2> QED BY <1>3, <1>6, <2>1 DEF IsLatest, shown
<1>7. CASE list # <<>>
  <2>1. /\ \E i \in 1..Len(list) : list[i] = shown
        /\ \A i \in 1..Len(list) : list[i].at <= shown.at
    BY <1>1, <1>3, <1>7, LatestOfList
  <2>2. \E i \in own : store[i] = shown
    BY <1>4, <1>5, <2>1
  <2>3. \A i \in own : store[i].at <= shown.at
    BY <1>4, <1>5, <2>1
  <2> QED BY <2>2, <2>3 DEF IsLatest, shown
<1> QED BY <1>6, <1>7

\* Every completed strategy is ranked once and by its verdict first, the moves of a
\* refreshed ranking cancel each other out, and what is shown beside a strategy is its
\* latest validation (update_dashboard_ranking, build_ranking_review).
THEOREM RankingsAreFair == SearchSpec => []RankingIsFair
<1>1. ASSUME EntriesInv, RankingInv PROVE RankingIsFair
  <2> SUFFICES ASSUME pc = "over" PROVE RankingIsFair
    BY DEF RankingIsFair
  <2> DEFINE n == Len(ranking)
  <2>1. /\ ranking \in Seq(Ranked) /\ ListsDone(ranking) /\ IsCurrent(ranking)
        /\ GradesFall(ranking) /\ \A k \in 1..n : ranking[k].rank = k
        /\ Total([k \in DOMAIN ranking |-> ranking[k].moved]) = 0
        /\ validations \in Seq(Validation)
    BY <1>1 DEF RankingInv, IsRanking, IsFresh
  <2>2. /\ n \in Nat /\ DOMAIN ranking = 1..n
        /\ \A k \in 1..n : ranking[k].strategy \in DoneSet /\ ranking[k].report \in Reports
    <3>1. n \in Nat /\ DOMAIN ranking = 1..n /\ \A k \in 1..n : ranking[k] \in Ranked
      BY <2>1
    <3> QED BY <3>1 DEF Ranked
  <2> HIDE DEF n
  <2>3. {ranking[k].strategy : k \in DOMAIN ranking} = DoneSet
    BY <2>1, <2>2 DEF ListsDone, n
  <2>4. ASSUME NEW k \in DOMAIN ranking
        PROVE  /\ ranking[k].rank = k
               /\ ranking[k].report = entry[ranking[k].strategy].report
               /\ \A j \in 1..(k - 1) :
                    /\ ranking[j].strategy # ranking[k].strategy
                    /\ Grade(ranking[k].report) = "PASS" => Grade(ranking[j].report) = "PASS"
                    /\ Grade(ranking[j].report) = "FAIL" => Grade(ranking[k].report) = "FAIL"
    <3>1. ranking[k].rank = k /\ ranking[k].report = entry[ranking[k].strategy].report
      BY <2>1, <2>2 DEF IsCurrent, n
    <3>2. ASSUME NEW j \in 1..(k - 1)
          PROVE  /\ ranking[j].strategy # ranking[k].strategy
                 /\ Grade(ranking[k].report) = "PASS" => Grade(ranking[j].report) = "PASS"
                 /\ Grade(ranking[j].report) = "FAIL" => Grade(ranking[k].report) = "FAIL"
      <4>1. j \in 1..n /\ k \in 1..n /\ j < k
        BY <2>2, <2>4
      <4>2. ranking[j].strategy # ranking[k].strategy
        BY <2>1, <4>1 DEF ListsDone, n
      <4> DEFINE x == Grade(ranking[j].report)
                 y == Grade(ranking[k].report)
      <4>3. GradeOrder(y) <= GradeOrder(x)
        BY <2>1, <4>1 DEF GradesFall, n
      <4>4. x \in {"PASS", "CAUTION", "FAIL"} /\ y \in {"PASS", "CAUTION", "FAIL"}
        BY <2>2, <4>1, ReportsArePresent, RankingKeys
      <4> HIDE DEF x, y
      <4>5. (y = "PASS" => x = "PASS") /\ (x = "FAIL" => y = "FAIL")
        BY <4>3, <4>4 DEF GradeOrder
      <4> QED BY <4>2, <4>5 DEF x, y
    <3> QED BY <3>1, <3>2
  <2>5. cursor = Len(Strategies) => progress = 100
    BY <1>1 DEF EntriesInv, Busy
  <2>6. \A s \in Range(Strategies) : entry[s].status # "running"
    BY <1>1 DEF EntriesInv
  <2>7. ASSUME NEW k \in DOMAIN ranking
        PROVE  IsLatest(Review(ranking, validations)[k].validation, validations,
                        ranking[k].strategy)
    <3>1. Review(ranking, validations)[k].validation
            = LatestValidation(validations, ranking[k].strategy)
      BY DEF Review
    <3> QED BY <2>1, <3>1, LatestIsLatest
  <2>8. \A k \in DOMAIN ranking :
          LET shown == Review(ranking, validations)[k].validation
              own == {i \in DOMAIN validations :
                        validations[i].strategy = ranking[k].strategy}
          IN  IF own = {} THEN shown = NoReport
              ELSE /\ \E i \in own : validations[i] = shown
                   /\ \A i \in own : validations[i].at <= shown.at
    BY <2>7 DEF IsLatest
  <2> QED BY <2>1, <2>3, <2>4, <2>5, <2>6, <2>8 DEF RankingIsFair, DoneSet
<1>2. SearchSpec => [](EntriesInv /\ RankingInv)
  BY EntriesInvariant, RankingInvariant, PTL
<1> QED BY <1>1, <1>2, PTL

=============================================================================
