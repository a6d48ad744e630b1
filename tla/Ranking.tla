------------------------------- MODULE Ranking -------------------------------
(***************************************************************************)
(* analytics/ranking.py, analytics/optimizer.py and analytics/validation.py: *)
(* the order of the strategies on the dashboard, the order of the          *)
(* parameter combinations of one strategy, and the validation runs that    *)
(* are shown beside a ranking.                                             *)
(*                                                                         *)
(* A report has the fields of MetricsReport; its ratios are pairs, as in   *)
(* Metrics.  A sort key is a sequence of numbers, compared from the first; *)
(* a larger key comes first.                                               *)
(***************************************************************************)
EXTENDS Metrics

NoReport == [none |-> TRUE]

\* Whether the key a comes strictly before the key b.
Precedes(a, b) ==
  \E i \in DOMAIN a : a[i] > b[i] /\ \A j \in 1..(i - 1) : a[j] = b[j]

\* A stable sort: the items in the order of their keys, and as listed where the
\* keys are the same; at most n of them.
Best(items, keys, n) ==
  LET key == Computed(keys)
      before(i, j) == Precedes(key[i], key[j]) \/ (key[i] = key[j] /\ i < j)
      order == {p \in (DOMAIN items) \X (DOMAIN items) : before(p[1], p[2])}
  IN  SubSeq(Sorted(items, order), 1, Min({n, Len(items)}))

\* A ratio as a number that keeps the order of those that occur.
Part(ratio) == (ratio[1] * 1000) \div ratio[2]

GradeOrder(grade) == CASE grade = "PASS" -> 2 [] grade = "CAUTION" -> 1 [] grade = "FAIL" -> 0

\* Mutant: profit first, the verdict after it.
RankingKeyByProfit(r) ==
  << r.totalPnl, GradeOrder(Grade(r)), -Cardinality(Flags(r)),
     Part(r.vsBuyHold), Part(r.consistency), Part(r.totalReturn),
     -Part(r.maxDrawdown), r.sharpe >>

\* _ranking_key: the grade, the fewest flags, then the figures behind them.
RankingKey(r) ==
  << GradeOrder(Grade(r)), -Cardinality(Flags(r)), Part(r.profitFactor),
     Part(r.vsBuyHold), Part(r.consistency), Part(r.totalReturn),
     -Part(r.maxDrawdown), r.sharpe >>

\* build_top_n.  items are the strategies with their reports in the order of
\* their names; one without a report is left out.
TopN(items, n, requireAboveBaseline) ==
  LET shown == Kept(items,
        {item \in Range(items) :
           /\ item.report # NoReport
           /\ requireAboveBaseline => item.report.totalPnl > item.report.deposit})
      best == Best(shown, [k \in DOMAIN shown |-> RankingKey(shown[k].report)], n)
  IN  [k \in DOMAIN best |-> [rank |-> k, strategy |-> best[k].strategy,
                              report |-> best[k].report]]

\* ranking_entry_to_dict: a rank is shown as moved only if there was another one.
Moved(entry, previous) ==
  IF entry.strategy \in DOMAIN previous THEN previous[entry.strategy] - entry.rank ELSE 0

\* _optimizer_ranking_key
IterationKey(r) == << r.totalPnl, -Part(r.maxDrawdown), r.sharpe, Part(r.winRate) >>

\* rank_optimizer_results: the iterations [params, report] of one search.
RankedIterations(iterations, n) ==
  LET shown == Kept(iterations, {x \in Range(iterations) : x.report # NoReport})
  IN  Best(shown, [k \in DOMAIN shown |-> IterationKey(shown[k].report)], n)

-----------------------------------------------------------------------------
(* Validation runs: [id, strategy, at], stored by their id *)

\* AnalyticsResultStore.save_validation_metrics: an id that is there already keeps
\* its place and takes the new report.
SaveValidation(store, v) ==
  IF \E i \in DOMAIN store : store[i].id = v.id
  THEN [i \in DOMAIN store |-> IF store[i].id = v.id THEN v ELSE store[i]]
  ELSE Append(store, v)

\* latest_validation_by_strategy: the last one stored among the latest.
LatestValidation(store, strategy) ==
  LET own == Kept(store, {v \in Range(store) : v.strategy = strategy})
      later(latest, v) == IF v.at >= latest.at THEN v ELSE latest
  IN  IF own = <<>> THEN NoReport ELSE FoldLeft(later, Head(own), Tail(own))

\* build_ranking_review: the ranking with the latest validation of each strategy.
Review(ranking, store) ==
  [k \in DOMAIN ranking |->
     [strategy |-> ranking[k].strategy,
      validation |-> LatestValidation(store, ranking[k].strategy)]]

=============================================================================
