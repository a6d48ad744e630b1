--------------------------- MODULE ParameterSearch ---------------------------
(***************************************************************************)
(* What a run does with its strategies once it has the candles: it takes   *)
(* them one after the other, searches the parameters of those that declare *)
(* choices (RandomSearchExecutionEngine), keeps the best combination in    *)
(* the configuration, and ranks what has been completed.  A stop request   *)
(* may arrive at any moment.                                               *)
(*                                                                         *)
(* The back-test of a combination is Backtest; here it either raises, does *)
(* not trade, or yields any of a few reports.  The files are those of      *)
(* Dashboard and Catalogue.                                                *)
(***************************************************************************)
EXTENDS Ranking

CONSTANTS
  Strategies,          \* the enabled strategies, in the order of the run
  Definitions,         \* of those that are composable: names, params, constraints
  Configured,          \* the parameters each strategy starts with
  Reports,             \* what a back-test may yield
  Modes,               \* the values of optimization_mode, "grid" and "sample"
  Iterations,          \* optimization_iterations
  MaxChoices,          \* the largest number of choices of a parameter
  MaxLater             \* bound on what comes after the run: strategies that go live
                       \* and validation runs stored

Nothing == [params |-> <<>>, report |-> NoReport]

\* What the order of reports takes of MetricsReport: amounts, and ratios with a
\* positive denominator.
Ratio == Int \X (Nat \ {0})
IsReport(r) ==
  /\ {"totalPnl", "deposit", "sharpe", "profitFactor", "vsBuyHold", "consistency",
      "totalReturn", "maxDrawdown", "winRate"} \subseteq DOMAIN r
  /\ r.totalPnl \in Int /\ r.deposit \in Int /\ r.sharpe \in Int
  /\ r.profitFactor \in Ratio /\ r.vsBuyHold \in Ratio /\ r.consistency \in Ratio
  /\ r.totalReturn \in Ratio /\ r.maxDrawdown \in Ratio /\ r.winRate \in Ratio

\* The registry names every strategy once, and a run without any does not begin.
ASSUME SearchAssumption ==
  /\ Strategies \in Seq(Range(Strategies)) /\ Strategies # <<>> /\ IsInjective(Strategies)
  /\ DOMAIN Definitions \subseteq Range(Strategies)
  /\ DOMAIN Configured = Range(Strategies)
  /\ Modes \subseteq {"grid", "sample"}
  /\ Iterations \in Nat \ {0}
  /\ \A report \in Reports : IsReport(report)

VARIABLES
  cursor,              \* the strategies that have been taken up
  mode,                \* optimization_mode of this run
  pc,                  \* where the run is
  chosen,              \* chosen_combinations that are left
  tried,               \* the combinations whose back-test was run
  iterations,          \* iterations_list
  best,                \* best_params and best_metrics
  entry,               \* the strategies on the dashboard
  config,              \* their parameters in config/dashboard.json
  ranking,             \* the ranking on the dashboard
  validations,         \* AnalyticsResultStore
  progress,            \* the pct last written to run-progress.json
  stop                 \* does the stop file exist?

searchVars == <<cursor, mode, pc, chosen, tried, iterations, best, entry, config,
                ranking, validations, progress, stop>>

-----------------------------------------------------------------------------
(* Parameters *)

\* A term of a constraint: a number, a parameter, or a product of them.
TermValue(term, params) == term.times * (IF term.of = "" THEN 1 ELSE params[term.of])

\* check_constraints
Satisfies(c, params) ==
  LET a == TermValue(c.left, params)
      b == TermValue(c.right, params)
  IN  CASE c.op = "<" -> a < b [] c.op = "<=" -> a <= b [] c.op = ">" -> a > b
        [] c.op = ">=" -> a >= b [] c.op = "==" -> a = b [] c.op = "!=" -> a # b

\* resolve_params: what is not given has its default, nothing unknown is given,
\* and a value is one of the choices and within the bounds.
Resolved(d, given) == [p \in DOMAIN d.params |->
                         IF p \in DOMAIN given THEN given[p] ELSE d.params[p].default]
Resolves(d, given) ==
  /\ DOMAIN given \subseteq DOMAIN d.params
  /\ \A p \in DOMAIN d.params :
       LET value == Resolved(d, given)[p]
       IN  /\ d.params[p].choices # <<>> => value \in Range(d.params[p].choices)
           /\ value \in d.params[p].minimum..d.params[p].maximum

\* compile_strategy, as far as it depends on the parameters.
CompilesWith(d, given) ==
  /\ Resolves(d, given)
  /\ \A c \in d.constraints : Satisfies(c, Resolved(d, given))

Searched(d) == {p \in DOMAIN d.params : d.params[p].optimizable /\ d.params[p].choices # <<>>}

\* strategy_supports_optimization
Searchable(s) == s \in DOMAIN Definitions /\ Searched(Definitions[s]) # {}

\* build_optimization_grid: a parameter that is not searched keeps the value it
\* is configured with.
FixedParams(d, base) ==
  [p \in DOMAIN d.params \ Searched(d) |->
     IF p \in DOMAIN base THEN base[p] ELSE d.params[p].default]

\* itertools.product: the combinations, the last parameter changing fastest.
Combinations(d, base) ==
  LET names == Kept(d.names, Searched(d))
      place(p) == CHOOSE i \in DOMAIN names : names[i] = p
      picks == {f \in [DOMAIN names -> 1..MaxChoices] :
                  \A i \in DOMAIN names : f[i] <= Len(d.params[names[i]].choices)}
      before(f, g) == \E i \in DOMAIN names :
                        f[i] < g[i] /\ \A j \in 1..(i - 1) : f[j] = g[j]
      order == SetToSortSeq(picks, before)
  IN  [k \in DOMAIN order |->
        Over(FixedParams(d, base),
             [p \in Searched(d) |-> d.params[p].choices[order[k][place(p)]]])]

\* The combinations of each composable strategy, in the order they are run.
Grid == [s \in DOMAIN Definitions |-> Combinations(Definitions[s], Configured[s])]

\* There are finitely many, and so they can be listed.
ASSUME ListAssumption == \A s \in DOMAIN Definitions : Grid[s] \in Seq(Range(Grid[s]))

\* is_valid_param_combo
ValidCombination(params) ==
  /\ {"fast", "slow"} \subseteq DOMAIN params => params["fast"] < params["slow"]
  /\ {"rsi_buy_min", "rsi_overbought"} \subseteq DOMAIN params =>
       params["rsi_buy_min"] < params["rsi_overbought"]

\* Mutant: the number of iterations limits a grid search as well.
SamplesOfAny(s) ==
  LET all == Grid[s]
  IN  IF Len(all) <= Iterations THEN {all}
      ELSE {[k \in 1..Iterations |-> all[pick[k]]] :
              pick \in {f \in [1..Iterations -> DOMAIN all] : IsInjective(f)}}

\* chosen_combinations: all of them in a grid search, and when there are no more
\* than were asked for; else any sample, which the seed determines.
Samples(s) ==
  LET all == Grid[s]
  IN  IF mode = "grid" \/ Len(all) <= Iterations THEN {all}
      ELSE {[k \in 1..Iterations |-> all[pick[k]]] :
              pick \in {f \in [1..Iterations -> DOMAIN all] : IsInjective(f)}}

-----------------------------------------------------------------------------
(* The run *)

Strategy == Strategies[cursor]
\* round() of a / b: to the even number when in the middle.
Rounded(a, b) ==
  LET q == a \div b
      twice == 2 * (a % b)
  IN  IF twice > b \/ (twice = b /\ q % 2 = 1) THEN q + 1 ELSE q

\* write_run_progress at the start and at the end of a strategy, two steps each.
Percent(step, steps, started) ==
  Max({0, Min({100, IF started THEN Rounded(100 * (2 * step - 1), 2 * steps)
                    ELSE Rounded(100 * step, steps)})})

Skeleton(s, status) ==
  [status |-> status, params |-> Configured[s], report |-> NoReport, top |-> <<>>]

SearchInit ==
  /\ cursor = 0
  /\ mode \in Modes
  /\ pc = "next"
  /\ chosen = <<>>
  /\ tried = {}
  /\ iterations = <<>>
  /\ best = Nothing
  /\ entry = [s \in Range(Strategies) |-> Skeleton(s, "running")]
  /\ config = Configured
  /\ ranking = <<>>
  /\ validations = <<>>
  /\ progress = 0
  /\ stop = FALSE

\* The loop of bootstrap_all: a stop request is looked for before a strategy is
\* taken up, and makes it and the following ones idle.
TakeUp ==
  /\ pc = "next" /\ cursor < Len(Strategies) /\ ~stop
  /\ cursor' = cursor + 1
  /\ LET s == Strategies[cursor + 1]
     IN  /\ entry' = [entry EXCEPT ![s] = Skeleton(s, "running")]
         /\ progress' = Percent(cursor' + cursor, 2 * Len(Strategies), TRUE)
         /\ IF Searchable(s)
            THEN pc' = "search" /\ chosen' \in Samples(s)
            ELSE pc' = "single" /\ chosen' = <<>>
  /\ tried' = {} /\ iterations' = <<>> /\ best' = Nothing
  /\ UNCHANGED <<mode, config, ranking, validations, stop>>

Leave ==
  /\ pc = "next" /\ (cursor = Len(Strategies) \/ stop)
  /\ pc' = "rank"
  /\ entry' = [s \in DOMAIN entry |->
                 IF stop /\ cursor < Len(Strategies) /\ entry[s].status = "running"
                 THEN [entry[s] EXCEPT !.status = "idle"] ELSE entry[s]]
  /\ UNCHANGED <<cursor, mode, chosen, tried, iterations, best, config, ranking,
                 validations, progress, stop>>

\* One pass of the loop of run_optimization.
Invalid ==
  /\ ~ValidCombination(Head(chosen))
  /\ UNCHANGED <<tried, iterations, best>>

\* create_strategy refuses the combination, or its back-test fails or ends
\* without a trade.
Skipped ==
  /\ ValidCombination(Head(chosen))
  /\ \/ /\ ~CompilesWith(Definitions[Strategy], Head(chosen))
        /\ UNCHANGED tried
     \/ /\ CompilesWith(Definitions[Strategy], Head(chosen))
        /\ tried' = tried \cup {Head(chosen)}
  /\ UNCHANGED <<iterations, best>>

\* Mutant: a later combination that is as good replaces the best.
BetterOrEqual(report) == best = Nothing \/ report.totalPnl >= best.report.totalPnl

Better(report) == best = Nothing \/ report.totalPnl > best.report.totalPnl

\* The report of an iteration lacks what takes the chart of the candles.
WithoutChart(report) == [report EXCEPT !.vsBuyHold = <<0, 1>>, !.consistency = <<0, 1>>]

Evaluated(report) ==
  /\ ValidCombination(Head(chosen))
  /\ CompilesWith(Definitions[Strategy], Head(chosen))
  /\ tried' = tried \cup {Head(chosen)}
  /\ LET found == [params |-> Head(chosen), report |-> WithoutChart(report)]
     IN  /\ iterations' = Append(iterations, found)
         /\ best' = IF Better(report) THEN found ELSE best

Iterate ==
  /\ pc = "search" /\ chosen # <<>> /\ ~stop
  /\ Invalid \/ Skipped \/ \E report \in Reports : Evaluated(report)
  /\ chosen' = Tail(chosen)
  /\ UNCHANGED <<cursor, mode, pc, entry, config, ranking, validations, progress, stop>>

\* The combinations are used up, or should_stop breaks the loop.
EndSearch ==
  /\ pc = "search" /\ (chosen = <<>> \/ stop)
  /\ pc' = "decide"
  /\ UNCHANGED <<cursor, mode, chosen, tried, iterations, best, entry, config, ranking,
                 validations, progress, stop>>

\* build_optimization_summary: the five best iterations, best first.
Summary == RankedIterations(iterations, 5)

\* build_strategy_result, which shows the configured parameters in the end.
Completed(report, top) ==
  [status |-> "completed", params |-> Configured[Strategy], report |-> report, top |-> top]

\* The variables of the search do not outlive run_strategy_backtest.
Forgotten == chosen' = <<>> /\ tried' = {} /\ iterations' = <<>> /\ best' = Nothing

\* The end of a strategy: its entry is replaced, and the progress is written.
Concluded(e) ==
  /\ Forgotten
  /\ entry' = [entry EXCEPT ![Strategy] = e]
  /\ progress' = Percent(2 * cursor, 2 * Len(Strategies), FALSE)
  /\ pc' = "next"

\* Mutant: what was found so far is kept as well when the search was stopped.
DecideAnyway ==
  /\ pc = "decide"
  /\ \/ /\ best = Nothing /\ pc' = "single" /\ UNCHANGED config
     \/ /\ best # Nothing /\ pc' = "complete"
        /\ config' = [config EXCEPT ![Strategy] = Over(best.params, @)]
  /\ UNCHANGED <<cursor, mode, chosen, tried, iterations, best, entry, ranking,
                 validations, progress, stop>>

\* run_strategy_backtest after the search.  A stop request discards it; without a
\* best combination the configured parameters are run; else the best ones are
\* written to the configuration, before there is a result.
Decide ==
  /\ pc = "decide"
  /\ \/ /\ stop
        /\ Concluded(Skeleton(Strategy, "idle"))
        /\ UNCHANGED config
     \/ /\ ~stop /\ best = Nothing
        /\ pc' = "single"
        /\ UNCHANGED <<chosen, tried, iterations, best, entry, config, progress>>
     \/ /\ ~stop /\ best # Nothing
        /\ pc' = "complete"
        /\ config' = [config EXCEPT ![Strategy] = Over(best.params, @)]
        /\ UNCHANGED <<chosen, tried, iterations, best, entry, progress>>
  /\ UNCHANGED <<cursor, mode, ranking, validations, stop>>

\* The report of the best combination is made again, with the chart, and its entry
\* is given the configured parameters and saved.  A stop request comes too late.
Complete ==
  /\ pc = "complete"
  /\ \E report \in Reports :
       WithoutChart(report) = best.report /\ Concluded(Completed(report, Summary))
  /\ UNCHANGED <<cursor, mode, config, ranking, validations, stop>>

\* A back-test with the configured parameters; a run without trades has a report
\* as well.
Single ==
  /\ pc = "single"
  /\ \E report \in Reports : Concluded(Completed(report, <<>>))
  /\ UNCHANGED <<cursor, mode, config, ranking, validations, stop>>

\* run_strategy_backtest raises: no grid can be built, the configuration cannot be
\* written, a back-test or its metrics fail.  What was written stays.
StrategyFails ==
  /\ pc \in {"search", "decide", "complete", "single"}
  /\ Concluded(Skeleton(Strategy, "error"))
  /\ UNCHANGED <<cursor, mode, config, ranking, validations, stop>>

\* The process is killed, or a save outside the try of the loop raises: the files
\* stay as they are.  (The entries are those last saved.)
BreakOff ==
  /\ pc \notin {"over", "ticked", "broken"}
  /\ pc' = "broken"
  /\ Forgotten
  /\ UNCHANGED <<cursor, mode, entry, config, ranking, validations, progress, stop>>

\* Completed, live_active or not.
Done(e) == e.status \in {"completed", "live"}

\* update_dashboard_ranking, without the deposit as a condition.
Reported == [k \in DOMAIN Strategies |->
              [strategy |-> Strategies[k],
               report |-> IF Done(entry[Strategies[k]])
                          THEN entry[Strategies[k]].report ELSE NoReport]]
NewRanking(previous) ==
  LET ranks == [s \in {previous[k].strategy : k \in DOMAIN previous} |->
                  (CHOOSE k \in DOMAIN previous : previous[k].strategy = s)]
      top == TopN(Reported, Len(Strategies), FALSE)
  IN  [k \in DOMAIN top |-> Over(top[k], [moved |-> Moved(top[k], ranks)])]

\* The end of a run: the dashboard is a new one, without an earlier ranking.
Rank ==
  /\ pc = "rank"
  /\ pc' = "over"
  /\ ranking' = NewRanking(<<>>)
  /\ stop' = FALSE
  /\ UNCHANGED <<cursor, mode, chosen, tried, iterations, best, entry, config,
                 validations, progress>>

\* bestParams: what the interface starts a live run with.
LiveParams(e) == IF e.top = <<>> THEN e.params ELSE e.top[1].params

\* _merge_live_strategy_result: the result and the parameters are new, the table
\* of the search stays.
Refreshed(e, report) ==
  [e EXCEPT !.status = "live", !.report = report, !.params = Over(LiveParams(e), @)]

LiveOnes == {s \in Range(Strategies) : entry[s].status = "live"}

\* A live tick back-tests these parameters on newer candles; the ranking stays
\* until refresh_ranking makes a new one.
Tick(s, report) ==
  /\ pc = "over" /\ Done(entry[s])
  /\ Cardinality(LiveOnes \cup {s}) + Len(validations) <= MaxLater
  /\ pc' = "ticked"
  /\ entry' = [entry EXCEPT ![s] = Refreshed(@, report)]
  /\ UNCHANGED <<cursor, mode, chosen, tried, iterations, best, config, ranking,
                 validations, progress, stop>>

RefreshRanking ==
  /\ pc = "ticked"
  /\ pc' = "over"
  /\ ranking' = NewRanking(ranking)
  /\ UNCHANGED <<cursor, mode, chosen, tried, iterations, best, entry, config,
                 validations, progress, stop>>

\* A later validation of a ranked strategy is stored; ids come back when a run is
\* repeated.
Validate(s, id, at) ==
  /\ pc = "over" /\ Cardinality(LiveOnes) + Len(validations) < MaxLater
  /\ validations' = SaveValidation(validations, [id |-> id, strategy |-> s, at |-> at])
  /\ UNCHANGED <<cursor, mode, pc, chosen, tried, iterations, best, entry, config,
                 ranking, progress, stop>>

StopRequest ==
  /\ ~stop /\ pc \notin {"over", "ticked", "broken"}
  /\ stop' = TRUE
  /\ UNCHANGED <<cursor, mode, pc, chosen, tried, iterations, best, entry, config,
                 ranking, validations, progress>>

SearchNext ==
  \/ TakeUp \/ Leave \/ Iterate \/ EndSearch \/ Decide \/ Complete \/ Single
  \/ StrategyFails \/ BreakOff \/ Rank
  \/ \E s \in Range(Strategies), id, at \in 1..2 : Validate(s, id, at)
  \/ \E s \in Range(Strategies), report \in Reports : Tick(s, report)
  \/ RefreshRanking
  \/ StopRequest

SearchSpec == SearchInit /\ [][SearchNext]_searchVars

-----------------------------------------------------------------------------

\* SearchFindsBest: when a search has gone through its combinations, the best one
\* is one of those that were run, earned the most, and is the first of those that
\* did; what was run is valid and compiles (run_optimization).
SearchFindsBest ==
  pc = "decide" /\ chosen = <<>> =>
    /\ best = Nothing <=> iterations = <<>>
    /\ iterations # <<>> =>
         \E i \in DOMAIN iterations :
           /\ iterations[i] = best
           /\ \A j \in DOMAIN iterations :
                /\ iterations[j].report.totalPnl <= best.report.totalPnl
                /\ j < i => iterations[j].report.totalPnl < best.report.totalPnl
    /\ \A i \in DOMAIN iterations : iterations[i].params \in tried
    /\ \A params \in tried :
         ValidCombination(params) /\ CompilesWith(Definitions[Strategy], params)

\* GridIsExhaustive: a grid search has run every combination that is valid and
\* compiles, whatever the others came to and whatever number of iterations is
\* configured (backtest_config.py: "evaluates every valid parameter combination").
GridIsExhaustive ==
  pc = "decide" /\ chosen = <<>> /\ mode = "grid" =>
    tried = {params \in Range(Grid[Strategy]) :
               ValidCombination(params) /\ CompilesWith(Definitions[Strategy], params)}

\* Is there a combination that could be run whose parameters these are?
FoundFor(s, saved) ==
  /\ s \in DOMAIN Definitions
  /\ \E params \in Range(Grid[s]) :
       /\ ValidCombination(params)
       /\ CompilesWith(Definitions[s], params)
       /\ saved = Over(params, Configured[s])

\* ConfigFollowsResult: the parameters saved for a strategy change only to those of
\* a combination that was run, and by no search that was stopped or found nothing.
\* The write comes before the result: until the strategy is concluded its entry
\* says "running", for ever when the run is broken off there, and "error" when the
\* result could not be made; in every other case the strategy shows the result of
\* a search.  The row of its table that the interface would start a live run from
\* earned as much as the result, and as long as the table has a row for every
\* combination one of them is that of the result and of what was saved
\* (update_config_params, bestParams in frontend/app/page.tsx).
ConfigFollowsResult ==
  /\ \A s \in Range(Strategies) :
       /\ config[s] # Configured[s] =>
            /\ FoundFor(s, config[s])
            /\ \/ Done(entry[s]) /\ entry[s].top # <<>>
               \/ entry[s].status = "error"
               \/ /\ entry[s].status = "running" /\ cursor > 0 /\ s = Strategy
                  /\ pc \in {"complete", "broken"}
       /\ entry[s].status = "completed" /\ entry[s].top # <<>> =>
            /\ entry[s].top[1].report.totalPnl = entry[s].report.totalPnl
            /\ Len(entry[s].top) < 5 =>
                 \E k \in DOMAIN entry[s].top :
                   /\ Over(entry[s].top[k].params, Configured[s]) = config[s]
                   /\ entry[s].top[k].report = WithoutChart(entry[s].report)
       /\ entry[s].status \in {"idle", "error"} => entry[s].report = NoReport
  /\ pc = "complete" =>
       /\ chosen = <<>>
       /\ config[Strategy] = Over(best.params, Configured[Strategy])

\* RankingIsFair: a run ends with every completed strategy ranked once, a better
\* verdict never behind a worse one, the progress at its end unless the run was
\* stopped, and each ranked strategy reviewed by its latest validation.  The moves
\* a refreshed ranking shows cancel each other out.
RankingIsFair ==
  pc = "over" =>
    /\ {ranking[k].strategy : k \in DOMAIN ranking} =
         {s \in Range(Strategies) : Done(entry[s])}
    /\ \A k \in DOMAIN ranking :
         /\ ranking[k].rank = k
         /\ ranking[k].report = entry[ranking[k].strategy].report
         /\ \A j \in 1..(k - 1) :
              /\ ranking[j].strategy # ranking[k].strategy
              /\ Grade(ranking[k].report) = "PASS" => Grade(ranking[j].report) = "PASS"
              /\ Grade(ranking[j].report) = "FAIL" => Grade(ranking[k].report) = "FAIL"
    /\ Total([k \in DOMAIN ranking |-> ranking[k].moved]) = 0
    /\ cursor = Len(Strategies) => progress = 100
    /\ \A s \in Range(Strategies) : entry[s].status # "running"
    /\ \A k \in DOMAIN ranking :
         LET shown == Review(ranking, validations)[k].validation
             own == {i \in DOMAIN validations :
                       validations[i].strategy = ranking[k].strategy}
         IN  IF own = {} THEN shown = NoReport
             ELSE /\ \E i \in own : validations[i] = shown
                  /\ \A i \in own : validations[i].at <= shown.at

=============================================================================
