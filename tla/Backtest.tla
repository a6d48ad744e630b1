------------------------------- MODULE Backtest -------------------------------
(***************************************************************************)
(* A back-test from end to end: the execution engine (ExecutionEngine)     *)
(* driven by one of the strategies the program can be given (Strategies),  *)
(* and the report that is made of the run (Metrics).                       *)
(*                                                                         *)
(* ExecutionEngine lets every candle answer freely.  Here the answer is    *)
(* that of the chosen strategy, from the closes so far, the account it is  *)
(* shown and what it remembers of its own trade; `free' stands for a       *)
(* strategy that may answer anything.                                      *)
(***************************************************************************)
EXTENDS ExecutionEngine, Metrics, Strategies

CONSTANTS
  Catalogue,           \* the strategies, by name
  Clock                \* the time of day and the weekday of each candle

\* The values of a definition: what the parser and compile_rules leave of it.  A
\* scope that is not given is `always'; percentages are those of a price.
SoundRule(rule) ==
  /\ rule.priority \in Int
  /\ rule.scope \in {"flat", "long", "always"}
  /\ rule.then.do \in {"buy", "sell", "hold", "move_stop"}
  /\ rule.then.do = "buy" =>
       /\ "stopLoss" \in DOMAIN rule.then => rule.then.stopLoss \in Int
       /\ "takeProfit" \in DOMAIN rule.then => rule.then.takeProfit \in Int
  /\ rule.then.do = "move_stop" => rule.then.trailing \in 0..100

\* A series is taken over at least one candle, and looks back.
SoundNode(node) ==
  /\ node.fn \in {"sma", "ema", "rsi", "shift", "diff"}
  /\ node.fn \in {"sma", "ema", "rsi"} => node.period \in Nat \ {0}
  /\ node.fn = "shift" => node.n \in Nat

SoundStrategy(s) ==
  /\ IsFiniteSet(DOMAIN s.nodes) /\ \A id \in DOMAIN s.nodes : SoundNode(s.nodes[id])
  /\ s.rules \in Seq(Range(s.rules))
  /\ \A rule \in Range(s.rules) : SoundRule(rule)

\* A composable strategy that is said to answer like a built-in one.
IsTwin(s, builtIn) ==
  /\ builtIn.kind = "ma_rsi"
  /\ \A name \in {"fast", "slow", "period", "buyMin", "overbought"} :
       name \in DOMAIN builtIn.params /\ builtIn.params[name] \in Nat
  /\ MaRsiAccepts(builtIn.params)
  /\ s.nodes = MaRsiNodes(builtIn.params)
  /\ \E then \in {rule.then : rule \in Range(s.rules)} :
       then.do = "buy" /\ s.rules = MaRsiRules(builtIn.params, then)

ASSUME BacktestAssumption ==
  /\ \A name \in DOMAIN Catalogue :
       Catalogue[name].kind = "composable" =>
         /\ SoundStrategy(Catalogue[name])
         /\ "twinOf" \in DOMAIN Catalogue[name] =>
              IsTwin(Catalogue[name], Catalogue[Catalogue[name].twinOf])
  /\ 0..MaxCandles \subseteq DOMAIN Deposit

VARIABLES
  strategy,            \* the name of the strategy of this run
  closes,              \* the closes of the candles so far
  memory,              \* StrategyState of a composable strategy
  effects,             \* Portfolio.effects
  raised               \* on_candle raised a CompileError: there is no report

backtestVars == <<vars, strategy, closes, memory, effects, raised>>

Chosen == Catalogue[strategy]

\* compile_strategy: there are rules, and every series a condition names is defined.
\* What the series themselves need is not looked at.
SeriesNamed(w) ==
  CASE w.op \in {"gt", "lt", "gte", "lte"} ->
         UNION {IF "series" \in DOMAIN x THEN {x.series} ELSE {} : x \in {w.a, w.b}}
    [] w.op \in {"cross_above", "cross_below"} -> {w.a, w.b}
    [] w.op \in {"rising", "falling"} -> {w.of}
    [] OTHER -> {}
Compiles(s) ==
  /\ s.rules # <<>>
  /\ \A rule \in Range(s.rules) : \A w \in Range(rule.when) :
       SeriesNamed(w) \subseteq DOMAIN s.nodes \union {"price"}

\* topological_order, which precompute asks for at every candle: no series needs
\* itself, or one that is not defined.
Computes(s) == DOMAIN s.nodes \subseteq DOMAIN Precompute(s.nodes, <<>>)

\* create_strategy: what the constructor of the strategy does not refuse.
Creatable(s) ==
  CASE s.kind = "free" -> TRUE
    [] s.kind = "ma_crossover" -> MaCrossoverAccepts(s.params)
    [] s.kind = "rsi_threshold" -> RsiThresholdAccepts(s.params)
    [] s.kind = "ma_rsi" -> MaRsiAccepts(s.params)
    [] s.kind = "composable" -> Compiles(s)

BacktestInit ==
  /\ Init
  /\ strategy \in {name \in DOMAIN Catalogue : Creatable(Catalogue[name])}
  /\ closes = <<>>
  /\ memory = NoMemory
  /\ effects = <<>>
  /\ raised = FALSE

\* What on_candle is shown of the account: the engine values the portfolio only
\* after the candle, so the strategy does it itself.
View(close) ==
  [long |-> position > 0, entry |-> entryPrice,
   equity |-> cash + (position * close) \div Unit]

\* on_candle of the chosen strategy.
Answers(close) ==
  LET seen == Append(closes, close)
      says(signal) == [signal |-> signal, memory |-> memory, effects |-> effects]
  IN  CASE Chosen.kind = "free" -> {says(s) : s \in {"BUY", "SELL", "HOLD"}}
        [] Chosen.kind = "ma_crossover" ->
             {says(MaCrossover(Chosen.params, seen, position > 0))}
        [] Chosen.kind = "rsi_threshold" ->
             {says(RsiThreshold(Chosen.params, seen, position > 0))}
        [] Chosen.kind = "ma_rsi" ->
             {says(MaRsi(Chosen.params, seen, position > 0))}
        [] Chosen.kind = "composable" ->
             {OnCandle(Chosen, seen, Clock[bar + 1], View(close), memory, effects)}

Composable == Chosen.kind = "composable"

\* One candle: the strategy is asked, its signal is executed.
Candle(close) ==
  /\ Composable => Computes(Chosen)
  /\ \E answer \in Answers(close) :
       /\ \/ answer.signal = "BUY"  /\ BuyBar(close)
          \/ answer.signal = "SELL" /\ SellBar(close)
          \/ answer.signal = "HOLD" /\ HoldBar(close)
       /\ closes' = Append(closes, close)
       /\ memory' = answer.memory
       /\ effects' = answer.effects
  /\ UNCHANGED <<strategy, raised>>

\* The first candle of a strategy whose series cannot be put in order: on_candle
\* raises, which ends the run without a report.
StrategyRaises ==
  /\ Composable /\ ~Computes(Chosen)
  /\ raised' = TRUE
  /\ UNCHANGED <<vars, strategy, closes, memory, effects>>

Report == Finish /\ UNCHANGED <<strategy, closes, memory, effects, raised>>

BacktestNext ==
  /\ ~raised
  /\ \/ /\ bar < MaxCandles /\ ~done
        /\ StrategyRaises \/ \E close \in Closes : Candle(close)
     \/ Report

BacktestSpec == BacktestInit /\ [][BacktestNext]_backtestVars

-----------------------------------------------------------------------------
(* The report of a finished run *)

Chart == ChartSeries(closes, curve)
Figures == MetricsReport(tradeLog, curve, InitialCapital, equity, Chart, bar)

\* What the trading bot makes of a run on recent candles: the report has no chart
\* points to go by, the chart is not thinned out, and the last trade is what an
\* order would be placed for, closed or not.
ValidationChart == ChartPoints(closes, curve)
ValidationReport == MetricsReport(tradeLog, curve, InitialCapital, equity, <<>>, bar)
PaperOrder ==
  IF tradeLog = <<>> THEN "none" ELSE IF Last(tradeLog).quantity > 0 THEN "BUY" ELSE "SELL"

\* DrawdownIsWorstFall: the maximum drawdown of a report is the largest fall
\* between any two points of the equity curve, relative to the earlier one, and
\* is 0 only for a curve that never falls (calculate_max_drawdown).
DrawdownIsWorstFall ==
  done =>
    LET drawdown == MaxDrawdown(curve)
        falls == {p \in (1..Len(curve)) \X (1..Len(curve)) :
                    p[1] < p[2] /\ curve[p[1]] > curve[p[2]]}
        fall(p) == <<curve[p[1]] - curve[p[2]], curve[p[1]]>>
    IN  /\ \A p \in falls : ~LessThan(drawdown, fall(p))
        /\ falls # {} => \E p \in falls : ~LessThan(fall(p), drawdown)
        /\ falls = {} => drawdown[1] = 0
        /\ ValidationReport.maxDrawdown = drawdown

\* PeriodsSplitTheRun: the slices of the consistency figure cover the run once:
\* as many as there are values, four at most, in order, of lengths that differ
\* by one at most, the last ending with the last value
\* (calculate_period_consistency).
PeriodsSplitTheRun ==
  LET n == Len(Chart)
      ends == SegmentEnds(n, PeriodSlices)
      sizes == {ends[1]} \union {ends[k] - ends[k - 1] : k \in 2..Len(ends)}
  IN  done /\ n > 0 =>
        /\ Len(ends) = Min({n, PeriodSlices})
        /\ Last(ends) = n
        /\ Max(sizes) - Min(sizes) <= 1 /\ Min(sizes) > 0
        /\ n > 1 => PeriodConsistency(Chart).total = Len(ends) - 1

\* ChartShowsPosition: at every point of the chart, that of the trading bot too,
\* the interface shades a position exactly if a trade of the report was open after
\* that candle; the thinned-out chart still begins and ends with the run, and the
\* bot passes on an order exactly if it traded, which buys.
ChartShowsPosition ==
  done =>
    /\ \A point \in Range(Chart) \union Range(ValidationChart) :
         InPosition(point, TradeEvents(tradeLog)) <=>
           \E i \in DOMAIN tradeLog :
             tradeLog[i].openedAt <= point.date /\ point.date < tradeLog[i].closedAt
    /\ PaperOrder = IF tradeLog = <<>> THEN "none" ELSE "BUY"
    /\ Chart # <<>> =>
         /\ Chart[1].date = 1
         /\ Last(Chart).date = bar
         /\ Last(Chart).equity = equity
         /\ Len(Chart) <= MaxChartPoints + 1

\* VerdictFollowsProfit: a strategy that had losses has a profit factor of at
\* least 1 exactly if it did not lose money overall, and only one that earned
\* more than a deposit is not graded FAIL (build_strategy_verdict).
VerdictFollowsProfit ==
  done =>
    /\ Figures.balanced
    /\ GrossLosses(tradeLog) > 0 =>
         (LessThan(Figures.profitFactor, <<1, 1>>) <=> equity < InitialCapital)
    /\ Grade(Figures) # "FAIL" => equity > InitialCapital + Figures.deposit
    /\ Grade(Figures) = "PASS" => Figures.vsBuyHold[1] >= 0

-----------------------------------------------------------------------------
(* The strategies *)

\* The rules of a trailing stop, as in config/strategies: it is moved at every candle
\* of a trade and tested next, before any other rule, and nothing else moves it.
MovesStop(rule) ==
  /\ rule.scope \in {"long", "always"}
  /\ rule.when = << [op |-> "has_position", want |-> TRUE] >>
  /\ rule.then.do = "move_stop"
SellsAtStop(rule) ==
  /\ rule.scope \in {"long", "always"}
  /\ rule.when = << [op |-> "trailing_stop_hit", want |-> TRUE] >>
  /\ rule.then.do = "sell"
Trails(rules) ==
  LET sorted == ByPriority(rules)
  IN  /\ Len(sorted) > 1
      /\ MovesStop(sorted[1]) /\ SellsAtStop(sorted[2])
      /\ \A k \in 3..Len(sorted) : sorted[k].then.do # "move_stop"
TrailingOf(rules) == ByPriority(rules)[1].then.trailing

\* TrailingStopFollowsTrade: in a strategy with the rules of a trailing stop, whatever
\* its other rules, the level is its part of the highest close the strategy has seen
\* in this trade, none of an earlier one, and no position is left open at or below
\* its level (move_stop, trailing_stop_hit).
TrailingStopFollowsTrade ==
  Composable /\ position > 0 /\ bar > openedAt /\ ~done /\ Trails(Chosen.rules) =>
    LET peak == Max({closes[i] : i \in (openedAt + 1)..bar})
    IN  /\ memory.peakPrice = peak
        /\ memory.stopLevel = peak * (100 - TrailingOf(Chosen.rules))
        /\ 100 * lastClose > memory.stopLevel

\* SeriesAreCausal: the value of a series at a candle is not changed by the
\* candles that follow: a back-test does not see the future (precompute).
SeriesAreCausal ==
  Composable /\ bar > 0 =>
    LET now == Precompute(Chosen.nodes, closes)
        before == Precompute(Chosen.nodes, Front(closes))
    IN  \A id \in DOMAIN now :
          /\ Len(now[id]) = bar
          /\ Front(now[id]) = before[id]

\* ComposableAgreesWithBuiltIn: once the built-in ma_rsi has the candles it waits
\* for, its composable twin answers the same
\* (docs/strategy_composable_engine_design.md: "equivalent to the current
\* `ma_rsi` Python class").
ComposableAgreesWithBuiltIn ==
  Composable /\ "twinOf" \in DOMAIN Chosen /\ ~done /\ bar < MaxCandles =>
    LET p == Catalogue[Chosen.twinOf].params
    IN  bar >= Larger(p.slow, p.period) =>
          \A close \in Closes : \A answer \in Answers(close) :
            answer.signal = MaRsi(p, Append(closes, close), position > 0)

\* The rules of the strategies in config/strategies: they buy when flat only, and only
\* move the stop of a position.  A rule without a scope does both at any time.
KeepsToTrades(rules) ==
  \A rule \in Range(rules) :
    /\ rule.then.do = "buy" => rule.scope = "flat"
    /\ rule.then.do = "move_stop" => rule.scope = "long"

\* MemoryFollowsPosition: what a composable strategy remembers is that of the
\* trade that is open.  Whatever its rules, it has counted the candles since the fill.
\* If its rules keep to the trades, nothing of a trade is left when the strategy has
\* seen that the position is gone, and as long as every order could be filled (there
\* was a price, and money left) there is one stop-loss effect at most, and none then.
MemoryFollowsPosition ==
  Composable /\ ~done =>
    LET seenGone == position = 0 /\ ~memory.wasLong
    IN  /\ position > 0 => memory.barsInTrade = bar - openedAt
        /\ seenGone => memory.barsInTrade = 0
        /\ KeepsToTrades(Chosen.rules) =>
             /\ seenGone => memory.stopLevel = NoLevel /\ memory.peakPrice = 0
             /\ (\A i \in DOMAIN closes : closes[i] > 0) /\ (position = 0 => cash > 0) =>
                  /\ \A i, j \in DOMAIN effects :
                       effects[i].type = "SL" /\ effects[j].type = "SL" => i = j
                  /\ seenGone => effects = <<>>

\* PeakSinceEntry: the peak a trailing stop is taken from is the highest price
\* since the entry (composable/context.py: "highest price seen since entry").
PeakSinceEntry ==
  Composable /\ position > 0 /\ bar > openedAt /\ ~done =>
    memory.peakPrice = Max({closes[i] : i \in openedAt..bar})

=============================================================================
