----------------------------- MODULE Strategies -----------------------------
(***************************************************************************)
(* The strategies an engine can be given: the three built-in ones          *)
(* (strategy/strategies) and the composable ones, which are data: series   *)
(* computed from the closes, and rules of a condition and an action        *)
(* (strategy/composable).                                                  *)
(*                                                                         *)
(* A strategy is asked for one candle at a time: it is given the closes    *)
(* up to that candle and a view of the account, and answers with a signal. *)
(* Values of series are in 1/Scale, divisions round down; a stop level is  *)
(* in 1/100 of a cent, so that a percentage of a price is exact.           *)
(***************************************************************************)
EXTENDS Integers, SequencesExt, Listing

Scale == 100
NoLevel == -1          \* None, for a stop level and for a time of day

Larger(a, b) == IF a > b THEN a ELSE b

-----------------------------------------------------------------------------
(* Series *)

\* Mutant: a full window is not shortened before the next value is added.
SmaGrows(source, period) ==
  LET step(acc, x) ==
        LET window == Append(acc.window, x)
        IN  [window |-> window, running |-> acc.running + x,
             out |-> Append(acc.out, (acc.running + x) \div Len(window))]
  IN  FoldLeft(step, [window |-> <<>>, running |-> 0, out |-> <<>>], source).out

\* The mean of the last `period' values, of fewer at the beginning: a running
\* sum that the oldest value leaves when the window is full.
SmaNext(period, acc, x) ==
  LET full == Len(acc.window) = period
      window == Append(IF full THEN Tail(acc.window) ELSE acc.window, x)
      running == acc.running + x - (IF full THEN Head(acc.window) ELSE 0)
  IN  [window |-> window, running |-> running,
       out |-> Append(acc.out, running \div Len(window))]
Sma(source, period) ==
  FoldLeft(LAMBDA acc, x : SmaNext(period, acc, x),
           [window |-> <<>>, running |-> 0, out |-> <<>>], source).out

\* alpha = 2 / (period + 1)
EmaNext(period, out, x) ==
  Append(out, (2 * x + (period - 1) * Last(out)) \div (period + 1))
Ema(source, period) ==
  IF source = <<>> THEN <<>>
  ELSE FoldLeft(LAMBDA out, x : EmaNext(period, out, x), <<source[1]>>, Tail(source))

Gain(source, k) == Larger(source[k] - source[k - 1], 0)
Loss(source, k) == Larger(source[k - 1] - source[k], 0)

\* The index of the moves that end at the candles from first to last.
RsiOfMoves(source, first, last) ==
  LET gains  == Total([k \in 1..(last - first + 1) |-> Gain(source, first + k - 1)])
      losses == Total([k \in 1..(last - first + 1) |-> Loss(source, first + k - 1)])
  IN  IF losses = 0 THEN (IF gains > 0 THEN 100 ELSE 50) * Scale
      ELSE (100 * Scale * gains) \div (gains + losses)

Rsi(source, period) ==
  [i \in DOMAIN source |->
     IF i = 1 THEN 50 * Scale
     ELSE RsiOfMoves(source, Larger(2, i - period + 1), i)]

Diff(a, b) == [i \in 1..Min({Len(a), Len(b)}) |-> a[i] - b[i]]

\* Mutant: the shift goes the other way and shows the future.
ShiftAhead(source, n) == [i \in DOMAIN source |-> source[Min({Len(source), i + n})]]

Shift(source, n) == [i \in DOMAIN source |-> source[Larger(1, i - n)]]

\* build_nodes and _SERIES_FNS: the inputs of a node, and its values from theirs.
Inputs(node) == IF node.fn = "diff" THEN {node.a, node.b} ELSE {node.source}
Apply(node, values) ==
  CASE node.fn = "sma"   -> Sma(values[node.source], node.period)
    [] node.fn = "ema"   -> Ema(values[node.source], node.period)
    [] node.fn = "rsi"   -> Rsi(values[node.source], node.period)
    [] node.fn = "shift" -> Shift(values[node.source], node.n)
    [] node.fn = "diff"  -> Diff(values[node.a], values[node.b])

\* precompute: every node after its inputs, whatever order they are listed in.
\* A node on a cycle, or with an input that is not defined, is never reached.
Round(nodes, values) ==
  LET ready == {id \in DOMAIN nodes : Inputs(nodes[id]) \subseteq DOMAIN values}
  IN  Over(values, [id \in ready |-> Apply(nodes[id], values)])
Precompute(nodes, closes) ==
  FoldLeft(LAMBDA values, k : Round(nodes, values),
           [price |-> [i \in DOMAIN closes |-> closes[i] * Scale]],
           [k \in 1..Cardinality(DOMAIN nodes) |-> k])

-----------------------------------------------------------------------------
(* What a rule sees: the closes up to this candle, the series, the clock,  *)
(* the account and the strategy's own memory.  EvaluationContext.          *)

Price(ctx) == ctx.closes[Len(ctx.closes)]
Now(ctx, id) == ctx.series[id][Len(ctx.closes)]
Before(ctx, id, n) == ctx.series[id][Len(ctx.closes) - n]

Compare(op, a, b) ==
  CASE op = "gt" -> a > b [] op = "lt" -> a < b
    [] op = "gte" -> a >= b [] op = "lte" -> a <= b

\* _resolve: an operand is a series or a constant.
Operand(ctx, x) ==
  IF "value" \in DOMAIN x THEN x.value * Scale ELSE Now(ctx, x.series)

Crosses(ctx, up, a, b) ==
  /\ Len(ctx.closes) > 1
  /\ IF up THEN Before(ctx, a, 1) <= Before(ctx, b, 1) /\ Now(ctx, a) > Now(ctx, b)
     ELSE Before(ctx, a, 1) >= Before(ctx, b, 1) /\ Now(ctx, a) < Now(ctx, b)

\* profit_pct, loss_pct: against the entry price, slippage included.
ProfitCompares(ctx, op, sign, threshold) ==
  /\ ctx.long
  /\ IF ctx.entry <= 0 THEN Compare(op, 0, threshold)
     ELSE Compare(op, sign * 100 * (Price(ctx) - ctx.entry), threshold * ctx.entry)

\* equity_drawdown_pct, never negative.
DrawdownCompares(ctx, op, threshold) ==
  LET peak == ctx.memory.peakEquity
  IN  IF peak <= 0 THEN Compare(op, 0, threshold)
      ELSE Compare(op, Larger(0, 100 * (peak - ctx.equity)), threshold * peak)

Trends(ctx, up, id, lookback) ==
  /\ Len(ctx.closes) > lookback
  /\ IF up THEN Now(ctx, id) > Before(ctx, id, lookback)
     ELSE Now(ctx, id) < Before(ctx, id, lookback)

\* time_gte, time_lte, time_in_range, weekday_in.
InTimeRange(ctx, from, to) ==
  /\ ctx.time # NoLevel
  /\ IF from <= to THEN ctx.time \in from..to ELSE ctx.time >= from \/ ctx.time <= to

\* trailing_stop_hit
StopHit(ctx) ==
  /\ ctx.long
  /\ ctx.memory.stopLevel # NoLevel
  /\ 100 * Price(ctx) <= ctx.memory.stopLevel

\* The predicates that are not made of others.
Atom(w, ctx) ==
  CASE w.op \in {"gt", "lt", "gte", "lte"} ->
         Compare(w.op, Operand(ctx, w.a), Operand(ctx, w.b))
    [] w.op = "cross_above" -> Crosses(ctx, TRUE, w.a, w.b)
    [] w.op = "cross_below" -> Crosses(ctx, FALSE, w.a, w.b)
    [] w.op = "has_position" -> ctx.long = w.want
    [] w.op = "profit_pct" -> ProfitCompares(ctx, w.cmp, 1, w.than)
    [] w.op = "loss_pct" -> ProfitCompares(ctx, w.cmp, -1, w.than)
    [] w.op = "equity_drawdown" -> DrawdownCompares(ctx, w.cmp, w.than)
    [] w.op = "time_gte" -> ctx.time >= w.at
    [] w.op = "time_in_range" -> InTimeRange(ctx, w.from, w.to)
    [] w.op = "weekday_in" -> ctx.weekday \in w.days
    [] w.op = "trailing_stop_hit" -> StopHit(ctx) = w.want
    [] w.op = "rising" -> Trends(ctx, TRUE, w.of, w.lookback)
    [] w.op = "falling" -> Trends(ctx, FALSE, w.of, w.lookback)

\* compile_predicate, evaluated.  A condition is the list of its nodes, the whole
\* first; `all', `any' and `not' name their parts by the places these have.
Holds(when, ctx) ==
  LET holds[i \in DOMAIN when] ==
        CASE when[i].op = "all" -> \A j \in when[i].of : holds[j]
          [] when[i].op = "any" -> \E j \in when[i].of : holds[j]
          [] when[i].op = "not" -> ~holds[when[i].of]
          [] OTHER -> Atom(when[i], ctx)
  IN  holds[1]

-----------------------------------------------------------------------------
(* Actions and rules *)

Effect(type, level) == [type |-> type, level |-> level]

\* Mutant: the stop follows the price down as well.
MoveStopBothWays(ctx, action) ==
  LET peak == Larger(ctx.memory.peakPrice, Price(ctx))
      stop == Price(ctx) * (100 - action.trailing)
  IN  [ctx EXCEPT !.memory.peakPrice = peak,
                  !.memory.stopLevel = stop,
                  !.effects = Append(Kept(@, {e \in Range(@) : e.type # "SL"}),
                                     Effect("SL", stop))]

\* move_stop: the level is a part of the highest price and never falls; it is
\* also kept as the one stop-loss effect of the account.
MoveStop(ctx, action) ==
  LET peak == Larger(ctx.memory.peakPrice, Price(ctx))
      stop == Larger(ctx.memory.stopLevel, peak * (100 - action.trailing))
  IN  [ctx EXCEPT !.memory.peakPrice = peak,
                  !.memory.stopLevel = stop,
                  !.effects = Append(Kept(@, {e \in Range(@) : e.type # "SL"}),
                                     Effect("SL", stop))]

\* buy: the levels that were asked for are recorded as effects, from the close,
\* before anything is filled.
NoteLevels(ctx, action) ==
  [ctx EXCEPT !.effects =
     @ \o (IF "stopLoss" \in DOMAIN action
           THEN << Effect("SL", Price(ctx) * (100 - action.stopLoss)) >> ELSE <<>>)
       \o (IF "takeProfit" \in DOMAIN action
           THEN << Effect("TP", Price(ctx) * (100 + action.takeProfit)) >> ELSE <<>>)]

\* run_action: the context after the action, and the signal it answers.
RunAction(ctx, action) ==
  CASE action.do = "buy"  -> [ctx |-> NoteLevels(ctx, action), signal |-> "BUY"]
    [] action.do = "sell" -> [ctx |-> ctx, signal |-> "SELL"]
    [] action.do = "hold" -> [ctx |-> ctx, signal |-> "HOLD"]
    [] action.do = "move_stop" ->
         [ctx |-> MoveStop(ctx, action), signal |-> "HOLD"]

IsTerminal(action) == action.do # "move_stop"

\* compile_rules: by falling priority, as listed within a priority.
ByPriority(rules) == SortedBy(rules, [i \in DOMAIN rules |-> -rules[i].priority])

\* One rule: it is passed over when an earlier one has decided, outside its scope
\* and when its condition does not hold.
Consider(scopes, acc, rule) ==
  IF acc.decided \/ rule.scope \notin scopes \/ ~Holds(rule.when, acc.ctx)
  THEN acc
  ELSE LET ran == RunAction(acc.ctx, rule.then)
       IN  IF IsTerminal(rule.then)
           THEN [ctx |-> ran.ctx, signal |-> ran.signal, decided |-> TRUE]
           ELSE [acc EXCEPT !.ctx = ran.ctx]

\* evaluate_rules: the first rule that applies and ends the candle decides;
\* what an earlier rule did to the memory is seen by the conditions after it.
EvaluateRules(rules, ctx) ==
  LET scopes == {"always", IF ctx.long THEN "long" ELSE "flat"}
  IN  FoldLeft(LAMBDA acc, rule : Consider(scopes, acc, rule),
               [ctx |-> ctx, signal |-> "HOLD", decided |-> FALSE],
               ByPriority(rules))

\* StrategyState
NoMemory == [wasLong |-> FALSE, peakPrice |-> 0, stopLevel |-> NoLevel,
             peakEquity |-> 0, barsInTrade |-> 0]

\* Mutant: an exit leaves the peak and the level behind.
RememberTooLong(memory, long, price, equity) ==
  [memory EXCEPT !.peakEquity = Larger(@, equity),
                 !.peakPrice = Larger(@, price),
                 !.wasLong = long]

\* The start of ComposableStrategy.on_candle: what the strategy remembers of the
\* trade is set when it first sees the position, and dropped when it is gone.
Remember(memory, long, price, equity) ==
  LET entered == long /\ ~memory.wasLong
      exited  == ~long /\ memory.wasLong
  IN  [memory EXCEPT
        !.peakEquity = Larger(@, equity),
        !.peakPrice = IF entered THEN price
                      ELSE IF long THEN Larger(@, price)
                      ELSE IF exited THEN 0 ELSE @,
        !.stopLevel = IF entered \/ exited THEN NoLevel ELSE @,
        !.wasLong = long]

\* ComposableStrategy.on_candle.  view is what it can see of the account; the
\* effects are dropped with the memory of the trade.
OnCandle(definition, closes, clock, view, memory, effects) ==
  LET price  == closes[Len(closes)]
      before == Remember(memory, view.long, price, view.equity)
      ctx    == [closes |-> closes,
                 series |-> Precompute(definition.nodes, closes),
                 time   |-> clock.time, weekday |-> clock.weekday,
                 long   |-> view.long, entry |-> view.entry,
                 equity |-> view.equity, memory |-> before,
                 effects |-> IF memory.wasLong /\ ~view.long THEN <<>> ELSE effects]
      result == EvaluateRules(definition.rules, ctx)
  IN  [signal  |-> result.signal,
       effects |-> result.ctx.effects,
       memory  |-> [result.ctx.memory EXCEPT
                      !.barsInTrade = IF view.long THEN @ + 1 ELSE 0]]

-----------------------------------------------------------------------------
(* The built-in strategies look at the closes alone. *)

MeanOf(closes, window, end) ==
  (Scale * Total(SubSeq(closes, end - window + 1, end))) \div window

CrossedUp(p, closes, n) ==
  /\ MeanOf(closes, p.fast, n - 1) <= MeanOf(closes, p.slow, n - 1)
  /\ MeanOf(closes, p.fast, n) > MeanOf(closes, p.slow, n)
CrossedDown(p, closes, n) ==
  /\ MeanOf(closes, p.fast, n - 1) >= MeanOf(closes, p.slow, n - 1)
  /\ MeanOf(closes, p.fast, n) < MeanOf(closes, p.slow, n)

\* validate_params_against_specs: the bounds that the built-in strategies declare.
Levels == {"oversold", "overbought", "buyMin"}
LeastValue == [fast |-> 1, slow |-> 2, period |-> 2, oversold |-> 0, overbought |-> 0,
               buyMin |-> 0, orderSize |-> 1]
WithinSpecs(p) ==
  \A name \in DOMAIN p :
    /\ p[name] >= LeastValue[name]
    /\ name \in Levels => p[name] <= 100
    /\ name = "orderSize" => p[name] <= 3

\* validate_params of each.
MaCrossoverAccepts(p) == WithinSpecs(p) /\ p.fast < p.slow
RsiThresholdAccepts(p) == WithinSpecs(p) /\ p.oversold < p.overbought
MaRsiAccepts(p) == WithinSpecs(p) /\ p.fast < p.slow /\ p.buyMin < p.overbought

\* The last `period' moves.
LastRsi(closes, period) ==
  RsiOfMoves(closes, Larger(2, Len(closes) - period + 1), Len(closes))

MaCrossover(p, closes, long) ==
  LET n == Len(closes)
  IN  IF n < p.slow + 1 THEN "HOLD"
      ELSE IF CrossedUp(p, closes, n) /\ ~long THEN "BUY"
      ELSE IF CrossedDown(p, closes, n) /\ long THEN "SELL"
      ELSE "HOLD"

RsiThreshold(p, closes, long) ==
  LET rsi == LastRsi(closes, p.period)
  IN  IF Len(closes) < p.period + 1 THEN "HOLD"
      ELSE IF rsi <= p.oversold * Scale /\ ~long THEN "BUY"
      ELSE IF rsi >= p.overbought * Scale /\ long THEN "SELL"
      ELSE "HOLD"

MaRsi(p, closes, long) ==
  LET n == Len(closes)
      rsi == LastRsi(closes, p.period)
  IN  IF n < Larger(p.slow + 1, p.period + 1) THEN "HOLD"
      ELSE IF CrossedUp(p, closes, n) /\ rsi >= p.buyMin * Scale /\ ~long THEN "BUY"
      ELSE IF long /\ (CrossedDown(p, closes, n) \/ rsi >= p.overbought * Scale)
           THEN "SELL"
      ELSE "HOLD"

\* The definition that takes the place of MaRsi (config/strategies/ma_rsi_composable).
MaRsiNodes(p) ==
  [fast_ma |-> [fn |-> "sma", source |-> "price", period |-> p.fast],
   slow_ma |-> [fn |-> "sma", source |-> "price", period |-> p.slow],
   rsi     |-> [fn |-> "rsi", source |-> "price", period |-> p.period]]

\* Its rules, those that sell at a loss or a profit apart; then is what an entry does.
MaRsiRules(p, then) ==
  LET rsiReaches(level) ==
        [op |-> "gte", a |-> [series |-> "rsi"], b |-> [value |-> level]]
  IN  << [priority |-> 10, scope |-> "long",
          when |-> << [op |-> "any", of |-> {2, 3}],
                      [op |-> "cross_below", a |-> "fast_ma", b |-> "slow_ma"],
                      rsiReaches(p.overbought) >>,
          then |-> [do |-> "sell"]],
         [priority |-> 10, scope |-> "flat",
          when |-> << [op |-> "all", of |-> {2, 3}],
                      [op |-> "cross_above", a |-> "fast_ma", b |-> "slow_ma"],
                      rsiReaches(p.buyMin) >>,
          then |-> then] >>

=============================================================================
