------------------------------ MODULE MCBacktest ------------------------------
(***************************************************************************)
(* Backtest for TLC: up to five candles with a fall, a rise and a price    *)
(* that is not positive; the built-in strategies and composable ones with  *)
(* windows short enough for every rule to fire.                            *)
(***************************************************************************)
EXTENDS Backtest

MCCloses == {0, 80, 100, 130}
MCDeposit == [bars \in 0..9 |-> 15 * bars]

\* Hourly candles from 14:00, over a weekend on the fourth.
MCClock == [i \in 1..9 |-> [time |-> 1300 + 100 * i, weekday |-> (3 + i) % 7]]

Rule(priority, scope, when, then) ==
  [priority |-> priority, scope |-> scope, when |-> when, then |-> then]

Constant(value) == [value |-> value]
Series(id) == [series |-> id]
Long == [op |-> "has_position", want |-> TRUE]
StopHits == [op |-> "trailing_stop_hit", want |-> TRUE]
Sell == [do |-> "sell"]
Up == [op |-> "cross_above", a |-> "fast_ma", b |-> "slow_ma"]
Down == [op |-> "cross_below", a |-> "fast_ma", b |-> "slow_ma"]
Means == "fast_ma" :> [fn |-> "sma", source |-> "price", period |-> 1] @@
         "slow_ma" :> [fn |-> "sma", source |-> "price", period |-> 2]

MaRsiParams == [fast |-> 1, slow |-> 2, period |-> 2, buyMin |-> 60, overbought |-> 90]

\* ma_rsi without and with its exits, as in config/strategies.
MaRsiTwin ==
  [kind |-> "composable", twinOf |-> "ma_rsi",
   nodes |-> MaRsiNodes(MaRsiParams), rules |-> MaRsiRules(MaRsiParams, [do |-> "buy"])]
MaRsiExits ==
  [kind |-> "composable", nodes |-> MaRsiNodes(MaRsiParams),
   rules |-> MaRsiRules(MaRsiParams, [do |-> "buy", stopLoss |-> 5, takeProfit |-> 20]) \o
     << Rule(100, "long", << [op |-> "loss_pct", cmp |-> "gt", than |-> 5] >>, Sell),
        Rule(90, "long", << [op |-> "profit_pct", cmp |-> "gt", than |-> 20] >>, Sell) >>]

\* ma_trailing: the stop is moved before it is tested.
MaTrailing ==
  [kind |-> "composable", nodes |-> Means,
   rules |->
     << Rule(10, "flat", << Up >>, [do |-> "buy"]),
        Rule(10, "long", << Down >>, Sell),
        Rule(80, "long", << [op |-> "time_gte", at |-> 1700] >>, Sell),
        Rule(94, "long", << StopHits >>, Sell),
        Rule(95, "long", << Long >>, [do |-> "move_stop", trailing |-> 10]) >>]

\* A stop alone, so that several candles pass between the entry and the exit.
TrailingOnly ==
  [kind |-> "composable", nodes |-> <<>>,
   rules |->
     << Rule(0, "flat", << [op |-> "lte", a |-> Series("price"), b |-> Constant(100)] >>,
             [do |-> "buy", stopLoss |-> 25]),
        Rule(95, "long", << Long >>, [do |-> "move_stop", trailing |-> 25]),
        Rule(94, "always", << StopHits >>, Sell) >>]

\* The remaining series and conditions.
Guarded ==
  [kind |-> "composable",
   nodes |-> [trend |-> [fn |-> "ema", source |-> "price", period |-> 2],
              lag   |-> [fn |-> "shift", source |-> "trend", n |-> 1],
              slope |-> [fn |-> "diff", a |-> "trend", b |-> "lag"]],
   rules |->
     << Rule(50, "always",
             << [op |-> "not", of |-> 2],
                [op |-> "time_in_range", from |-> 2300, to |-> 1630] >>,
             [do |-> "hold"]),
        Rule(20, "flat",
             << [op |-> "all", of |-> {2, 3, 4}],
                [op |-> "gt", a |-> Series("slope"), b |-> Constant(0)],
                [op |-> "rising", of |-> "price", lookback |-> 2],
                [op |-> "weekday_in", days |-> {4, 5}] >>, [do |-> "buy"]),
        Rule(20, "long",
             << [op |-> "any", of |-> {2, 3}],
                [op |-> "equity_drawdown", cmp |-> "gt", than |-> 10],
                [op |-> "falling", of |-> "price", lookback |-> 1] >>, Sell) >>]

\* Rules without a scope: every candle buys, and the stop is moved without a position.
Unscoped ==
  [kind |-> "composable", nodes |-> <<>>,
   rules |->
     << Rule(0, "always", << [op |-> "lte", a |-> Series("price"), b |-> Constant(100)] >>,
             [do |-> "buy", stopLoss |-> 10, takeProfit |-> 10]),
        Rule(5, "always", << StopHits >>, Sell),
        Rule(9, "always", << [op |-> "gt", a |-> Series("price"), b |-> Constant(80)] >>,
             [do |-> "move_stop", trailing |-> 10]) >>]

\* Series that need each other, or one that is not there, and a rule that holds always.
Wants(nodes) ==
  [kind |-> "composable", nodes |-> nodes,
   rules |-> << Rule(0, "flat", << [op |-> "has_position", want |-> FALSE] >>,
                     [do |-> "buy"]) >>]
Cyclic == Wants([a |-> [fn |-> "shift", source |-> "b", n |-> 1],
                 b |-> [fn |-> "shift", source |-> "a", n |-> 1]])
Unfed == Wants([a |-> [fn |-> "shift", source |-> "b", n |-> 1]])

\* Refused: no rules, and a rule on a series that is not there.
Empty == [kind |-> "composable", nodes |-> Means, rules |-> <<>>]
Misnamed == [kind |-> "composable", nodes |-> <<>>, rules |-> << Rule(0, "flat", << Up >>, Sell) >>]

MCCatalogue ==
  [free          |-> [kind |-> "free"],
   ma_crossover  |-> [kind |-> "ma_crossover", params |-> [fast |-> 1, slow |-> 2]],
   rsi_threshold |-> [kind |-> "rsi_threshold",
                      params |-> [period |-> 2, oversold |-> 30, overbought |-> 70]],
   ma_rsi        |-> [kind |-> "ma_rsi", params |-> MaRsiParams],
   ma_equal      |-> [kind |-> "ma_crossover", params |-> [fast |-> 2, slow |-> 2]],
   rsi_crossed   |-> [kind |-> "rsi_threshold",
                      params |-> [period |-> 2, oversold |-> 70, overbought |-> 70]],
   ma_rsi_large  |-> [kind |-> "ma_rsi",
                      params |-> [fast |-> 1, slow |-> 2, period |-> 2, orderSize |-> 4,
                                  buyMin |-> 60, overbought |-> 90]],
   ma_rsi_twin   |-> MaRsiTwin,
   ma_rsi_exits  |-> MaRsiExits,
   ma_trailing   |-> MaTrailing,
   trailing_only |-> TrailingOnly,
   guarded       |-> Guarded,
   unscoped      |-> Unscoped,
   cyclic        |-> Cyclic,
   unfed         |-> Unfed,
   empty         |-> Empty,
   misnamed      |-> Misnamed]

=============================================================================
