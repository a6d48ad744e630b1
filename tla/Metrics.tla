------------------------------- MODULE Metrics -------------------------------
(***************************************************************************)
(* What analytics/metrics.py, analytics/strategy_verdict.py and main.py    *)
(* make of a finished run: the figures of a report, the verdict on it, the *)
(* chart and the list of events.  Pure operators on a list of trades, an   *)
(* equity curve and the closes.                                            *)
(*                                                                         *)
(* A ratio is a pair <<numerator, denominator>> with a positive            *)
(* denominator, as binary64 would otherwise round it.  Where a figure is   *)
(* passed through a root or a power (Sharpe, Calmar) it is represented by  *)
(* what these keep, its sign.                                              *)
(***************************************************************************)
EXTENDS Integers, SequencesExt, Listing

CONSTANTS
  Deposit,             \* what a deposit earns in a number of bars
  PeriodSlices,        \* 4, the slices of calculate_period_consistency
  MaxChartPoints       \* 300, MAX_CHART_POINTS

ASSUME MetricsAssumption ==
  /\ \A bars \in DOMAIN Deposit : Deposit[bars] \in Nat
  /\ PeriodSlices \in Nat \ {0, 1}
  /\ MaxChartPoints \in Nat \ {0}

Sign(n) == IF n > 0 THEN 1 ELSE IF n < 0 THEN -1 ELSE 0

\* a < b for ratios.
LessThan(a, b) == a[1] * b[2] < b[1] * a[2]

-----------------------------------------------------------------------------
(* Trades *)

TotalPnl(trades) == Total([k \in DOMAIN trades |-> trades[k].pnl])

Won(pnl) == IF pnl > 0 THEN pnl ELSE 0
Lost(pnl) == IF pnl < 0 THEN pnl ELSE 0
GrossWins(trades) == Total([k \in DOMAIN trades |-> Won(trades[k].pnl)])
GrossLosses(trades) == -Total([k \in DOMAIN trades |-> Lost(trades[k].pnl)])

\* Break-even trades are not wins.
WinRate(trades) ==
  IF trades = <<>> THEN <<0, 1>>
  ELSE <<Cardinality({k \in DOMAIN trades : trades[k].pnl > 0}), Len(trades)>>

\* Mutant: the losses are taken off the wins.
ProfitFactorSigned(trades) ==
  IF GrossLosses(trades) <= 0 THEN <<GrossWins(trades), 100>>
  ELSE <<GrossWins(trades) - GrossLosses(trades), GrossLosses(trades)>>

\* Without losses the factor is the gross win itself, in units of 100 cents.
ProfitFactor(trades) ==
  IF GrossLosses(trades) <= 0 THEN <<GrossWins(trades), 100>>
  ELSE <<GrossWins(trades), GrossLosses(trades)>>

TotalReturn(pnl, capital) == IF capital <= 0 THEN <<0, 1>> ELSE <<pnl, capital>>

-----------------------------------------------------------------------------
(* The equity curve *)

\* Mutant: the fall is taken relative to the initial capital.
MaxDrawdownOfInitial(curve) ==
  LET step(acc, equity) ==
        LET peak == IF equity > acc.peak THEN equity ELSE acc.peak
            fall == <<peak - equity, curve[1]>>
        IN  [peak |-> peak,
             worst |-> IF peak > 0 /\ LessThan(acc.worst, fall)
                       THEN fall ELSE acc.worst]
  IN  IF Len(curve) < 2 THEN <<0, 1>>
      ELSE FoldLeft(step, [peak |-> curve[1], worst |-> <<0, 1>>], curve).worst

\* The largest fall from the running peak, as a fraction of that peak.
MaxDrawdown(curve) ==
  LET step(acc, equity) ==
        LET peak == IF equity > acc.peak THEN equity ELSE acc.peak
            fall == <<peak - equity, peak>>
        IN  [peak |-> peak,
             worst |-> IF peak > 0 /\ LessThan(acc.worst, fall)
                       THEN fall ELSE acc.worst]
  IN  IF Len(curve) < 2 THEN <<0, 1>>
      ELSE FoldLeft(step, [peak |-> curve[1], worst |-> <<0, 1>>], curve).worst

\* Simple returns in 1/10000; a point that follows a worthless one is left out.
Returns(curve) ==
  LET used == Ascending({i \in 2..Len(curve) : curve[i - 1] > 0})
  IN  [k \in DOMAIN used |->
        ((curve[used[k]] - curve[used[k] - 1]) * 10000) \div curve[used[k] - 1]]

\* The sign of the Sharpe ratio at a risk-free rate of 0: neutral for fewer
\* than two returns and for returns that do not vary.
Sharpe(curve) ==
  LET returns == Returns(curve)
  IN  IF Len(curve) < 3 \/ Cardinality(Range(returns)) < 2 THEN 0
      ELSE Sign(Total(returns))

\* The sign of the Calmar ratio: annualizing keeps the sign of the return, and
\* an account that lost everything is given the neutral value.
Calmar(pnl, capital, drawdown, bars) ==
  IF drawdown[1] <= 0 \/ bars < 2 \/ capital + pnl <= 0 THEN 0 ELSE Sign(pnl)

\* Compound interest from the first to the last candle.
DepositBaseline(bars) == IF bars < 2 THEN 0 ELSE Deposit[bars - 1]

\* The curve of realized profits that stands in for a missing equity curve.
FallbackCurve(trades, capital) ==
  FoldLeft(LAMBDA curve, t : Append(curve, Last(curve) + t.pnl), <<capital>>, trades)

-----------------------------------------------------------------------------
(* The chart: a point has the number of its candle, the equity that stands *)
(* for strategy_index and the close that stands for benchmark_index.       *)

\* downsample_chart_points: every n / max-th point, and the last one.
Downsample(points) ==
  LET n == Len(points)
      kept == {((i * n) \div MaxChartPoints) + 1 : i \in 0..(MaxChartPoints - 1)}
              \union {n}
      order == Ascending(kept)
  IN  IF n <= MaxChartPoints THEN points
      ELSE [k \in DOMAIN order |-> points[order[k]]]

\* One point for each candle that has a point on the equity curve.
ChartPoints(closes, curve) ==
  IF closes = <<>> \/ Len(curve) < 2 \/ closes[1] <= 0 THEN <<>>
  ELSE [i \in 1..Min({Len(closes), Len(curve) - 1}) |->
         [date |-> i, equity |-> curve[i + 1], close |-> closes[i]]]

ChartSeries(closes, curve) == Downsample(ChartPoints(closes, curve))

\* The events of a trade: a field that is None or 0 counts as missing.
EventsOf(t) ==
  (IF t.openedAt = 0 THEN <<>>
   ELSE << [date |-> t.openedAt, action |-> "BUY", price |-> t.entryPrice] >>) \o
  (IF t.closedAt = 0 THEN <<>>
   ELSE << [date |-> t.closedAt, action |-> "SELL",
            price |-> IF t.exitPrice = 0 THEN t.entryPrice ELSE t.exitPrice] >>)
TradeEvents(trades) ==
  FoldLeft(LAMBDA log, t : log \o EventsOf(t), <<>>, trades)

\* The order in which the interface goes through the events: by time, and as
\* listed within a candle.
ByDate(events) == SortedBy(events, [i \in DOMAIN events |-> events[i].date])

\* Mutant: an event on the candle of the point itself is left for the next one.
InPositionLate(point, events) ==
  LET past == Kept(ByDate(events), {e \in Range(events) : e.date < point.date})
  IN  past # <<>> /\ Last(past).action = "BUY"

\* buildInPositionByDate: whether the last event up to a point was a BUY.
InPosition(point, events) ==
  LET past == Kept(ByDate(events), {e \in Range(events) : e.date <= point.date})
  IN  past # <<>> /\ Last(past).action = "BUY"

\* _extract_strategy_index_series: the equity values in the order of the dates.
IndexSeries(chart) ==
  SortedBy([k \in DOMAIN chart |-> chart[k].equity],
           [k \in DOMAIN chart |-> chart[k].date])

\* Mutant: the remainder of a run that does not divide evenly is lost at its end.
SegmentEndsOfLength(n, periods) ==
  LET cut(i) == IF n < periods THEN (i * n) \div periods ELSE i * (n \div periods)
      full == {i \in 1..periods : cut(i - 1) < cut(i)}
  IN  Ascending({cut(i) : i \in full})

\* The last value of each slice: slice i of n values ends at i * n / periods,
\* and an empty slice is left out.
SegmentEnds(n, periods) ==
  LET cut(i) == (i * n) \div periods
      full == {i \in 1..periods : cut(i - 1) < cut(i)}
  IN  Ascending({cut(i) : i \in full})

\* How many slices ended higher than the one before, and of how many.
PeriodConsistency(chart) ==
  LET values == IndexSeries(chart)
      ends == SegmentEnds(Len(values), PeriodSlices)
      rose == {k \in 2..Len(ends) : values[ends[k]] > values[ends[k - 1]]}
  IN  IF Len(values) < 2 THEN [positive |-> 0, total |-> 0]
      ELSE IF Len(ends) < 2 THEN [positive |-> 0, total |-> Len(ends)]
      ELSE [positive |-> Cardinality(rose), total |-> Len(ends) - 1]

\* calculate_vs_buy_hold_pct between the ends of the chart.  An index of 0 at
\* either end is read as missing and becomes 100, the value at the start.
VsBuyHold(chart, capital) ==
  LET equity(p) == IF p.equity = 0 THEN capital ELSE p.equity
      close(p)  == IF p.close = 0 THEN chart[1].close ELSE p.close
      first == chart[1]
      last  == chart[Len(chart)]
  IN  IF Len(chart) < 2 THEN <<0, 1>>
      ELSE << equity(last) * close(first) - close(last) * equity(first),
              equity(first) * close(first) >>

-----------------------------------------------------------------------------
(* The report and the verdict *)

\* calculate_metrics.  The caller has the report only if the books balance:
\* otherwise the code raises DataIntegrityError.
MetricsReport(trades, curve, capital, final, chart, bars) ==
  LET pnl == TotalPnl(trades)
      periods == PeriodConsistency(chart)
  IN  [totalPnl     |-> pnl,
       balanced     |-> pnl = final - capital,
       sharpe       |-> Sharpe(curve),
       maxDrawdown  |-> MaxDrawdown(curve),
       winRate      |-> WinRate(trades),
       deposit      |-> DepositBaseline(bars),
       profitFactor |-> ProfitFactor(trades),
       calmar       |-> Calmar(pnl, capital, MaxDrawdown(curve), bars),
       consistency  |-> IF periods.total = 0 THEN <<0, 1>>
                        ELSE <<periods.positive, periods.total>>,
       totalReturn  |-> TotalReturn(pnl, capital),
       vsBuyHold    |-> VsBuyHold(chart, capital)]

\* build_strategy_verdict: the flags and the grade.
Flags(m) ==
  (IF LessThan(m.profitFactor, <<1, 1>>) THEN {"profit_factor_below_1"} ELSE {})
  \union (IF m.totalPnl <= m.deposit THEN {"below_deposit_baseline"} ELSE {})
  \union (IF m.vsBuyHold[1] < 0 THEN {"underperforms_buy_hold"} ELSE {})
  \union (IF LessThan(m.consistency, <<1, 2>>) THEN {"low_consistency"} ELSE {})

Grade(m) ==
  IF m.totalPnl <= m.deposit \/ LessThan(m.profitFactor, <<1, 1>>) THEN "FAIL"
  ELSE IF Flags(m) # {} THEN "CAUTION"
  ELSE "PASS"

=============================================================================
