--------------------------- MODULE ExecutionEngine ---------------------------
(***************************************************************************)
(* The back-test execution engine: ExecutionEngine.run feeds a strategy    *)
(* one candle at a time, OrderExecutor turns its signal into a fill, and   *)
(* Portfolio keeps the account.  The strategy is any program that answers  *)
(* BUY, SELL or HOLD, so a bar chooses its close and its signal freely.    *)
(*                                                                         *)
(* Money is counted in whole cents and a quantity in 1/Unit of the         *)
(* instrument; divisions round down where binary64 rounds to nearest.  A   *)
(* timestamp is the index of its candle.                                   *)
(***************************************************************************)
EXTENDS Integers, Sequences

CONSTANTS
  InitialCapital,      \* cents
  CommissionPct,       \* percent of the traded value, 0..10 (backtest_config)
  SlippagePct,         \* percent of the close, 0..5 (backtest_config)
  Closes,              \* the close prices a candle may have
  Unit,                \* resolution of a quantity
  MaxCandles           \* bound on the length of the candle list

\* The price an order fills at, slippage included.
BuyPrice(close)  == (close * (100 + SlippagePct)) \div 100
SellPrice(close) == (close * (100 - SlippagePct)) \div 100

Fee(value) == (value * CommissionPct) \div 100

\* What is left of the cash once the commission is paid, and what it buys.
Spendable(money) == money - Fee(money)
Quantity(money, close) == (Spendable(money) * Unit) \div BuyPrice(close)

\* What a sale of the quantity brings, the commission paid.
Gross(quantity, close) == (quantity * SellPrice(close)) \div Unit
NetProceeds(quantity, close) ==
  Gross(quantity, close) - Fee(Gross(quantity, close))

\* A fill is never rounded to nothing: binary64 would not do so either.
ASSUME EngineAssumption ==
  /\ InitialCapital \in Nat
  /\ CommissionPct \in 0..10
  /\ SlippagePct \in 0..5
  /\ Closes \subseteq Nat
  /\ Unit \in Nat \ {0}
  /\ MaxCandles \in Nat
  /\ \A close \in Closes : BuyPrice(close) <= Unit

VARIABLES
  bar,                 \* candles processed so far
  lastClose,           \* close of the latest candle, candles[-1] at the end
  cash,                \* Portfolio.cash
  position,            \* Portfolio.position_size
  entryPrice,          \* Portfolio.average_entry_price
  costBasis,           \* Portfolio.cost_basis
  openedAt,            \* Portfolio.opened_at, 0 for None
  equity,              \* Portfolio.equity
  tradeLog,            \* trade_log
  realized,            \* the sum of the profits in trade_log
  curve,               \* equity_curve
  done                 \* run has returned its report

account == <<cash, position, entryPrice, costBasis, openedAt>>
vars == <<bar, lastClose, cash, position, entryPrice, costBasis, openedAt,
          equity, tradeLog, realized, curve, done>>

Trade == [openedAt : Nat, closedAt : Nat, quantity : Nat,
          entryPrice : Nat, exitPrice : Nat, pnl : Int]

TypeOK ==
  /\ bar \in 0..MaxCandles
  /\ lastClose \in Nat
  /\ cash \in Nat
  /\ position \in Nat
  /\ entryPrice \in Nat
  /\ costBasis \in Nat
  /\ openedAt \in Nat
  /\ equity \in Nat
  /\ tradeLog \in Seq(Trade)
  /\ realized \in Int
  /\ curve \in Seq(Nat)
  /\ done \in BOOLEAN

-----------------------------------------------------------------------------

Init ==
  /\ bar = 0
  /\ lastClose = 0
  /\ cash = InitialCapital
  /\ position = 0
  /\ entryPrice = 0
  /\ costBasis = 0
  /\ openedAt = 0
  /\ equity = InitialCapital
  /\ tradeLog = <<>>
  /\ realized = 0
  /\ curve = <<InitialCapital>>
  /\ done = FALSE

\* OrderExecutor.execute on BUY: the guards, in the order of the early returns.
CanBuy(close) ==
  /\ cash > 0
  /\ position = 0
  /\ Spendable(cash) > 0
  /\ BuyPrice(close) > 0

\* Mutants: the commission is left out of the cost basis, and the opening time
\* is that of the previous candle.
OpenPositionNet(close, at) ==
  /\ entryPrice' = BuyPrice(close)
  /\ costBasis' = Spendable(cash)
  /\ position' = position + Quantity(cash, close)
  /\ cash' = 0
  /\ openedAt' = at
  /\ UNCHANGED <<tradeLog, realized>>
OpenPositionEarly(close, at) ==
  /\ entryPrice' = BuyPrice(close)
  /\ costBasis' = cash
  /\ position' = position + Quantity(cash, close)
  /\ cash' = 0
  /\ openedAt' = at - 1
  /\ UNCHANGED <<tradeLog, realized>>

\* All-in: the whole cash becomes the cost basis of the position.
OpenPosition(close, at) ==
  /\ entryPrice' = BuyPrice(close)
  /\ costBasis' = cash
  /\ position' = position + Quantity(cash, close)
  /\ cash' = 0
  /\ openedAt' = at
  /\ UNCHANGED <<tradeLog, realized>>

\* Mutants: the cost of one unit, and the cost without the commission.
EntryCostOfOne == entryPrice
EntryCostByPrice == (position * entryPrice) \div Unit

\* OrderExecutor.close_position: the profit is measured against the cost basis,
\* and against quantity times entry price when there is none.
EntryCost ==
  IF costBasis > 0 THEN costBasis ELSE (position * entryPrice) \div Unit

\* Mutants: the profit alone is paid out, and the cost basis is not reset.
ClosePositionPaysProfit(close, at) ==
  LET net == NetProceeds(position, close)
      pnl == net - EntryCost
  IN  /\ tradeLog' = Append(tradeLog,
                       [openedAt |-> openedAt, closedAt |-> at,
                        quantity |-> position, entryPrice |-> entryPrice,
                        exitPrice |-> SellPrice(close), pnl |-> pnl])
      /\ realized' = realized + pnl
      /\ cash' = cash + pnl
      /\ position' = 0
      /\ entryPrice' = 0
      /\ costBasis' = 0
      /\ openedAt' = 0
ClosePositionKeepsBasis(close, at) ==
  LET net == NetProceeds(position, close)
      pnl == net - EntryCost
  IN  /\ tradeLog' = Append(tradeLog,
                       [openedAt |-> openedAt, closedAt |-> at,
                        quantity |-> position, entryPrice |-> entryPrice,
                        exitPrice |-> SellPrice(close), pnl |-> pnl])
      /\ realized' = realized + pnl
      /\ cash' = cash + net
      /\ position' = 0
      /\ entryPrice' = 0
      /\ openedAt' = 0
      /\ UNCHANGED costBasis

ClosePosition(close, at) ==
  LET net == NetProceeds(position, close)
      pnl == net - EntryCost
  IN  /\ tradeLog' = Append(tradeLog,
                       [openedAt |-> openedAt, closedAt |-> at,
                        quantity |-> position, entryPrice |-> entryPrice,
                        exitPrice |-> SellPrice(close), pnl |-> pnl])
      /\ realized' = realized + pnl
      /\ cash' = cash + net
      /\ position' = 0
      /\ entryPrice' = 0
      /\ costBasis' = 0
      /\ openedAt' = 0

NoFill == UNCHANGED <<account, tradeLog, realized>>

\* Portfolio.update_equity at this close.
UpdateEquity(close) == equity' = cash' + (position' * close) \div Unit

\* One pass of the candle loop: the fill, the new equity, one point of the curve.
Bar(close) ==
  /\ ~done
  /\ bar < MaxCandles
  /\ bar' = bar + 1
  /\ lastClose' = close
  /\ UpdateEquity(close)
  /\ curve' = Append(curve, equity')
  /\ UNCHANGED done

BuyBar(close) ==
  /\ \/ CanBuy(close) /\ OpenPosition(close, bar + 1)
     \/ ~CanBuy(close) /\ NoFill
  /\ Bar(close)

SellBar(close) ==
  /\ \/ position > 0 /\ ClosePosition(close, bar + 1)
     \/ position = 0 /\ NoFill
  /\ Bar(close)

HoldBar(close) == NoFill /\ Bar(close)

\* Mutant: the forced close is not shown on the curve.
FinishOffCurve ==
  /\ ~done
  /\ done' = TRUE
  /\ \/ /\ position > 0
        /\ ClosePosition(lastClose, bar)
        /\ UpdateEquity(lastClose)
     \/ /\ position = 0
        /\ NoFill
        /\ UNCHANGED equity
  /\ UNCHANGED <<bar, lastClose, curve>>

\* The candles are used up: an open position is force-closed on the last one,
\* the last point of the curve is replaced, and the report is returned.
Finish ==
  /\ ~done
  /\ done' = TRUE
  /\ \/ /\ position > 0
        /\ ClosePosition(lastClose, bar)
        /\ UpdateEquity(lastClose)
        /\ curve' = [curve EXCEPT ![Len(curve)] = equity']
     \/ /\ position = 0
        /\ NoFill
        /\ UNCHANGED <<equity, curve>>
  /\ UNCHANGED <<bar, lastClose>>

Next ==
  \/ \E close \in Closes : BuyBar(close) \/ SellBar(close) \/ HoldBar(close)
  \/ Finish

Spec == Init /\ [][Next]_vars

-----------------------------------------------------------------------------

\* PnlIntegrity: once the report is out, the profits of its trades add up to
\* the final portfolio value minus the initial capital.  analytics/metrics.py
\* raises DataIntegrityError on any report for which this fails.
PnlIntegrity == done => realized = equity - InitialCapital

\* AllInOrAllOut: at any bar the capital is either all in cash or all in the
\* position: no cash is left beside a position, and a flat account carries no
\* price, cost basis or opening time over from an earlier trade.
AllInOrAllOut ==
  IF position > 0
  THEN /\ cash = 0
       /\ costBasis > 0
       /\ openedAt \in 1..bar
  ELSE costBasis = 0 /\ entryPrice = 0 /\ openedAt = 0

\* TradesInOrder: the trades of a report do not overlap: each opens at or before
\* the bar it closes on, and after the previous one closed.  Only the forced
\* close may close a trade on the bar that opened it.
TradesInOrder ==
  \A i \in 1..Len(tradeLog) :
    /\ tradeLog[i].openedAt \in 1..tradeLog[i].closedAt
    /\ tradeLog[i].closedAt <= bar
    /\ i > 1 => tradeLog[i - 1].closedAt < tradeLog[i].openedAt
    /\ tradeLog[i].openedAt = tradeLog[i].closedAt => done /\ i = Len(tradeLog)

\* CurveMatchesReport: the equity curve has the initial capital and one point
\* for each candle, and it ends at the final portfolio value of the report, the
\* forced close included.
CurveMatchesReport ==
  /\ Len(curve) = bar + 1
  /\ curve[1] = InitialCapital
  /\ curve[Len(curve)] = equity

\* CostsNeverPay: a round trip that is sold at no more than the price it was
\* bought at never shows a profit, whatever the commission and the slippage.
CostsNeverPay ==
  \A i \in 1..Len(tradeLog) :
    tradeLog[i].exitPrice <= tradeLog[i].entryPrice => tradeLog[i].pnl <= 0

\* The engine implements the ledger: the capital is the cost basis of the open
\* position, or the cash.
Ledger == INSTANCE PositionLedger WITH
  Initial  <- InitialCapital,
  holding  <- position > 0,
  capital  <- IF position > 0 THEN costBasis ELSE cash,
  realized <- realized

\* ImplementsLedger: every fill is a step of the ledger, so that profits are
\* booked once, against the money that was put in.
ImplementsLedger == Ledger!LedgerSpec

=============================================================================
