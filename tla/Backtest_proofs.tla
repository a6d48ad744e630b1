---------------------------- MODULE Backtest_proofs ----------------------------
(***************************************************************************)
(* Proofs about ExecutionEngine and Backtest for every capital,            *)
(* commission, slippage, set of prices and number of candles: the account  *)
(* first, for any signals; then what a composable strategy remembers of    *)
(* its trades; then the report that is made of a run.                      *)
(***************************************************************************)
EXTENDS Backtest, Listing_proofs

\* A quotient of naturals is a natural.
LEMMA QuotientIsNat ==
  ASSUME NEW x \in Nat, NEW d \in Nat \ {0}
  PROVE  x \div d \in Nat
  OBVIOUS

\* A product of naturals is a natural.
LEMMA ProductIsNat ==
  ASSUME NEW x \in Nat, NEW y \in Nat
  PROVE  x * y \in Nat
  OBVIOUS

LEMMA ProductIsInt ==
  ASSUME NEW x \in Int, NEW y \in Int
  PROVE  x * y \in Int
  OBVIOUS

\* A commission of at most ten percent never exceeds the value it is charged
\* on (OrderExecutor: commission = value * commission_pct / 100).
LEMMA FeeBound ==
  ASSUME NEW value \in Nat
  PROVE  Fee(value) \in 0..value
<1>1. CommissionPct \in 0..10
  BY EngineAssumption
<1>2. value * CommissionPct \in Nat
  BY <1>1
<1>3. value * CommissionPct <= value * 100
  BY <1>1
<1>4. (value * CommissionPct) \div 100 <= value
  BY <1>2, <1>3
<1>5. QED
  BY <1>2, <1>4 DEF Fee

LEMMA PricesAreNat ==
  ASSUME NEW close \in Nat
  PROVE  BuyPrice(close) \in Nat /\ SellPrice(close) \in Nat
<1>1. SlippagePct \in 0..5
  BY EngineAssumption
<1>2. close * (100 + SlippagePct) \in Nat /\ close * (100 - SlippagePct) \in Nat
  BY <1>1
<1>3. QED
  BY <1>2 DEF BuyPrice, SellPrice

LEMMA ProceedsAreNat ==
  ASSUME NEW quantity \in Nat, NEW close \in Nat
  PROVE  NetProceeds(quantity, close) \in Nat
<1>1. quantity * SellPrice(close) \in Nat
  BY PricesAreNat, ProductIsNat
<1>2. Gross(quantity, close) \in Nat
  BY <1>1, QuotientIsNat, EngineAssumption DEF Gross
<1>3. QED
  BY <1>2, FeeBound DEF NetProceeds

\* A buy that passes the guards of OrderExecutor.execute fills something.
LEMMA BuyFills ==
  ASSUME NEW money \in Nat, NEW close \in Closes,
         Spendable(money) > 0, BuyPrice(close) > 0
  PROVE  Quantity(money, close) \in Nat \ {0}
<1> DEFINE S == Spendable(money)
           B == BuyPrice(close)
<1>1. S \in Nat \ {0}
  BY FeeBound DEF Spendable
<1>2. B \in Nat \ {0} /\ B <= Unit
  BY PricesAreNat, EngineAssumption
<1>3. Unit \in Nat \ {0}
  BY EngineAssumption
<1> HIDE DEF S, B
<1>4. S * Unit \in Nat /\ S * Unit >= Unit
  BY <1>1, <1>3
<1>5. S * Unit >= B
  BY <1>2, <1>3, <1>4
<1>6. (S * Unit) \div B \in Nat
  BY <1>2, <1>4, QuotientIsNat
<1>7. (S * Unit) \div B # 0
  BY <1>2, <1>4, <1>5
<1>8. QED
  BY <1>6, <1>7 DEF Quantity, S, B

-----------------------------------------------------------------------------

(***************************************************************************)
(* The inductive invariant.  PnlIntegrity speaks of the final report only; *)
(* what carries it through the run is that at every bar the money put into *)
(* the open position, or the cash, is the initial capital plus what was    *)
(* booked (Books), and that a flat account is valued at its cash (Valued). *)
(***************************************************************************)
Types ==
  /\ bar \in Nat
  /\ lastClose \in Nat
  /\ cash \in Nat
  /\ position \in Nat
  /\ entryPrice \in Nat
  /\ costBasis \in Nat
  /\ openedAt \in Nat
  /\ equity \in Nat
  /\ realized \in Int
  /\ done \in BOOLEAN

Books ==
  realized = (IF position > 0 THEN costBasis ELSE cash) - InitialCapital

Valued == /\ position = 0 => equity = cash
          /\ done => position = 0

IInv == Types /\ AllInOrAllOut /\ Books /\ Valued

LEMMA InitIInv == Init => IInv
<1> SUFFICES ASSUME Init PROVE IInv
  OBVIOUS
<1>1. InitialCapital \in Nat
  BY EngineAssumption
<1>2. Types
  <2>1. done \in BOOLEAN
    BY Zenon DEF Init
  <2>2. QED
    BY <1>1, <2>1 DEF Init, Types
<1>3. AllInOrAllOut /\ Books /\ Valued
  BY <1>1 DEF Init, AllInOrAllOut, Books, Valued
<1>4. QED
  BY <1>2, <1>3 DEF IInv

\* The four things a bar, or the forced close, may do to the account.
LEMMA OpenKeepsBooks ==
  ASSUME IInv, NEW close \in Closes, CanBuy(close),
         OpenPosition(close, bar + 1), bar' = bar + 1
  PROVE  /\ cash' = 0 /\ costBasis' \in Nat \ {0} /\ position' \in Nat \ {0}
         /\ entryPrice' \in Nat /\ openedAt' \in 1..bar' /\ openedAt' \in Nat
         /\ realized' = realized /\ realized' = costBasis' - InitialCapital
<1>1. Quantity(cash, close) \in Nat \ {0}
  BY BuyFills DEF CanBuy, IInv, Types
<1>2. BuyPrice(close) \in Nat
  BY PricesAreNat, EngineAssumption
<1>3. QED
  BY <1>1, <1>2, EngineAssumption
     DEF CanBuy, OpenPosition, IInv, Types, AllInOrAllOut, Books

LEMMA CloseKeepsBooks ==
  ASSUME IInv, NEW close \in Nat, NEW at, position > 0, ClosePosition(close, at)
  PROVE  /\ cash' \in Nat /\ position' = 0 /\ entryPrice' = 0
         /\ costBasis' = 0 /\ openedAt' = 0
         /\ realized' \in Int /\ realized' = cash' - InitialCapital
         /\ realized' = realized + (cash' - costBasis)
<1> DEFINE net == NetProceeds(position, close)
<1>1. net \in Nat
  BY ProceedsAreNat DEF IInv, Types
<1>2. costBasis \in Nat /\ costBasis > 0 /\ cash = 0
  BY DEF IInv, Types, AllInOrAllOut
<1>3. EntryCost = costBasis
  BY <1>2 DEF EntryCost
<1> HIDE DEF net
<1>4. realized' = realized + (net - costBasis) /\ cash' = cash + net
  BY <1>3 DEF ClosePosition, net
<1>5. position' = 0 /\ entryPrice' = 0 /\ costBasis' = 0 /\ openedAt' = 0
  BY DEF ClosePosition
<1>6. realized \in Int /\ realized = costBasis - InitialCapital
  BY DEF IInv, Types, Books
<1>7. QED
  BY <1>1, <1>2, <1>4, <1>5, <1>6, EngineAssumption

\* Marking to market keeps equity a natural, and values a flat account at cash.
LEMMA EquityIsNat ==
  ASSUME NEW close \in Nat, cash' \in Nat, position' \in Nat, UpdateEquity(close)
  PROVE  equity' \in Nat /\ (position' = 0 => equity' = cash')
<1>1. position' * close \in Nat
  BY ProductIsNat
<1>2. (position' * close) \div Unit \in Nat
  BY <1>1, QuotientIsNat, EngineAssumption
<1>3. position' = 0 => (position' * close) \div Unit = 0
  BY EngineAssumption
<1>4. QED
  BY <1>2, <1>3 DEF UpdateEquity

-----------------------------------------------------------------------------

\* Every bar, and the forced close, keeps the invariant, and moves the ledger
\* by one step or not at all.
LedgerStep == [Ledger!LedgerNext]_(Ledger!ledgerVars)

LEMMA NoFillStep ==
  ASSUME IInv, NoFill
  PROVE  /\ UNCHANGED <<cash, position, entryPrice, costBasis, openedAt, realized>>
         /\ LedgerStep
  BY DEF NoFill, account, LedgerStep, Ledger!ledgerVars

LEMMA OpenStep ==
  ASSUME IInv, NEW close \in Closes, CanBuy(close),
         OpenPosition(close, bar + 1), bar' = bar + 1
  PROVE  LedgerStep
<1>1. /\ position = 0 /\ position' > 0 /\ costBasis' = cash /\ realized' = realized
  BY OpenKeepsBooks DEF CanBuy, OpenPosition
<1>2. Ledger!Open
  BY <1>1 DEF Ledger!Open
<1>3. QED
  BY <1>2 DEF LedgerStep, Ledger!LedgerNext

LEMMA CloseStep ==
  ASSUME IInv, NEW close \in Nat, NEW at, position > 0, ClosePosition(close, at)
  PROVE  LedgerStep
<1>1. /\ cash' \in Nat /\ position' = 0
      /\ realized' = realized + (cash' - costBasis)
  BY CloseKeepsBooks
<1>2. Ledger!Close
  BY <1>1 DEF Ledger!Close
<1>3. QED
  BY <1>2 DEF LedgerStep, Ledger!LedgerNext

LEMMA BarStep ==
  ASSUME IInv, NEW close \in Closes, BuyBar(close) \/ SellBar(close) \/ HoldBar(close)
  PROVE  IInv' /\ LedgerStep
<1>1. /\ bar \in Nat /\ bar' = bar + 1 /\ lastClose' = close /\ close \in Nat
      /\ done' = done /\ ~done /\ UpdateEquity(close)
  BY EngineAssumption DEF BuyBar, SellBar, HoldBar, Bar, IInv, Types
<1>2. \/ CanBuy(close) /\ OpenPosition(close, bar + 1)
      \/ position > 0 /\ ClosePosition(close, bar + 1)
      \/ NoFill
  BY DEF BuyBar, SellBar, HoldBar
<1>3. /\ cash' \in Nat /\ position' \in Nat /\ entryPrice' \in Nat
      /\ costBasis' \in Nat /\ openedAt' \in Nat /\ realized' \in Int
      /\ AllInOrAllOut' /\ Books' /\ LedgerStep
  <2>1. CASE CanBuy(close) /\ OpenPosition(close, bar + 1)
    <3>1. LedgerStep
      BY <1>1, <2>1, OpenStep
    <3>2. /\ cash' = 0 /\ costBasis' \in Nat \ {0} /\ position' \in Nat \ {0}
          /\ entryPrice' \in Nat /\ openedAt' \in 1..bar' /\ openedAt' \in Nat
          /\ realized' = realized /\ realized' = costBasis' - InitialCapital
      BY <1>1, <2>1, OpenKeepsBooks
    <3>3. realized' \in Int
      BY <3>2 DEF IInv, Types
    <3>4. QED
      BY <3>1, <3>2, <3>3 DEF AllInOrAllOut, Books
  <2>2. CASE position > 0 /\ ClosePosition(close, bar + 1)
    <3>1. LedgerStep
      BY <1>1, <2>2, CloseStep
    <3>2. /\ cash' \in Nat /\ position' = 0 /\ entryPrice' = 0
          /\ costBasis' = 0 /\ openedAt' = 0
          /\ realized' \in Int /\ realized' = cash' - InitialCapital
      BY <1>1, <2>2, CloseKeepsBooks
    <3>3. QED
      BY <3>1, <3>2 DEF AllInOrAllOut, Books
  <2>3. CASE NoFill
    <3>1. /\ UNCHANGED <<cash, position, entryPrice, costBasis, openedAt, realized>>
          /\ LedgerStep
      BY <2>3, NoFillStep
    <3>2. AllInOrAllOut'
      BY <1>1, <3>1 DEF IInv, AllInOrAllOut
    <3>3. QED
      BY <3>1, <3>2 DEF IInv, Types, Books
  <2>4. QED
    BY <1>2, <2>1, <2>2, <2>3
<1>4. equity' \in Nat /\ (position' = 0 => equity' = cash')
  BY <1>1, <1>3, EquityIsNat
<1>5. done' \in BOOLEAN /\ ~done'
  BY <1>1, Zenon DEF IInv, Types
<1>6. Types'
  BY <1>1, <1>3, <1>4, <1>5 DEF Types
<1>7. Valued'
  BY <1>4, <1>5 DEF Valued
<1>8. QED
  BY <1>3, <1>6, <1>7 DEF IInv

LEMMA FinishStep ==
  ASSUME IInv, Finish
  PROVE  IInv' /\ LedgerStep
<1>1. bar' = bar /\ lastClose' = lastClose /\ done' = TRUE
  BY DEF Finish
<1>2. /\ cash' \in Nat /\ position' = 0 /\ entryPrice' = 0
      /\ costBasis' = 0 /\ openedAt' = 0 /\ realized' \in Int
      /\ realized' = cash' - InitialCapital
      /\ equity' \in Nat /\ equity' = cash' /\ LedgerStep
  <2>1. CASE /\ position > 0
             /\ ClosePosition(lastClose, bar)
             /\ UpdateEquity(lastClose)
    <3>1. lastClose \in Nat
      BY DEF IInv, Types
    <3>2. LedgerStep
      BY <2>1, <3>1, CloseStep
    <3>3. /\ cash' \in Nat /\ position' = 0 /\ entryPrice' = 0
          /\ costBasis' = 0 /\ openedAt' = 0
          /\ realized' \in Int /\ realized' = cash' - InitialCapital
      BY <2>1, <3>1, CloseKeepsBooks
    <3>4. equity' \in Nat /\ equity' = cash'
      BY <2>1, <3>1, <3>3, EquityIsNat
    <3>5. QED
      BY <3>2, <3>3, <3>4
  <2>2. CASE position = 0 /\ NoFill /\ UNCHANGED equity
    <3>1. /\ UNCHANGED <<cash, position, entryPrice, costBasis, openedAt, realized>>
          /\ LedgerStep
      BY <2>2, NoFillStep
    <3>2. QED
      BY <2>2, <3>1 DEF IInv, Types, AllInOrAllOut, Books, Valued
  <2>3. QED
    BY <2>1, <2>2 DEF Finish
<1>3. done' \in BOOLEAN
  BY <1>1, Zenon
<1>4. Types'
  BY <1>1, <1>2, <1>3 DEF IInv, Types
<1>5. AllInOrAllOut' /\ Books' /\ Valued'
  BY <1>2 DEF AllInOrAllOut, Books, Valued
<1>6. QED
  BY <1>2, <1>4, <1>5 DEF IInv

LEMMA NextIInv == IInv /\ [Next]_vars => IInv' /\ LedgerStep
<1> SUFFICES ASSUME IInv, [Next]_vars PROVE IInv' /\ LedgerStep
  OBVIOUS
<1>1. ASSUME NEW close \in Closes, BuyBar(close) \/ SellBar(close) \/ HoldBar(close)
      PROVE  IInv' /\ LedgerStep
  BY <1>1, BarStep
<1>2. CASE Finish
  BY <1>2, FinishStep
<1>3. CASE UNCHANGED vars
  BY <1>3 DEF vars, IInv, Types, AllInOrAllOut, Books, Valued,
              LedgerStep, Ledger!ledgerVars
<1>4. QED
  BY <1>1, <1>2, <1>3 DEF Next

\* The strengthened invariant holds of every back-test.
THEOREM Accounting == Spec => []IInv
<1>1. Init => IInv
  BY InitIInv
<1>2. IInv /\ [Next]_vars => IInv'
  BY NextIInv
<1>3. QED
  BY <1>1, <1>2, PTL DEF Spec

\* The profits of a report add up to the change of the portfolio value: the
\* DataIntegrityError of analytics/metrics.py is never raised on a report of
\* the engine, whatever the strategy, the prices and the costs.
THEOREM Integrity == Spec => []PnlIntegrity
<1>1. IInv => PnlIntegrity
  BY DEF IInv, Types, Books, Valued, PnlIntegrity
<1>2. QED
  BY <1>1, Accounting, PTL

\* No cash is left beside a position, and nothing of an earlier trade is left
\* in a flat account.
THEOREM AllIn == Spec => []AllInOrAllOut
<1>1. IInv => AllInOrAllOut
  BY DEF IInv
<1>2. QED
  BY <1>1, Accounting, PTL

\* The engine implements the abstract ledger.
THEOREM Refinement == Spec => ImplementsLedger
<1>1. Init => Ledger!LedgerInit
  BY EngineAssumption DEF Init, Ledger!LedgerInit
<1>2. IInv /\ [Next]_vars => [Ledger!LedgerNext]_(Ledger!ledgerVars)
  BY NextIInv DEF LedgerStep
<1>3. QED
  BY <1>1, <1>2, Accounting, PTL DEF Spec, ImplementsLedger, Ledger!LedgerSpec

-----------------------------------------------------------------------------
(***************************************************************************)
(* The report: the trade log and the equity curve.  TradesInOrder is not   *)
(* inductive: the trade that is open will have to begin after the last one *)
(* in the log (OpenAfterLast).                                             *)
(***************************************************************************)
OpenAfterLast ==
  position > 0 /\ tradeLog # <<>> => tradeLog[Len(tradeLog)].closedAt < openedAt

Logged == tradeLog \in Seq(Trade) /\ TradesInOrder /\ OpenAfterLast

Drawn == bar \in 0..MaxCandles /\ curve \in Seq(Nat) /\ CurveMatchesReport

LEMMA InitReport == Init => Logged /\ Drawn
<1> SUFFICES ASSUME Init PROVE Logged /\ Drawn
  OBVIOUS
<1>1. Logged
  BY DEF Init, Logged, TradesInOrder, OpenAfterLast
<1>2. Drawn
  BY EngineAssumption DEF Init, Drawn, CurveMatchesReport
<1> QED BY <1>1, <1>2

\* Prices, quantities and times of a closed position make a Trade.
LEMMA CloseMakesTrade ==
  ASSUME IInv, NEW close \in Nat, NEW at \in Nat, position > 0, ClosePosition(close, at)
  PROVE  \E trade \in Trade : /\ tradeLog' = Append(tradeLog, trade)
                             /\ trade.openedAt = openedAt
                             /\ trade.closedAt = at
                             /\ trade.quantity = position
                             /\ realized' = realized + trade.pnl
<1> DEFINE t == [openedAt |-> openedAt, closedAt |-> at,
                 quantity |-> position, entryPrice |-> entryPrice,
                 exitPrice |-> SellPrice(close),
                 pnl |-> NetProceeds(position, close) - EntryCost]
<1>1. NetProceeds(position, close) \in Nat
  BY ProceedsAreNat DEF IInv, Types
<1>2. EntryCost = costBasis
  BY DEF EntryCost, IInv, Types, AllInOrAllOut
<1>3. t \in Trade
  BY <1>1, <1>2, PricesAreNat DEF Trade, IInv, Types
<1>4. tradeLog' = Append(tradeLog, t) /\ realized' = realized + t.pnl
  BY DEF ClosePosition
<1> QED BY <1>3, <1>4

\* The times in the log are naturals.
LEMMA TimesAreNat ==
  ASSUME Logged, NEW i \in 1..Len(tradeLog)
  PROVE  tradeLog[i].openedAt \in Nat /\ tradeLog[i].closedAt \in Nat
<1>1. tradeLog[i] \in Trade
  BY DEF Logged
<1> QED BY <1>1 DEF Trade

\* While the run goes on no trade has closed on the bar that opened it.
InOrderUpTo(log, last) ==
  \A i \in 1..Len(log) :
    /\ log[i].openedAt \in 1..log[i].closedAt
    /\ log[i].closedAt <= last
    /\ i > 1 => log[i - 1].closedAt < log[i].openedAt
    /\ log[i].openedAt # log[i].closedAt

LEMMA RunningIsInOrder == ~done => (TradesInOrder <=> InOrderUpTo(tradeLog, bar))
  BY Zenon DEF TradesInOrder, InOrderUpTo

LEMMA RunningStaysInOrder == ~done' => (TradesInOrder' <=> InOrderUpTo(tradeLog', bar'))
  BY Zenon DEF TradesInOrder, InOrderUpTo

\* Booking the open position after the bars before it keeps the log in order.
LEMMA CloseKeepsOrder ==
  ASSUME IInv, Logged, ~done, NEW close \in Nat, NEW at \in Nat,
         position > 0, ClosePosition(close, at), at >= bar, bar' = at,
         openedAt = at => done'
  PROVE  Logged'
<1>1. PICK trade \in Trade : /\ tradeLog' = Append(tradeLog, trade)
                            /\ trade.openedAt = openedAt
                            /\ trade.closedAt = at
  BY CloseMakesTrade
<1>2. tradeLog \in Seq(Trade) /\ openedAt \in 1..bar /\ bar \in Nat
  BY DEF Logged, IInv, Types, AllInOrAllOut
<1>3. /\ tradeLog' \in Seq(Trade) /\ Len(tradeLog') = Len(tradeLog) + 1
      /\ tradeLog'[Len(tradeLog')] = trade
      /\ \A i \in 1..Len(tradeLog) : tradeLog'[i] = tradeLog[i]
      /\ Len(tradeLog) \in Nat
  BY <1>1, <1>2
<1>4. InOrderUpTo(tradeLog, bar)
  BY RunningIsInOrder DEF Logged
<1>5. ASSUME NEW i \in 1..Len(tradeLog)
      PROVE  /\ tradeLog'[i].openedAt \in 1..tradeLog'[i].closedAt
             /\ tradeLog'[i].closedAt <= bar'
             /\ i > 1 => tradeLog'[i - 1].closedAt < tradeLog'[i].openedAt
             /\ tradeLog'[i].openedAt # tradeLog'[i].closedAt
  <2>1. tradeLog'[i] = tradeLog[i] /\ (i > 1 => tradeLog'[i - 1] = tradeLog[i - 1])
    BY <1>3
  <2>2. tradeLog[i].closedAt \in Nat
    BY TimesAreNat
  <2> QED BY <1>2, <1>4, <2>1, <2>2 DEF InOrderUpTo
<1>6. Len(tradeLog') > 1 => tradeLog'[Len(tradeLog') - 1].closedAt < openedAt
  <2>1. tradeLog # <<>> => tradeLog[Len(tradeLog)].closedAt < openedAt
    BY DEF Logged, OpenAfterLast
  <2> QED BY <1>2, <1>3, <2>1
<1>7. ASSUME NEW i \in 1..Len(tradeLog')
      PROVE  /\ tradeLog'[i].openedAt \in 1..tradeLog'[i].closedAt
             /\ tradeLog'[i].closedAt <= bar'
             /\ i > 1 => tradeLog'[i - 1].closedAt < tradeLog'[i].openedAt
             /\ i = Len(tradeLog') \/ tradeLog'[i].openedAt # tradeLog'[i].closedAt
  <2>1. CASE i \in 1..Len(tradeLog)
    BY <1>5, <2>1
  <2>2. CASE i = Len(tradeLog')
    BY <1>1, <1>2, <1>3, <1>6, <2>2
  <2> QED BY <1>3, <2>1, <2>2
<1>8. tradeLog'[Len(tradeLog')].openedAt = tradeLog'[Len(tradeLog')].closedAt => done'
  <2>1. trade.openedAt = trade.closedAt => done'
    BY <1>1, Zenon
  <2> QED BY <1>3, <2>1, Zenon
<1>9. TradesInOrder'
  BY <1>7, <1>8, Zenon DEF TradesInOrder
<1>10. OpenAfterLast'
  <2>1. position' = 0
    BY CloseKeepsBooks
  <2> QED BY <2>1 DEF OpenAfterLast
<1> QED BY <1>3, <1>9, <1>10 DEF Logged

\* A later bar does not put a log out of order, nor does a position opened at it.
LEMMA LaterKeepsOrder ==
  ASSUME IInv, Logged, ~done, ~done', UNCHANGED tradeLog, bar' = bar + 1,
         \/ UNCHANGED <<position, openedAt>>
         \/ openedAt' = bar + 1
  PROVE  Logged'
<1>1. bar \in Nat /\ tradeLog \in Seq(Trade) /\ Len(tradeLog) \in Nat
  BY DEF IInv, Types, Logged
<1>2. InOrderUpTo(tradeLog, bar)
  BY RunningIsInOrder DEF Logged
<1>3. ASSUME NEW i \in 1..Len(tradeLog)
      PROVE  tradeLog[i].closedAt \in Nat /\ tradeLog[i].closedAt < bar + 1
  BY <1>1, <1>2, TimesAreNat DEF InOrderUpTo
<1>4. InOrderUpTo(tradeLog', bar')
  BY <1>1, <1>2, <1>3 DEF InOrderUpTo
<1>5. TradesInOrder'
  BY <1>4, RunningStaysInOrder
<1>6. OpenAfterLast'
  <2>1. CASE UNCHANGED <<position, openedAt>>
    BY <2>1 DEF Logged, OpenAfterLast
  <2>2. CASE openedAt' = bar + 1
    <3>1. tradeLog # <<>> => Len(tradeLog) \in 1..Len(tradeLog)
      BY <1>1
    <3> QED BY <1>3, <2>2, <3>1 DEF OpenAfterLast
  <2> QED BY <2>1, <2>2
<1> QED BY <1>1, <1>5, <1>6 DEF Logged

LEMMA BarReport ==
  ASSUME IInv, Logged, Drawn, NEW close \in Closes,
         BuyBar(close) \/ SellBar(close) \/ HoldBar(close)
  PROVE  Logged' /\ Drawn'
<1>1. /\ bar \in 0..MaxCandles /\ MaxCandles \in Nat /\ bar < MaxCandles /\ bar' = bar + 1
      /\ curve' = Append(curve, equity') /\ close \in Nat
  BY EngineAssumption DEF BuyBar, SellBar, HoldBar, Bar, Drawn
<1>2. ~done /\ ~done'
  <2>1. ~done /\ UNCHANGED done
    BY Zenon DEF BuyBar, SellBar, HoldBar, Bar
  <2> QED BY <2>1, Zenon
<1>3. Drawn'
  <2>1. equity' \in Nat
    BY BarStep DEF IInv, Types
  <2> QED BY <1>1, <2>1 DEF Drawn, CurveMatchesReport
<1>4. CASE CanBuy(close) /\ OpenPosition(close, bar + 1)
  <2>1. UNCHANGED tradeLog /\ openedAt' = bar + 1
    BY <1>4 DEF OpenPosition
  <2> QED BY <1>1, <1>2, <1>3, <2>1, LaterKeepsOrder, Zenon
<1>5. CASE position > 0 /\ ClosePosition(close, bar + 1)
  <2>1. openedAt # bar + 1
    BY <1>1, <1>5 DEF IInv, AllInOrAllOut
  <2>2. bar + 1 \in Nat /\ bar + 1 >= bar
    BY <1>1
  <2> QED BY <1>1, <1>2, <1>3, <1>5, <2>1, <2>2, CloseKeepsOrder, Zenon
<1>6. CASE NoFill
  <2>1. UNCHANGED tradeLog /\ UNCHANGED <<position, openedAt>>
    BY <1>6 DEF NoFill, account
  <2> QED BY <1>1, <1>2, <1>3, <2>1, LaterKeepsOrder, Zenon
<1> QED
  BY <1>3, <1>4, <1>5, <1>6 DEF BuyBar, SellBar, HoldBar

LEMMA FinishReport ==
  ASSUME IInv, Logged, Drawn, Finish
  PROVE  Logged' /\ Drawn'
<1>1. ~done /\ done' /\ bar' = bar /\ bar \in Nat /\ lastClose \in Nat
  BY DEF Finish, IInv, Types
<1>2. curve \in Seq(Nat) /\ Len(curve) = bar + 1 /\ curve[1] = InitialCapital
      /\ curve[Len(curve)] = equity
  BY DEF Drawn, CurveMatchesReport
<1>3. CASE /\ position > 0
           /\ ClosePosition(lastClose, bar)
           /\ UpdateEquity(lastClose)
           /\ curve' = [curve EXCEPT ![Len(curve)] = equity']
  <2>1. Logged'
    BY <1>1, <1>3, CloseKeepsOrder
  <2>2. equity' \in Nat
    BY FinishStep DEF IInv, Types
  <2>3. bar >= 1
    BY <1>1, <1>3 DEF IInv, AllInOrAllOut
  <2>4. curve' \in Seq(Nat) /\ Len(curve') = Len(curve)
        /\ curve'[1] = InitialCapital /\ curve'[Len(curve)] = equity'
    BY <1>1, <1>2, <1>3, <2>2, <2>3
  <2> QED BY <1>1, <1>2, <2>1, <2>4 DEF Drawn, CurveMatchesReport
<1>4. CASE position = 0 /\ NoFill /\ UNCHANGED <<equity, curve>>
  <2>1. UNCHANGED <<tradeLog, position, openedAt>> /\ tradeLog \in Seq(Trade)
    BY <1>4 DEF NoFill, account, Logged
  <2>2. TradesInOrder'
    BY <1>1, <2>1 DEF Logged, TradesInOrder
  <2> QED
    BY <1>1, <1>4, <2>1, <2>2 DEF Logged, OpenAfterLast, Drawn, CurveMatchesReport
<1> QED BY <1>3, <1>4 DEF Finish

LEMMA NextReport == IInv /\ Logged /\ Drawn /\ [Next]_vars => Logged' /\ Drawn'
<1> SUFFICES ASSUME IInv, Logged, Drawn, [Next]_vars PROVE Logged' /\ Drawn'
  OBVIOUS
<1>1. CASE UNCHANGED vars
  BY <1>1 DEF vars, Logged, Drawn, TradesInOrder, OpenAfterLast, CurveMatchesReport
<1> QED BY <1>1, BarReport, FinishReport DEF Next

\* Every trade log is in order and every equity curve fits its report.
THEOREM Reports == Spec => [](TradesInOrder /\ CurveMatchesReport)
<1>1. Logged /\ Drawn => TradesInOrder /\ CurveMatchesReport
  BY DEF Logged, Drawn
<1>2. QED
  BY <1>1, InitReport, NextReport, Accounting, PTL DEF Spec

\* The account, the trade log and the curve keep their types: in particular no
\* rounding, fee or slippage makes the cash or the equity negative.
THEOREM TypeCorrect == Spec => []TypeOK
<1>1. IInv /\ Logged /\ Drawn => TypeOK
  BY DEF IInv, Types, Logged, Drawn, TypeOK
<1>2. QED
  BY <1>1, InitReport, NextReport, Accounting, PTL DEF Spec

-----------------------------------------------------------------------------
(***************************************************************************)
(* The costs.  What a position is worth at its entry price is no more than *)
(* what was paid for it (Bought): rounding, commission and slippage all go *)
(* against the trader.  Selling at no more than the entry price therefore  *)
(* brings in no more than the cost basis.                                  *)
(***************************************************************************)
Bought == position > 0 => position * entryPrice <= costBasis * Unit

\* A smaller factor makes a smaller product.
LEMMA ProductIsMonotonic ==
  ASSUME NEW x \in Nat, NEW a \in Nat, NEW b \in Nat, a <= b
  PROVE  x * a <= x * b
  OBVIOUS

\* Rounding down never adds.
LEMMA QuotientTimesDivisor ==
  ASSUME NEW x \in Nat, NEW d \in Nat \ {0}
  PROVE  (x \div d) * d <= x
  OBVIOUS

LEMMA QuotientIsBounded ==
  ASSUME NEW x \in Nat, NEW d \in Nat \ {0}, NEW y \in Nat, x <= y * d
  PROVE  x \div d <= y
  OBVIOUS

\* A buy never gets more units than the money pays for.
LEMMA OpenIsBought ==
  ASSUME IInv, NEW close \in Closes, CanBuy(close),
         OpenPosition(close, bar + 1), bar' = bar + 1
  PROVE  Bought'
<1> DEFINE S == Spendable(cash)
           B == BuyPrice(close)
<1>1. S \in Nat /\ S <= cash /\ cash \in Nat
  BY FeeBound DEF Spendable, IInv, Types
<1>2. B \in Nat \ {0}
  BY PricesAreNat, EngineAssumption DEF CanBuy
<1>3. Unit \in Nat \ {0}
  BY EngineAssumption
<1>4. position' = Quantity(cash, close) /\ entryPrice' = B /\ costBasis' = cash
  <2>1. Quantity(cash, close) \in Nat
    BY BuyFills DEF CanBuy, IInv, Types
  <2> QED BY <2>1 DEF OpenPosition, CanBuy
<1>5. Quantity(cash, close) = (S * Unit) \div B
  BY DEF Quantity
<1> HIDE DEF S, B
<1>6. S * Unit \in Nat
  BY <1>1, <1>3, ProductIsNat
<1>7. ((S * Unit) \div B) * B <= S * Unit
  BY <1>2, <1>6, QuotientTimesDivisor
<1>8. S * Unit <= cash * Unit
  <2>1. Unit * S <= Unit * cash
    BY <1>1, <1>3, ProductIsMonotonic
  <2> QED BY <1>1, <1>3, <2>1
<1>9. (S * Unit) \div B \in Nat /\ cash * Unit \in Nat
  BY <1>1, <1>2, <1>3, <1>6, QuotientIsNat, ProductIsNat
<1>10. ((S * Unit) \div B) * B \in Nat
  BY <1>2, <1>9, ProductIsNat
<1>11. ((S * Unit) \div B) * B <= cash * Unit
  BY <1>6, <1>7, <1>8, <1>9, <1>10
<1> QED BY <1>4, <1>5, <1>11 DEF Bought

\* The trade that is booked shows no profit when it sold at or below its entry.
LEMMA CloseCosts ==
  ASSUME IInv, Bought, NEW close \in Nat, NEW at \in Nat,
         position > 0, ClosePosition(close, at), SellPrice(close) <= entryPrice
  PROVE  NetProceeds(position, close) - EntryCost <= 0
<1> DEFINE X == SellPrice(close)
           G == Gross(position, close)
<1>1. X \in Nat /\ X <= entryPrice /\ entryPrice \in Nat /\ position \in Nat
  BY PricesAreNat DEF IInv, Types
<1>2. costBasis \in Nat /\ EntryCost = costBasis /\ Unit \in Nat \ {0}
  BY EngineAssumption DEF EntryCost, IInv, Types, AllInOrAllOut
<1>3. G = (position * X) \div Unit /\ NetProceeds(position, close) = G - Fee(G)
  BY DEF Gross, NetProceeds
<1>4. position * entryPrice <= costBasis * Unit
  BY DEF Bought
<1> HIDE DEF X, G
<1>5. position * X <= costBasis * Unit
  <2>1. position * X <= position * entryPrice
    BY <1>1, ProductIsMonotonic
  <2>2. position * X \in Nat /\ position * entryPrice \in Nat /\ costBasis * Unit \in Nat
    BY <1>1, <1>2, ProductIsNat
  <2> QED BY <1>4, <2>1, <2>2
<1>6. position * X \in Nat
  BY <1>1, ProductIsNat
<1>7. G <= costBasis /\ G \in Nat
  BY <1>2, <1>3, <1>5, <1>6, QuotientIsBounded, QuotientIsNat
<1>8. Fee(G) \in 0..G
  BY <1>7, FeeBound
<1> QED BY <1>2, <1>3, <1>7, <1>8

\* The trades of the log, and the one that is open.
Charged == Bought /\ CostsNeverPay

LEMMA CloseIsCharged ==
  ASSUME IInv, Logged, Charged, NEW close \in Nat, NEW at \in Nat,
         position > 0, ClosePosition(close, at)
  PROVE  Charged'
<1> DEFINE t == [openedAt |-> openedAt, closedAt |-> at,
                 quantity |-> position, entryPrice |-> entryPrice,
                 exitPrice |-> SellPrice(close),
                 pnl |-> NetProceeds(position, close) - EntryCost]
<1>1. tradeLog' = Append(tradeLog, t) /\ tradeLog \in Seq(Trade) /\ t \in Trade
  <2>1. NetProceeds(position, close) \in Nat
    BY ProceedsAreNat DEF IInv, Types
  <2>2. EntryCost = costBasis
    BY DEF EntryCost, IInv, Types, AllInOrAllOut
  <2>3. t \in Trade
    BY <2>1, <2>2, PricesAreNat DEF Trade, IInv, Types
  <2> QED BY <2>3 DEF ClosePosition, Logged
<1>2. t.exitPrice <= t.entryPrice => t.pnl <= 0
  BY CloseCosts DEF Charged
<1> HIDE DEF t
<1>3. /\ Len(tradeLog') = Len(tradeLog) + 1 /\ Len(tradeLog) \in Nat
      /\ tradeLog'[Len(tradeLog')] = t
      /\ \A i \in 1..Len(tradeLog) : tradeLog'[i] = tradeLog[i]
  BY <1>1
<1>4. CostsNeverPay'
  <2> SUFFICES ASSUME NEW i \in 1..Len(tradeLog')
               PROVE  tradeLog'[i].exitPrice <= tradeLog'[i].entryPrice
                        => tradeLog'[i].pnl <= 0
    BY DEF CostsNeverPay
  <2>1. CASE i \in 1..Len(tradeLog)
    BY <1>3, <2>1 DEF Charged, CostsNeverPay
  <2>2. CASE i = Len(tradeLog')
    BY <1>2, <1>3, <2>2
  <2> QED BY <1>3, <2>1, <2>2
<1>5. Bought'
  <2>1. position' = 0
    BY CloseKeepsBooks
  <2> QED BY <2>1 DEF Bought
<1> QED BY <1>4, <1>5 DEF Charged

LEMMA NextCharged ==
  IInv /\ Logged /\ Charged /\ [Next]_vars => Charged'
<1> SUFFICES ASSUME IInv, Logged, Charged, [Next]_vars PROVE Charged'
  OBVIOUS
<1>1. ASSUME NoFill PROVE Charged'
  BY <1>1 DEF NoFill, account, Charged, Bought, CostsNeverPay
<1>2. ASSUME NEW close \in Closes, BuyBar(close) \/ SellBar(close) \/ HoldBar(close)
      PROVE  Charged'
  <2>1. close \in Nat /\ bar + 1 \in Nat /\ bar' = bar + 1
    BY <1>2, EngineAssumption DEF BuyBar, SellBar, HoldBar, Bar, IInv, Types
  <2>2. CASE CanBuy(close) /\ OpenPosition(close, bar + 1)
    <3>1. Bought'
      BY <2>1, <2>2, OpenIsBought
    <3>2. UNCHANGED tradeLog
      BY <2>2 DEF OpenPosition
    <3> QED BY <3>1, <3>2 DEF Charged, CostsNeverPay
  <2>3. CASE position > 0 /\ ClosePosition(close, bar + 1)
    BY <2>1, <2>3, CloseIsCharged
  <2> QED BY <1>1, <1>2, <2>2, <2>3 DEF BuyBar, SellBar, HoldBar
<1>3. CASE Finish
  <2>1. lastClose \in Nat /\ bar \in Nat
    BY DEF IInv, Types
  <2> QED BY <1>1, <1>3, <2>1, CloseIsCharged DEF Finish
<1>4. CASE UNCHANGED vars
  BY <1>4 DEF vars, Charged, Bought, CostsNeverPay
<1> QED BY <1>2, <1>3, <1>4 DEF Next

\* No sequence of signals and prices makes a profit of a price that did not rise:
\* whatever the commission, the slippage and the rounding of the quantities
\* (OrderExecutor.execute and close_position).
THEOREM CostsAreCosts == Spec => []CostsNeverPay
<1>1. Init => Charged
  BY DEF Init, Charged, Bought, CostsNeverPay
<1>2. Charged => CostsNeverPay
  BY DEF Charged
<1>3. QED
  BY <1>1, <1>2, NextCharged, InitReport, NextReport, Accounting, PTL DEF Spec

-----------------------------------------------------------------------------
(***************************************************************************)
(* The rules of a composable strategy.                                     *)
(***************************************************************************)
Memories == [wasLong : BOOLEAN, peakPrice : Nat, stopLevel : Int,
             peakEquity : Int, barsInTrade : Nat]
Effects == [type : {"SL", "TP"}, level : Int]
Signals == {"BUY", "SELL", "HOLD"}

\* What the rules may make of a context: the memory and the effects are theirs.
Contexts(ctx) ==
  [closes : {ctx.closes}, series : {ctx.series}, time : {ctx.time},
   weekday : {ctx.weekday}, long : {ctx.long}, entry : {ctx.entry},
   equity : {ctx.equity}, memory : Memories, effects : Seq(Effects)]
Outcomes(ctx) == [ctx : Contexts(ctx), signal : Signals, decided : BOOLEAN]

\* There is one stop-loss effect at most.
OneStop(list) ==
  \A i, j \in DOMAIN list : list[i].type = "SL" /\ list[j].type = "SL" => i = j

\* A buy records one level of each kind.
LEMMA NoteLevelsProperties ==
  ASSUME NEW ctx, NEW c \in Contexts(ctx), Price(ctx) \in Nat,
         NEW rule, SoundRule(rule), rule.then.do = "buy"
  PROVE  LET new == NoteLevels(c, rule.then)
         IN  /\ new \in Contexts(ctx)
             /\ new.memory = c.memory
             /\ c.effects = <<>> => OneStop(new.effects)
<1> DEFINE a == rule.then
           sl == IF "stopLoss" \in DOMAIN a
                 THEN << Effect("SL", Price(c) * (100 - a.stopLoss)) >> ELSE <<>>
           tp == IF "takeProfit" \in DOMAIN a
                 THEN << Effect("TP", Price(c) * (100 + a.takeProfit)) >> ELSE <<>>
           list == c.effects \o sl \o tp
           new == NoteLevels(c, a)
<1>1. /\ "stopLoss" \in DOMAIN a => a.stopLoss \in Int
      /\ "takeProfit" \in DOMAIN a => a.takeProfit \in Int
  BY DEF SoundRule
<1>2. Price(c) \in Nat
  BY DEF Price, Contexts
<1>3. sl \in Seq(Effects) /\ Len(sl) <= 1
  <2>1. CASE "stopLoss" \in DOMAIN a
    <3>1. Price(c) * (100 - a.stopLoss) \in Int
      BY <1>1, <1>2, <2>1, ProductIsInt
    <3> QED BY <2>1, <3>1 DEF Effect, Effects
  <2>2. CASE "stopLoss" \notin DOMAIN a
    BY <2>2
  <2> QED BY <2>1, <2>2
<1>4. tp \in Seq(Effects) /\ \A i \in DOMAIN tp : tp[i].type = "TP"
  <2>1. CASE "takeProfit" \in DOMAIN a
    <3>1. Price(c) * (100 + a.takeProfit) \in Int
      BY <1>1, <1>2, <2>1, ProductIsInt
    <3> QED BY <2>1, <3>1 DEF Effect, Effects
  <2>2. CASE "takeProfit" \notin DOMAIN a
    BY <2>2
  <2> QED BY <2>1, <2>2
<1>5. c.effects \in Seq(Effects)
  BY DEF Contexts
<1>6. new = [c EXCEPT !.effects = list]
  BY DEF NoteLevels
<1> HIDE DEF sl, tp, a
<1>7. list \in Seq(Effects)
  BY <1>3, <1>4, <1>5
<1>8. c.effects = <<>> => OneStop(list)
  <2> SUFFICES ASSUME c.effects = <<>> PROVE OneStop(list)
    OBVIOUS
  <2>1. /\ Len(list) = Len(sl) + Len(tp)
        /\ \A i \in 1..Len(sl) : list[i] = sl[i]
        /\ \A i \in 1..Len(tp) : list[Len(sl) + i] = tp[i]
    BY <1>3, <1>4, <1>5
  <2>2. \A i \in DOMAIN list : list[i].type = "SL" => i = 1
    <3> SUFFICES ASSUME NEW i \in DOMAIN list, i # 1 PROVE list[i].type = "TP"
      OBVIOUS
    <3>1. i \in 1..Len(list) /\ Len(sl) \in {0, 1} /\ Len(tp) \in Nat
      <4>1. Len(sl) \in Nat /\ Len(sl) <= 1
        BY <1>3
      <4>2. Len(tp) \in Nat
        BY <1>4
      <4>3. i \in 1..Len(list)
        BY <1>7
      <4> HIDE DEF list
      <4>4. \A m \in Nat : m <= 1 => m \in {0, 1}
        OBVIOUS
      <4> QED BY <4>1, <4>2, <4>3, <4>4
    <3> HIDE DEF list
    <3>2. i - Len(sl) \in 1..Len(tp) /\ i = Len(sl) + (i - Len(sl))
      BY <2>1, <3>1
    <3>3. list[i] = tp[i - Len(sl)]
      BY <2>1, <3>2
    <3> QED BY <1>4, <3>2, <3>3
  <2> QED BY <2>2 DEF OneStop
<1> HIDE DEF list
<1>9. new.memory = c.memory /\ new.effects = list
  BY <1>6 DEF Contexts
<1>10. new \in Contexts(ctx)
  BY <1>6, <1>7 DEF Contexts
<1> QED BY <1>8, <1>9, <1>10 DEF a

\* A moved stop never falls, and is the only stop-loss effect.
StopIsMoved(new, old, price, trailing) ==
  LET peak == Larger(old.peakPrice, price)
      stop == Larger(old.stopLevel, peak * (100 - trailing))
  IN  /\ new = [old EXCEPT !.peakPrice = peak, !.stopLevel = stop]
      /\ peak \in Nat /\ stop \in Int

LEMMA MoveStopProperties ==
  ASSUME NEW ctx, NEW c \in Contexts(ctx), Price(ctx) \in Nat,
         NEW action, action.trailing \in 0..100
  PROVE  /\ MoveStop(c, action) \in Contexts(ctx)
         /\ StopIsMoved(MoveStop(c, action).memory, c.memory, Price(ctx), action.trailing)
         /\ OneStop(MoveStop(c, action).effects)
<1> DEFINE peak == Larger(c.memory.peakPrice, Price(ctx))
           stop == Larger(c.memory.stopLevel, peak * (100 - action.trailing))
           others == Kept(c.effects, {e \in Range(c.effects) : e.type # "SL"})
           list == Append(others, Effect("SL", stop))
           memory2 == [c.memory EXCEPT !.peakPrice = peak, !.stopLevel = stop]
           new == MoveStop(c, action)
<1>1. Price(c) = Price(ctx) /\ c.memory \in Memories /\ c.effects \in Seq(Effects)
  BY DEF Price, Contexts
<1>2. peak \in Nat
  BY <1>1 DEF Larger, Memories
<1>3. stop \in Int
  <2> HIDE DEF peak
  <2>0. c.memory.stopLevel \in Int
    BY <1>1 DEF Memories
  <2>1. c.memory.stopLevel \in Int /\ 100 - action.trailing \in Int /\ peak \in Int
    BY <1>2, <2>0
  <2>2. peak * (100 - action.trailing) \in Int
    BY <2>1, ProductIsInt
  <2> QED BY <2>1, <2>2 DEF Larger
<1>4. new = [c EXCEPT !.memory = memory2, !.effects = list]
  BY <1>1 DEF MoveStop, Contexts, Memories
<1> HIDE DEF peak, stop
<1>5. memory2 \in Memories
  BY <1>1, <1>2, <1>3 DEF Memories
<1>6. others \in Seq(Effects) /\ others \in Seq({e \in Range(c.effects) : e.type # "SL"})
  BY <1>1, KeptProperties
<1> HIDE DEF others
<1>7. list \in Seq(Effects)
  BY <1>3, <1>6 DEF Effect, Effects
<1>8. OneStop(list)
  <2>1. \A i \in 1..Len(others) : others[i].type # "SL"
    BY <1>6
  <2>2. /\ DOMAIN list = 1..(Len(others) + 1) /\ Len(others) \in Nat
        /\ \A i \in 1..Len(others) : list[i] = others[i]
    BY <1>6
  <2>3. \A i \in DOMAIN list : list[i].type = "SL" => i = Len(others) + 1
    BY <2>1, <2>2
  <2> QED BY <2>3 DEF OneStop
<1> HIDE DEF list, memory2
<1>9. new.memory = memory2 /\ new.effects = list
  BY <1>4 DEF Contexts
<1>10. new \in Contexts(ctx)
  BY <1>4, <1>5, <1>7 DEF Contexts
<1> QED BY <1>2, <1>3, <1>8, <1>9, <1>10 DEF memory2, peak, stop, StopIsMoved

\* The rules are considered one after the other, the highest priority first.
Scopes(ctx) == {"always", IF ctx.long THEN "long" ELSE "flat"}
Undecided(ctx) == [ctx |-> ctx, signal |-> "HOLD", decided |-> FALSE]

IsEvaluation(f, rules, ctx) ==
  LET sorted == ByPriority(rules)
  IN  /\ DOMAIN f = 0..Len(sorted)
      /\ f[0] = Undecided(ctx)
      /\ \A k \in 1..Len(sorted) : f[k] = Consider(Scopes(ctx), f[k - 1], sorted[k])
      /\ EvaluateRules(rules, ctx) = f[Len(sorted)]

LEMMA RulesUnroll ==
  ASSUME NEW T, NEW rules, ByPriority(rules) \in Seq(T), NEW ctx,
         NEW D, Undecided(ctx) \in D,
         \A o \in D : \A k \in DOMAIN ByPriority(rules) :
           Consider(Scopes(ctx), o, ByPriority(rules)[k]) \in D
  PROVE  \E f : IsEvaluation(f, rules, ctx)
                /\ \A k \in 0..Len(ByPriority(rules)) : f[k] \in D
<1> DEFINE sorted == ByPriority(rules)
           n == Len(sorted)
           base == Undecided(ctx)
           scopes == Scopes(ctx)
           g == [k \in 1..n |-> [o \in D |-> Consider(scopes, o, sorted[k])]]
           R(it) == it = [S \in SUBSET (1..n) |->
                            IF S = {} THEN base
                            ELSE Consider(scopes, it[S \ {Max(S)}], sorted[Max(S)])]
           t == CHOOSE it : R(it)
           f == [k \in 0..n |-> t[1..k]]
<1>1. sorted \in Seq(T) /\ n \in Nat /\ DOMAIN sorted = 1..n /\ base \in D
  OBVIOUS
<1>2. \A o \in D : \A k \in 1..n : Consider(scopes, o, sorted[k]) \in D
  BY <1>1
<1>3. EvaluateRules(rules, ctx) = t[1..n]
  <2>1. EvaluateRules(rules, ctx) =
          FoldLeft(LAMBDA acc, rule : Consider(scopes, acc, rule), base, sorted)
    BY DEF EvaluateRules, Scopes, Undecided
  <2> HIDE DEF sorted, base, scopes
  <2> QED BY <1>1, <2>1 DEF FoldLeft, MapThenFoldSet
<1> HIDE DEF sorted, n, base, scopes
<1>4. g \in [1..n -> [D -> D]]
  BY <1>2
<1>5. \A o \in D : \A k \in 1..n : g[k][o] = Consider(scopes, o, sorted[k])
  OBVIOUS
<1> HIDE DEF g, t
<1>6. \E it : R(it)
  <2>1. PICK it : IsFold(it, n, D, base, g)
    BY <1>1, <1>4, FoldExists
  <2>2. /\ it \in [SUBSET (1..n) -> D]
        /\ \A S \in SUBSET (1..n) :
             it[S] = IF S = {} THEN base ELSE g[Max(S)][it[S \ {Max(S)}]]
    BY <2>1 DEF IsFold
  <2>3. ASSUME NEW S \in SUBSET (1..n), S # {}
        PROVE  it[S] = Consider(scopes, it[S \ {Max(S)}], sorted[Max(S)])
    <3>1. Max(S) \in 1..n
      BY <1>1, <2>3, FoldPlaces
    <3>2. it[S \ {Max(S)}] \in D
      BY <2>2
    <3> QED BY <1>5, <2>2, <2>3, <3>1, <3>2
  <2>4. it = [S \in SUBSET (1..n) |->
                IF S = {} THEN base
                ELSE Consider(scopes, it[S \ {Max(S)}], sorted[Max(S)])]
    BY <2>2, <2>3
  <2> QED BY <2>4
<1>7. R(t)
  BY <1>6 DEF t
<1>8. f[0] = base
  <2>1. 1..0 = {}
    OBVIOUS
  <2>2. t[{}] = base
    BY <1>7
  <2> QED BY <1>1, <2>1, <2>2
<1>9. ASSUME NEW k \in 1..n PROVE f[k] = Consider(scopes, f[k - 1], sorted[k])
  <2>1. Max(1..k) = k /\ (1..k) \ {k} = 1..(k - 1) /\ 1..k # {}
    <3>1. k \in Nat \ {0}
      BY <1>1
    <3> HIDE DEF f, R
    <3> QED BY <3>1, PrefixMax
  <2>2. 1..k \in SUBSET (1..n)
    BY <1>1
  <2>3. t[1..k] = Consider(scopes, t[(1..k) \ {Max(1..k)}], sorted[Max(1..k)])
    BY <1>7, <2>1, <2>2
  <2>4. f[k] = t[1..k] /\ f[k - 1] = t[1..(k - 1)]
    BY <1>1
  <2> HIDE DEF f, R
  <2> QED BY <2>1, <2>3, <2>4
<1>10. f[n] = t[1..n] /\ DOMAIN f = 0..n
  BY <1>1
<1> HIDE DEF f, R
<1>11. IsEvaluation(f, rules, ctx)
  BY <1>3, <1>8, <1>9, <1>10 DEF IsEvaluation, sorted, n, base, scopes
<1>12. \A k \in 0..n : f[k] \in D
  <2> DEFINE G == {k \in 0..n : f[k] \in D}
  <2>1. 0 \in G
    BY <1>1, <1>8
  <2>2. ASSUME NEW k \in 1..n, k - 1 \in G PROVE k \in G
    BY <1>1, <1>2, <1>9, <2>2
  <2> HIDE DEF G
  <2>3. \A k \in 0..n : k \in G
    BY <1>1, <2>1, <2>2, PrefixInduction
  <2> QED BY <2>3 DEF G
<1> QED BY <1>11, <1>12 DEF n, sorted

\* Sorting the rules adds none.
LEMMA SortedRules ==
  ASSUME NEW s, SoundStrategy(s)
  PROVE  /\ ByPriority(s.rules) \in Seq(Range(s.rules))
         /\ \A k \in DOMAIN ByPriority(s.rules) : SoundRule(ByPriority(s.rules)[k])
<1> DEFINE rules == s.rules
           K == [i \in DOMAIN rules |-> -rules[i].priority]
<1>1. rules \in Seq(Range(rules)) /\ \A rule \in Range(rules) : SoundRule(rule)
  BY DEF SoundStrategy
<1>2. \A i \in DOMAIN rules : rules[i].priority \in Int
  BY <1>1 DEF Range, SoundRule
<1>3. K \in [DOMAIN rules -> Int]
  BY <1>2
<1>4. ByPriority(rules) = SortedBy(rules, K)
  BY DEF ByPriority
<1> HIDE DEF K, rules
<1>5. ByPriority(rules) \in Seq(Range(rules))
  BY <1>1, <1>3, <1>4, SortedByProperties
<1>6. \A k \in DOMAIN ByPriority(rules) : ByPriority(rules)[k] \in Range(rules)
  BY <1>5
<1> QED BY <1>1, <1>5, <1>6 DEF rules

\* No rule touches what counts the candles.  Of rules that keep to the trades: without
\* a position the memory is left alone, and only a buy adds effects; with one no second
\* stop is added.
AnyOutcomes(ctx) ==
  {o \in Outcomes(ctx) :
     /\ o.ctx.memory.wasLong = ctx.memory.wasLong
     /\ o.ctx.memory.barsInTrade = ctx.memory.barsInTrade}
FlatOutcomes(ctx) ==
  {o \in Outcomes(ctx) :
     /\ o.ctx.memory = ctx.memory
     /\ o.signal # "BUY" => o.ctx.effects = ctx.effects
     /\ ctx.effects = <<>> => OneStop(o.ctx.effects)
     /\ o.decided \/ o.signal = "HOLD"}
LongOutcomes(ctx) ==
  {o \in Outcomes(ctx) : OneStop(ctx.effects) => OneStop(o.ctx.effects)}
RuleKeepsToTrades(rule) ==
  /\ rule.then.do = "buy" => rule.scope = "flat"
  /\ rule.then.do = "move_stop" => rule.scope = "long"

LEMMA OutcomeIsOne ==
  ASSUME NEW ctx, NEW c \in Contexts(ctx), NEW signal \in Signals
  PROVE  [ctx |-> c, signal |-> signal, decided |-> TRUE] \in Outcomes(ctx)
<1>1. TRUE \in BOOLEAN
  OBVIOUS
<1> QED BY <1>1, Zenon DEF Outcomes

LEMMA UndecidedIsOne ==
  ASSUME NEW ctx, ctx \in Contexts(ctx)
  PROVE  Undecided(ctx) \in Outcomes(ctx)
<1>1. FALSE \in BOOLEAN /\ "HOLD" \in Signals
  BY DEF Signals
<1> QED BY <1>1, Zenon DEF Undecided, Outcomes

LEMMA ContextIsReplaced ==
  ASSUME NEW ctx, NEW o \in Outcomes(ctx), NEW c \in Contexts(ctx)
  PROVE  LET new == [o EXCEPT !.ctx = c]
         IN  /\ new \in Outcomes(ctx)
             /\ new.ctx = c /\ new.signal = o.signal /\ new.decided = o.decided
<1> USE DEF Outcomes
<1>1. [o EXCEPT !.ctx = c] \in Outcomes(ctx)
  BY Zenon
<1> QED BY <1>1

\* What a rule does that applies.
LEMMA TerminalRule ==
  ASSUME NEW ctx, NEW o \in Outcomes(ctx), Price(ctx) \in Nat,
         NEW rule, SoundRule(rule), rule.then.do # "move_stop"
  PROVE  \/ Consider(Scopes(ctx), o, rule) = o
         \/ LET new == Consider(Scopes(ctx), o, rule)
            IN  /\ ~o.decided /\ rule.scope \in Scopes(ctx)
                /\ new \in Outcomes(ctx) /\ new.decided
                /\ \/ /\ rule.then.do = "buy" /\ new.signal = "BUY"
                      /\ new.ctx = NoteLevels(o.ctx, rule.then)
                   \/ new.signal = "SELL" /\ new.ctx = o.ctx
                   \/ new.signal = "HOLD" /\ new.ctx = o.ctx
<1> DEFINE new == Consider(Scopes(ctx), o, rule)
           ran == RunAction(o.ctx, rule.then)
<1> SUFFICES ASSUME ~(o.decided \/ rule.scope \notin Scopes(ctx) \/ ~Holds(rule.when, o.ctx))
             PROVE  /\ ~o.decided /\ rule.scope \in Scopes(ctx)
                    /\ new \in Outcomes(ctx) /\ new.decided
                    /\ \/ /\ rule.then.do = "buy" /\ new.signal = "BUY"
                          /\ new.ctx = NoteLevels(o.ctx, rule.then)
                       \/ new.signal = "SELL" /\ new.ctx = o.ctx
                       \/ new.signal = "HOLD" /\ new.ctx = o.ctx
  BY Zenon DEF Consider
<1>1. new = [ctx |-> ran.ctx, signal |-> ran.signal, decided |-> TRUE]
  BY Zenon DEF Consider, IsTerminal
<1>2. rule.then.do \in {"buy", "sell", "hold"} /\ o.ctx \in Contexts(ctx)
  BY DEF SoundRule, Outcomes
<1>3. /\ ran.ctx \in Contexts(ctx) /\ ran.signal \in Signals
      /\ \/ /\ rule.then.do = "buy" /\ ran.signal = "BUY"
            /\ ran.ctx = NoteLevels(o.ctx, rule.then)
         \/ ran.signal = "SELL" /\ ran.ctx = o.ctx
         \/ ran.signal = "HOLD" /\ ran.ctx = o.ctx
  <2>1. CASE rule.then.do = "buy"
    <3>1. NoteLevels(o.ctx, rule.then) \in Contexts(ctx)
      BY <1>2, <2>1, NoteLevelsProperties
    <3>2. ran = [ctx |-> NoteLevels(o.ctx, rule.then), signal |-> "BUY"]
      BY <2>1 DEF RunAction
    <3> QED BY <2>1, <3>1, <3>2 DEF Signals
  <2>2. CASE rule.then.do = "sell"
    BY <1>2, <2>2 DEF RunAction, Signals
  <2>3. CASE rule.then.do = "hold"
    BY <1>2, <2>3 DEF RunAction, Signals
  <2> QED BY <1>2, <2>1, <2>2, <2>3
<1> HIDE DEF new, ran
<1>4. new \in Outcomes(ctx)
  BY <1>1, <1>3, OutcomeIsOne
<1>5. new.signal = ran.signal /\ new.ctx = ran.ctx /\ new.decided
  BY <1>1
<1> QED BY <1>3, <1>4, <1>5

LEMMA MovingRule ==
  ASSUME NEW ctx, NEW o \in Outcomes(ctx), Price(ctx) \in Nat,
         NEW rule, SoundRule(rule), rule.then.do = "move_stop"
  PROVE  \/ Consider(Scopes(ctx), o, rule) = o
         \/ LET new == Consider(Scopes(ctx), o, rule)
            IN  /\ ~o.decided /\ rule.scope \in Scopes(ctx)
                /\ new \in Outcomes(ctx) /\ new.decided = o.decided
                /\ new.signal = o.signal
                /\ new.ctx = MoveStop(o.ctx, rule.then)
<1> DEFINE new == Consider(Scopes(ctx), o, rule)
           ran == RunAction(o.ctx, rule.then)
           c == MoveStop(o.ctx, rule.then)
<1> SUFFICES ASSUME ~(o.decided \/ rule.scope \notin Scopes(ctx) \/ ~Holds(rule.when, o.ctx))
             PROVE  /\ ~o.decided /\ rule.scope \in Scopes(ctx)
                    /\ new \in Outcomes(ctx) /\ new.decided = o.decided
                    /\ new.signal = o.signal
                    /\ new.ctx = c
  BY Zenon DEF Consider
<1>1. new = [o EXCEPT !.ctx = ran.ctx]
  BY Zenon DEF Consider, IsTerminal
<1>2. ran.ctx = c
  BY DEF RunAction
<1>3. o.ctx \in Contexts(ctx) /\ rule.then.trailing \in 0..100
  BY DEF SoundRule, Outcomes
<1>4. c \in Contexts(ctx)
  BY <1>3, MoveStopProperties
<1> HIDE DEF new, ran, c
<1>5. new = [o EXCEPT !.ctx = c]
  BY <1>1, <1>2
<1> QED BY <1>4, <1>5, ContextIsReplaced

LEMMA AnyConsider ==
  ASSUME NEW ctx, Price(ctx) \in Nat,
         NEW rule, SoundRule(rule), NEW o \in AnyOutcomes(ctx)
  PROVE  Consider(Scopes(ctx), o, rule) \in AnyOutcomes(ctx)
<1> DEFINE new == Consider(Scopes(ctx), o, rule)
<1>1. o \in Outcomes(ctx) /\ o.ctx \in Contexts(ctx)
  BY DEF AnyOutcomes, Outcomes
<1> HIDE DEF new
<1>2. CASE new = o
  BY <1>2 DEF new
<1>3. CASE rule.then.do = "move_stop" /\ new # o
  <2>1. new \in Outcomes(ctx) /\ new.ctx = MoveStop(o.ctx, rule.then)
    BY <1>1, <1>3, MovingRule DEF new
  <2>2. rule.then.trailing \in 0..100
    BY <1>3 DEF SoundRule
  <2> DEFINE old == o.ctx.memory
  <2>3. StopIsMoved(new.ctx.memory, old, Price(ctx), rule.then.trailing)
    BY <1>1, <2>1, <2>2, MoveStopProperties
  <2>4. old \in Memories
    BY <1>1 DEF Contexts
  <2> HIDE DEF old
  <2>5. /\ new.ctx.memory.wasLong = old.wasLong
        /\ new.ctx.memory.barsInTrade = old.barsInTrade
    BY <2>3, <2>4 DEF Memories, StopIsMoved
  <2>6. old.wasLong = ctx.memory.wasLong /\ old.barsInTrade = ctx.memory.barsInTrade
    BY DEF AnyOutcomes, old
  <2> QED BY <2>1, <2>5, <2>6 DEF AnyOutcomes, new
<1>4. CASE rule.then.do # "move_stop" /\ new # o
  <2>1. /\ new \in Outcomes(ctx)
        /\ \/ rule.then.do = "buy" /\ new.ctx = NoteLevels(o.ctx, rule.then)
           \/ new.ctx = o.ctx
    BY <1>1, <1>4, TerminalRule DEF new
  <2>2. new.ctx.memory = o.ctx.memory
    BY <1>1, <2>1, NoteLevelsProperties
  <2> QED BY <2>1, <2>2 DEF AnyOutcomes, new
<1> QED BY <1>2, <1>3, <1>4

LEMMA FlatConsider ==
  ASSUME NEW ctx, ctx.long = FALSE, Price(ctx) \in Nat,
         NEW rule, SoundRule(rule), RuleKeepsToTrades(rule), NEW o \in FlatOutcomes(ctx)
  PROVE  Consider(Scopes(ctx), o, rule) \in FlatOutcomes(ctx)
<1> DEFINE new == Consider(Scopes(ctx), o, rule)
<1>1. o \in Outcomes(ctx) /\ o.ctx \in Contexts(ctx)
  BY DEF FlatOutcomes, Outcomes
<1>2. Scopes(ctx) = {"always", "flat"}
  BY DEF Scopes
<1> HIDE DEF new
<1>3. CASE rule.then.do = "move_stop"
  <2>1. rule.scope \notin Scopes(ctx)
    BY <1>2, <1>3 DEF RuleKeepsToTrades
  <2>2. Consider(Scopes(ctx), o, rule) = o
    BY <1>1, <1>3, <2>1, MovingRule
  <2> QED BY <2>2
<1>4. CASE rule.then.do # "move_stop"
  <2>1. CASE new = o
    BY <2>1 DEF new
  <2>2. CASE /\ ~o.decided /\ new \in Outcomes(ctx) /\ new.decided
             /\ rule.then.do = "buy" /\ new.signal = "BUY"
             /\ new.ctx = NoteLevels(o.ctx, rule.then)
    <3>1. /\ new.ctx.memory = o.ctx.memory
          /\ o.ctx.effects = <<>> => OneStop(new.ctx.effects)
      BY <1>1, <2>2, NoteLevelsProperties
    <3>2. o.ctx.memory = ctx.memory /\ o.ctx.effects = ctx.effects
      BY <2>2 DEF FlatOutcomes
    <3> QED BY <2>2, <3>1, <3>2 DEF FlatOutcomes, new
  <2>3. CASE /\ ~o.decided /\ new \in Outcomes(ctx) /\ new.decided
             /\ new.ctx = o.ctx
    <3>1. o.ctx.memory = ctx.memory /\ o.ctx.effects = ctx.effects
      BY <2>3 DEF FlatOutcomes
    <3>2. ctx.effects = <<>> => OneStop(o.ctx.effects)
      BY DEF FlatOutcomes
    <3> QED BY <2>3, <3>1, <3>2 DEF FlatOutcomes, new
  <2> QED BY <1>1, <1>4, <2>1, <2>2, <2>3, TerminalRule DEF new
<1> QED BY <1>3, <1>4

LEMMA LongConsider ==
  ASSUME NEW ctx, ctx.long = TRUE, Price(ctx) \in Nat,
         NEW rule, SoundRule(rule), RuleKeepsToTrades(rule), NEW o \in LongOutcomes(ctx)
  PROVE  Consider(Scopes(ctx), o, rule) \in LongOutcomes(ctx)
<1> DEFINE new == Consider(Scopes(ctx), o, rule)
<1>1. o \in Outcomes(ctx) /\ o.ctx \in Contexts(ctx)
  BY DEF LongOutcomes, Outcomes
<1>2. Scopes(ctx) = {"always", "long"}
  BY DEF Scopes
<1> HIDE DEF new
<1>3. CASE rule.then.do = "move_stop"
  <2>1. CASE new = o
    BY <2>1 DEF new
  <2>2. CASE new \in Outcomes(ctx) /\ new.ctx = MoveStop(o.ctx, rule.then)
    <3>1. rule.then.trailing \in 0..100
      BY <1>3 DEF SoundRule
    <3>2. OneStop(new.ctx.effects)
      BY <1>1, <2>2, <3>1, MoveStopProperties
    <3> QED BY <2>2, <3>2 DEF LongOutcomes, new
  <2> QED BY <1>1, <1>3, <2>1, <2>2, MovingRule DEF new
<1>4. CASE rule.then.do # "move_stop"
  <2>1. CASE new = o
    BY <2>1 DEF new
  <2>2. CASE rule.scope \in Scopes(ctx) /\ rule.then.do = "buy"
    BY <1>2, <2>2 DEF RuleKeepsToTrades
  <2>3. CASE new \in Outcomes(ctx) /\ new.ctx = o.ctx
    BY <2>3 DEF LongOutcomes, new
  <2> QED BY <1>1, <1>4, <2>1, <2>2, <2>3, TerminalRule DEF new
<1> QED BY <1>3, <1>4

\* All the rules together.
LEMMA AnyRules ==
  ASSUME NEW s, SoundStrategy(s), NEW ctx, ctx \in Contexts(ctx), Price(ctx) \in Nat
  PROVE  /\ EvaluateRules(s.rules, ctx) \in AnyOutcomes(ctx)
         /\ \E f : /\ IsEvaluation(f, s.rules, ctx)
                   /\ \A k \in 0..Len(ByPriority(s.rules)) : f[k] \in AnyOutcomes(ctx)
<1> DEFINE sorted == ByPriority(s.rules)
           D == AnyOutcomes(ctx)
<1>1. /\ sorted \in Seq(Range(s.rules))
      /\ \A k \in DOMAIN sorted : SoundRule(sorted[k])
  BY SortedRules
<1>2. Undecided(ctx) \in D
  <2>1. Undecided(ctx) \in Outcomes(ctx) /\ Undecided(ctx).ctx = ctx
    BY UndecidedIsOne DEF Undecided
  <2> QED BY <2>1 DEF AnyOutcomes
<1>3. \A o \in D : \A k \in DOMAIN sorted : Consider(Scopes(ctx), o, sorted[k]) \in D
  BY <1>1, AnyConsider
<1> HIDE DEF D
<1>4. PICK f : IsEvaluation(f, s.rules, ctx) /\ \A k \in 0..Len(sorted) : f[k] \in D
  BY <1>1, <1>2, <1>3, RulesUnroll
<1>5. EvaluateRules(s.rules, ctx) = f[Len(sorted)] /\ Len(sorted) \in 0..Len(sorted)
  BY <1>1, <1>4 DEF IsEvaluation
<1> QED BY <1>4, <1>5 DEF D

LEMMA KeepingRules ==
  ASSUME NEW s, SoundStrategy(s), KeepsToTrades(s.rules)
  PROVE  \A k \in DOMAIN ByPriority(s.rules) :
           SoundRule(ByPriority(s.rules)[k]) /\ RuleKeepsToTrades(ByPriority(s.rules)[k])
<1>1. /\ ByPriority(s.rules) \in Seq(Range(s.rules))
      /\ \A k \in DOMAIN ByPriority(s.rules) : SoundRule(ByPriority(s.rules)[k])
  BY SortedRules
<1>2. \A k \in DOMAIN ByPriority(s.rules) : ByPriority(s.rules)[k] \in Range(s.rules)
  BY <1>1
<1> QED BY <1>1, <1>2 DEF KeepsToTrades, RuleKeepsToTrades

LEMMA FlatRules ==
  ASSUME NEW s, SoundStrategy(s), KeepsToTrades(s.rules), NEW ctx, ctx \in Contexts(ctx),
         ctx.long = FALSE, Price(ctx) \in Nat
  PROVE  EvaluateRules(s.rules, ctx) \in FlatOutcomes(ctx)
<1> DEFINE sorted == ByPriority(s.rules)
           D == FlatOutcomes(ctx)
<1>1. sorted \in Seq(Range(s.rules))
  BY SortedRules
<1>2. Undecided(ctx) \in D
  <2>1. Undecided(ctx) \in Outcomes(ctx)
    BY UndecidedIsOne
  <2>2. Undecided(ctx).ctx = ctx /\ Undecided(ctx).signal = "HOLD"
    BY DEF Undecided
  <2>3. ctx.effects = <<>> => OneStop(ctx.effects)
    BY DEF OneStop
  <2> QED BY <2>1, <2>2, <2>3 DEF FlatOutcomes
<1>3. \A o \in D : \A k \in DOMAIN sorted : Consider(Scopes(ctx), o, sorted[k]) \in D
  BY KeepingRules, FlatConsider
<1> HIDE DEF D
<1>4. PICK f : IsEvaluation(f, s.rules, ctx) /\ \A k \in 0..Len(sorted) : f[k] \in D
  BY <1>1, <1>2, <1>3, RulesUnroll
<1>5. EvaluateRules(s.rules, ctx) = f[Len(sorted)] /\ Len(sorted) \in 0..Len(sorted)
  BY <1>1, <1>4 DEF IsEvaluation
<1> QED BY <1>4, <1>5 DEF D

LEMMA LongRules ==
  ASSUME NEW s, SoundStrategy(s), KeepsToTrades(s.rules), NEW ctx, ctx \in Contexts(ctx),
         ctx.long = TRUE, Price(ctx) \in Nat
  PROVE  EvaluateRules(s.rules, ctx) \in LongOutcomes(ctx)
<1> DEFINE sorted == ByPriority(s.rules)
           D == LongOutcomes(ctx)
<1>1. sorted \in Seq(Range(s.rules))
  BY SortedRules
<1>2. Undecided(ctx) \in D
  <2>1. Undecided(ctx) \in Outcomes(ctx)
    BY UndecidedIsOne
  <2>2. Undecided(ctx).ctx = ctx
    BY DEF Undecided
  <2> QED BY <2>1, <2>2 DEF LongOutcomes
<1>3. \A o \in D : \A k \in DOMAIN sorted : Consider(Scopes(ctx), o, sorted[k]) \in D
  BY KeepingRules, LongConsider
<1> HIDE DEF D
<1>4. PICK f : IsEvaluation(f, s.rules, ctx) /\ \A k \in 0..Len(sorted) : f[k] \in D
  BY <1>1, <1>2, <1>3, RulesUnroll
<1>5. EvaluateRules(s.rules, ctx) = f[Len(sorted)] /\ Len(sorted) \in 0..Len(sorted)
  BY <1>1, <1>4 DEF IsEvaluation
<1> QED BY <1>4, <1>5 DEF D

-----------------------------------------------------------------------------
(***************************************************************************)
(* A back-test is a run of the engine, whatever the strategy.              *)
(***************************************************************************)
LEMMA InitOfEngine == BacktestInit => Init
  BY DEF BacktestInit

LEMMA CandleIsBar ==
  ASSUME NEW close \in Closes, Candle(close)
  PROVE  /\ BuyBar(close) \/ SellBar(close) \/ HoldBar(close)
         /\ Next
  BY DEF Candle, Next

LEMMA NextOfEngine == [BacktestNext]_backtestVars => [Next]_vars
<1>1. ASSUME NEW close \in Closes, Candle(close) PROVE Next
  BY <1>1, CandleIsBar
<1>2. Report => Next
  BY DEF Report, Next
<1>3. UNCHANGED backtestVars \/ StrategyRaises => UNCHANGED vars
  BY DEF backtestVars, StrategyRaises
<1> QED BY <1>1, <1>2, <1>3 DEF BacktestNext

THEOREM RunsOfEngine == BacktestSpec => Spec
  BY InitOfEngine, NextOfEngine, PTL DEF BacktestSpec, Spec

-----------------------------------------------------------------------------
(***************************************************************************)
(* What a composable strategy remembers.  MemoryFollowsPosition is made    *)
(* inductive by the moment the strategy learns of a fill: it has seen the  *)
(* position exactly if that was opened before the latest candle.           *)
(***************************************************************************)
OrdersFill ==
  (\A i \in DOMAIN closes : closes[i] > 0) /\ (position = 0 => cash > 0)

Fed ==
  /\ closes \in Seq(Closes) /\ Len(closes) = bar
  /\ bar > 0 => lastClose = closes[bar]

\* Of rules that keep to the trades.
NothingLeft ==
  /\ position = 0 /\ ~memory.wasLong => memory.stopLevel = NoLevel /\ memory.peakPrice = 0
  /\ OrdersFill => /\ OneStop(effects)
                   /\ position = 0 /\ ~memory.wasLong => effects = <<>>

Remembered ==
  /\ memory \in Memories /\ effects \in Seq(Effects)
  /\ position > 0 => /\ memory.barsInTrade = bar - openedAt
                     /\ memory.wasLong <=> bar > openedAt
  /\ position = 0 /\ ~memory.wasLong => memory.barsInTrade = 0
  /\ KeepsToTrades(Chosen.rules) => NothingLeft

RunInv ==
  /\ Fed /\ strategy \in DOMAIN Catalogue
  /\ Composable /\ ~done => Remembered

LEMMA InitRunInv == BacktestInit => RunInv
<1> SUFFICES ASSUME BacktestInit PROVE RunInv
  OBVIOUS
<1>1. bar = 0 /\ closes = <<>> /\ memory = NoMemory /\ effects = <<>> /\ position = 0
  BY DEF BacktestInit, Init
<1>2. Fed
  BY <1>1 DEF Fed
<1>3. strategy \in DOMAIN Catalogue
  BY DEF BacktestInit
<1>4. NoMemory \in Memories
  <2>1. FALSE \in BOOLEAN
    OBVIOUS
  <2>2. 0 \in Nat /\ 0 \in Int /\ NoLevel \in Int
    BY DEF NoLevel
  <2> QED BY <2>1, <2>2, Zenon DEF NoMemory, Memories
<1>5. Remembered
  BY <1>1, <1>4 DEF Remembered, NothingLeft, OneStop, NoMemory
<1> QED BY <1>2, <1>3, <1>5 DEF RunInv

\* What the strategy knows when its rules are asked.
IsRemembered(r, m, long, price) ==
  /\ r.wasLong = long /\ r.barsInTrade = m.barsInTrade
  /\ long /\ ~m.wasLong => r.peakPrice = price /\ r.stopLevel = NoLevel
  /\ long /\ m.wasLong => /\ r.peakPrice = Larger(m.peakPrice, price)
                          /\ r.stopLevel = m.stopLevel
  /\ ~long /\ m.wasLong => r.peakPrice = 0 /\ r.stopLevel = NoLevel
  /\ ~long /\ ~m.wasLong => /\ r.peakPrice = m.peakPrice
                            /\ r.stopLevel = m.stopLevel

LEMMA RememberProperties ==
  ASSUME NEW m \in Memories, NEW long \in BOOLEAN, NEW price \in Nat, NEW value \in Int
  PROVE  /\ Remember(m, long, price, value) \in Memories
         /\ IsRemembered(Remember(m, long, price, value), m, long, price)
<1> DEFINE r == Remember(m, long, price, value)
           entered == long /\ ~m.wasLong
           exited == ~long /\ m.wasLong
           peak == IF entered THEN price
                   ELSE IF long THEN Larger(m.peakPrice, price)
                   ELSE IF exited THEN 0 ELSE m.peakPrice
           stop == IF entered \/ exited THEN NoLevel ELSE m.stopLevel
           best == Larger(m.peakEquity, value)
<1>0. /\ m.wasLong \in BOOLEAN /\ m.peakPrice \in Nat /\ m.stopLevel \in Int
      /\ m.peakEquity \in Int /\ m.barsInTrade \in Nat
  BY DEF Memories
<1>1. peak \in Nat /\ stop \in Int /\ best \in Int
  BY <1>0 DEF Larger, NoLevel
<1>2. r = [m EXCEPT !.peakEquity = best, !.peakPrice = peak,
                    !.stopLevel = stop, !.wasLong = long]
  BY DEF Remember
<1>3. /\ r.wasLong = long /\ r.barsInTrade = m.barsInTrade
      /\ r.peakPrice = peak /\ r.stopLevel = stop
  <2> HIDE DEF peak, stop, best, r
  <2> QED BY <1>2 DEF Memories
<1>4. r \in Memories
  <2> HIDE DEF peak, stop, best, r
  <2> QED BY <1>0, <1>1, <1>2, Zenon DEF Memories
<1> QED BY <1>3, <1>4 DEF IsRemembered

\* What the rules are shown.
Shown(s, seen, clock, view, m, e) ==
  [closes |-> seen, series |-> Precompute(s.nodes, seen),
   time |-> clock.time, weekday |-> clock.weekday,
   long |-> view.long, entry |-> view.entry, equity |-> view.equity,
   memory |-> Remember(m, view.long, seen[Len(seen)], view.equity),
   effects |-> IF m.wasLong /\ ~view.long THEN <<>> ELSE e]

LEMMA ShownProperties ==
  ASSUME NEW s, NEW seen, seen[Len(seen)] \in Nat, NEW clock,
         NEW view, view.long \in BOOLEAN, view.equity \in Int,
         NEW m \in Memories, NEW e \in Seq(Effects)
  PROVE  LET ctx == Shown(s, seen, clock, view, m, e)
         IN  /\ ctx \in Contexts(ctx) /\ ctx.closes = seen
             /\ ctx.long = view.long /\ Price(ctx) = seen[Len(seen)]
             /\ ctx.memory = Remember(m, view.long, seen[Len(seen)], view.equity)
             /\ ctx.effects = IF m.wasLong /\ ~view.long THEN <<>> ELSE e
<1> DEFINE ctx == Shown(s, seen, clock, view, m, e)
<1>1. Remember(m, view.long, seen[Len(seen)], view.equity) \in Memories
  BY RememberProperties
<1>2. (IF m.wasLong /\ ~view.long THEN <<>> ELSE e) \in Seq(Effects)
  OBVIOUS
<1>3. ctx \in Contexts(ctx)
  BY <1>1, <1>2, Zenon DEF Shown, Contexts
<1>4. Price(ctx) = seen[Len(seen)]
  BY DEF Shown, Price
<1> QED BY <1>3, <1>4 DEF Shown

LEMMA OnCandleProperties ==
  ASSUME NEW s, NEW seen, NEW clock, NEW view, NEW m, NEW e
  PROVE  LET result == EvaluateRules(s.rules, Shown(s, seen, clock, view, m, e))
             answer == OnCandle(s, seen, clock, view, m, e)
         IN  /\ answer.signal = result.signal
             /\ answer.effects = result.ctx.effects
             /\ answer.memory =
                  [result.ctx.memory EXCEPT !.barsInTrade = IF view.long THEN @ + 1 ELSE 0]
  BY DEF OnCandle, Shown

\* Money that is there can be spent, and a price stays one with the slippage.
LEMMA MoneyBuys ==
  /\ \A money \in Nat \ {0} : Spendable(money) > 0
  /\ \A close \in Nat \ {0} : BuyPrice(close) > 0
<1>1. ASSUME NEW money \in Nat \ {0} PROVE Spendable(money) > 0
  <2>1. CommissionPct \in 0..10
    BY EngineAssumption
  <2>2. money * CommissionPct \in Nat /\ money * CommissionPct <= money * 10
    BY <2>1
  <2>3. (money * CommissionPct) \div 100 < money
    BY <2>2
  <2>4. Fee(money) \in Nat
    BY FeeBound
  <2> QED BY <2>3, <2>4 DEF Fee, Spendable
<1>2. ASSUME NEW close \in Nat \ {0} PROVE BuyPrice(close) > 0
  <2>1. SlippagePct \in 0..5
    BY EngineAssumption
  <2>2. close * (100 + SlippagePct) \in Nat /\ close * (100 + SlippagePct) >= close * 100
    BY <2>1
  <2>3. (close * (100 + SlippagePct)) \div 100 > 0
    <3> DEFINE x == close * (100 + SlippagePct)
    <3>1. x \in Nat /\ x >= 100
      BY <2>2
    <3> HIDE DEF x
    <3>2. x \div 100 > 0
      BY <3>1
    <3> QED BY <3>2 DEF x
  <2> QED BY <2>3 DEF BuyPrice
<1> QED BY <1>1, <1>2

\* What a candle does to the account, as far as the strategy will see it.
LEMMA CandleFills ==
  ASSUME IInv, NEW close \in Closes
  PROVE  /\ HoldBar(close) => UNCHANGED account
         /\ SellBar(close) => IF position > 0 THEN position' = 0 ELSE UNCHANGED account
         /\ BuyBar(close) =>
              \/ position = 0 /\ position' > 0 /\ openedAt' = bar + 1
              \/ UNCHANGED account /\ (position > 0 \/ cash = 0 \/ close = 0)
<1>0. position \in Nat /\ cash \in Nat /\ close \in Nat
  BY EngineAssumption DEF IInv, Types
<1>1. HoldBar(close) => UNCHANGED account
  BY DEF HoldBar, NoFill
<1>2. SellBar(close) => IF position > 0 THEN position' = 0 ELSE UNCHANGED account
  BY <1>0 DEF SellBar, ClosePosition, NoFill
<1>3. CASE BuyBar(close) /\ CanBuy(close)
  <2>1. OpenPosition(close, bar + 1)
    BY <1>3 DEF BuyBar
  <2>2. Quantity(cash, close) \in Nat \ {0} /\ position = 0
    BY <1>0, <1>3, BuyFills DEF CanBuy
  <2> QED BY <1>1, <1>2, <2>1, <2>2 DEF OpenPosition
<1>4. CASE BuyBar(close) /\ ~CanBuy(close)
  <2>1. UNCHANGED account
    BY <1>4 DEF BuyBar, NoFill
  <2>2. position > 0 \/ cash = 0 \/ close = 0
    BY <1>0, <1>4, MoneyBuys DEF CanBuy
  <2> QED BY <1>1, <1>2, <2>1, <2>2
<1> QED BY <1>1, <1>2, <1>3, <1>4

\* The closes are those of the candles so far.
LEMMA CandleIsFed ==
  ASSUME IInv, Fed, NEW close \in Closes, Candle(close)
  PROVE  /\ Fed' /\ bar' = bar + 1 /\ bar \in Nat /\ ~done /\ done' = done
         /\ Len(closes') = bar + 1 /\ closes'[bar + 1] = close
         /\ \A i \in 1..bar : closes'[i] = closes[i]
<1>1. /\ closes' = Append(closes, close) /\ bar' = bar + 1 /\ lastClose' = close
      /\ ~done /\ done' = done
  BY DEF Candle, BuyBar, SellBar, HoldBar, Bar
<1>2. closes \in Seq(Closes) /\ Len(closes) = bar /\ bar \in Nat
  BY DEF Fed
<1>3. /\ closes' \in Seq(Closes) /\ Len(closes') = bar + 1
      /\ closes'[bar + 1] = close /\ \A i \in 1..bar : closes'[i] = closes[i]
  BY <1>1, <1>2
<1> QED BY <1>1, <1>2, <1>3 DEF Fed

\* If every order could be filled up to a candle, every one could before it.
LEMMA OrdersFilled ==
  ASSUME IInv, Fed, NEW close \in Closes, Candle(close), OrdersFill'
  PROVE  OrdersFill /\ close > 0
<1>1. /\ Fed' /\ Len(closes') = bar + 1 /\ bar \in Nat /\ closes'[bar + 1] = close
      /\ \A i \in 1..bar : closes'[i] = closes[i]
  BY CandleIsFed
<1>2. DOMAIN closes = 1..bar /\ DOMAIN closes' = 1..(bar + 1)
  BY <1>1 DEF Fed
<1>3. \A i \in 1..(bar + 1) : closes'[i] > 0
  BY <1>2 DEF OrdersFill
<1>4. close > 0 /\ \A i \in 1..bar : closes[i] > 0
  BY <1>1, <1>3
<1>5. ASSUME position = 0, ~(cash > 0) PROVE FALSE
  <2>1. cash = 0
    BY <1>5 DEF IInv, Types
  <2>2. BuyBar(close) \/ SellBar(close) \/ HoldBar(close)
    BY CandleIsBar
  <2>3. ~BuyBar(close) \/ UNCHANGED account
    BY <1>5, <2>1, CandleFills DEF BuyBar, CanBuy, NoFill
  <2>4. UNCHANGED account
    BY <1>5, <2>2, <2>3, CandleFills
  <2>5. position' = 0 /\ cash' = 0
    BY <1>5, <2>1, <2>4 DEF account
  <2> QED BY <2>5 DEF OrdersFill
<1> QED BY <1>2, <1>4, <1>5 DEF OrdersFill

\* A candle: the rules are asked in the context ctx, and what they answer is done.
IsAsked(ctx, close) ==
  LET long   == position > 0
      result == EvaluateRules(Chosen.rules, ctx)
  IN  /\ ctx \in Contexts(ctx) /\ ctx.long = long /\ Price(ctx) = close
      /\ IsRemembered(ctx.memory, memory, long, close)
      /\ ctx.effects = IF memory.wasLong /\ ~long THEN <<>> ELSE effects
      /\ result \in AnyOutcomes(ctx)
      /\ KeepsToTrades(Chosen.rules) =>
           \/ ~long /\ result \in FlatOutcomes(ctx)
           \/ long /\ result \in LongOutcomes(ctx)
      /\ effects' = result.ctx.effects /\ effects' \in Seq(Effects)
      /\ memory' \in Memories /\ memory'.wasLong = result.ctx.memory.wasLong
      /\ memory'.peakPrice = result.ctx.memory.peakPrice
      /\ memory'.stopLevel = result.ctx.memory.stopLevel
      /\ memory'.barsInTrade = IF long THEN result.ctx.memory.barsInTrade + 1 ELSE 0
      /\ \/ result.signal = "BUY" /\ BuyBar(close)
         \/ result.signal = "SELL" /\ SellBar(close)
         \/ result.signal = "HOLD" /\ HoldBar(close)

LEMMA CandleAsks ==
  ASSUME IInv, IInv', Fed, strategy \in DOMAIN Catalogue, Composable, Remembered,
         NEW close \in Closes, Candle(close)
  PROVE  \E ctx : IsAsked(ctx, close)
<1> DEFINE long == position > 0
           seen == Append(closes, close)
           clock == Clock[bar + 1]
           view == View(close)
           ctx == Shown(Chosen, seen, clock, view, memory, effects)
           result == EvaluateRules(Chosen.rules, ctx)
           new == result.ctx.memory
           count == IF long THEN new.barsInTrade + 1 ELSE 0
<1>1. /\ position \in Nat /\ cash \in Nat /\ bar \in Nat /\ openedAt \in Nat
      /\ position' \in Nat /\ cash' \in Nat /\ close \in Nat
      /\ long => openedAt \in 1..bar
  BY EngineAssumption DEF IInv, Types, AllInOrAllOut, Fed
<1>2. SoundStrategy(Chosen)
  BY BacktestAssumption DEF Composable, Chosen
<1>3. memory \in Memories /\ effects \in Seq(Effects)
  BY DEF Remembered
<1>4. seen[Len(seen)] = close
  BY DEF Fed
<1>5. view.long = long /\ view.long \in BOOLEAN /\ view.equity \in Int
  <2>1. (position * close) \div Unit \in Nat
    BY <1>1, ProductIsNat, QuotientIsNat, EngineAssumption
  <2>2. cash + (position * close) \div Unit \in Int
    BY <1>1, <2>1
  <2> QED BY <2>2 DEF View
<1>6. /\ memory' = [new EXCEPT !.barsInTrade = count] /\ effects' = result.ctx.effects
      /\ UNCHANGED strategy /\ bar' = bar + 1
      /\ \/ result.signal = "BUY" /\ BuyBar(close)
         \/ result.signal = "SELL" /\ SellBar(close)
         \/ result.signal = "HOLD" /\ HoldBar(close)
  <2>1. PICK answer \in Answers(close) :
          /\ \/ answer.signal = "BUY"  /\ BuyBar(close)
             \/ answer.signal = "SELL" /\ SellBar(close)
             \/ answer.signal = "HOLD" /\ HoldBar(close)
          /\ memory' = answer.memory /\ effects' = answer.effects
          /\ UNCHANGED strategy
    BY DEF Candle
  <2>2. answer = OnCandle(Chosen, seen, clock, view, memory, effects)
    BY <2>1 DEF Answers, Composable
  <2>3. bar' = bar + 1
    BY CandleIsFed
  <2> HIDE DEF seen, clock, view
  <2>4. /\ answer.signal = result.signal
        /\ answer.effects = result.ctx.effects
        /\ answer.memory =
             [new EXCEPT !.barsInTrade = IF view.long THEN @ + 1 ELSE 0]
    BY <2>2, OnCandleProperties
  <2>5. answer.memory = [new EXCEPT !.barsInTrade = count]
    <3> HIDE DEF result, long
    <3> QED BY <2>4, <1>5
  <2> QED BY <2>1, <2>3, <2>4, <2>5
<1> HIDE DEF seen, clock, view
<1>7. /\ ctx \in Contexts(ctx) /\ ctx.long = long /\ Price(ctx) = close
      /\ ctx.memory = Remember(memory, long, close, view.equity)
      /\ ctx.effects = IF memory.wasLong /\ ~long THEN <<>> ELSE effects
  <2> HIDE DEF long
  <2>1. seen[Len(seen)] \in Nat
    BY <1>1, <1>4
  <2>2. /\ ctx \in Contexts(ctx) /\ ctx.long = view.long /\ Price(ctx) = seen[Len(seen)]
        /\ ctx.memory = Remember(memory, view.long, seen[Len(seen)], view.equity)
        /\ ctx.effects = IF memory.wasLong /\ ~view.long THEN <<>> ELSE effects
    BY <1>3, <1>5, <2>1, ShownProperties
  <2> HIDE DEF ctx
  <2> QED BY <1>4, <1>5, <2>2, Zenon
<1>8. IsRemembered(ctx.memory, memory, long, close)
  <2>1. IsRemembered(ctx.memory, memory, view.long, close)
    BY <1>1, <1>3, <1>5, <1>7, RememberProperties
  <2> HIDE DEF long, ctx
  <2> QED BY <1>5, <2>1, Zenon
<1> HIDE DEF ctx
<1>9. /\ result \in AnyOutcomes(ctx)
      /\ KeepsToTrades(Chosen.rules) =>
           \/ ~long /\ result \in FlatOutcomes(ctx)
           \/ long /\ result \in LongOutcomes(ctx)
  <2> HIDE DEF long
  <2>1. long \in BOOLEAN
    BY DEF long
  <2>2. result \in AnyOutcomes(ctx)
    BY <1>1, <1>2, <1>7, AnyRules
  <2>3. KeepsToTrades(Chosen.rules) =>
           \/ ~long /\ result \in FlatOutcomes(ctx)
           \/ long /\ result \in LongOutcomes(ctx)
    BY <1>1, <1>2, <1>7, <2>1, FlatRules, LongRules
  <2> QED BY <2>2, <2>3
<1> HIDE DEF result
<1>10. new \in Memories /\ result.ctx.effects \in Seq(Effects)
  BY <1>9 DEF AnyOutcomes, Outcomes, Contexts
<1>11. count \in Nat
  BY <1>10 DEF Memories
<1>12. /\ memory' \in Memories /\ memory'.wasLong = new.wasLong
       /\ memory'.barsInTrade = count /\ memory'.peakPrice = new.peakPrice
       /\ memory'.stopLevel = new.stopLevel
  <2> HIDE DEF count, new
  <2>1. memory' \in Memories
    BY <1>6, <1>10, <1>11, Zenon DEF Memories
  <2> QED BY <1>6, <1>10, <2>1 DEF Memories
<1>13. IsAsked(ctx, close)
  <2>1. memory'.barsInTrade = IF long THEN result.ctx.memory.barsInTrade + 1 ELSE 0
    BY <1>12
  <2>2. IsRemembered(ctx.memory, memory, long, close)
    BY <1>8
  <2>3. effects' \in Seq(Effects)
    BY <1>6, <1>10
  <2> QED BY <1>6, <1>7, <1>9, <1>12, <2>1, <2>2, <2>3, Zenon DEF IsAsked, result
<1> QED BY <1>13

\* MemoryFollowsPosition, of a candle.
LEMMA CandleKeepsMemory ==
  ASSUME IInv, IInv', Fed, strategy \in DOMAIN Catalogue, Composable, Remembered,
         NEW close \in Closes, Candle(close)
  PROVE  Remembered'
<1> DEFINE long == position > 0
<1>1. /\ position \in Nat /\ cash \in Nat /\ bar \in Nat /\ openedAt \in Nat
      /\ position' \in Nat /\ cash' \in Nat /\ close \in Nat
      /\ long => openedAt \in 1..bar
  BY EngineAssumption DEF IInv, Types, AllInOrAllOut, Fed
<1>2. bar' = bar + 1
  BY CandleIsFed
<1>3. PICK ctx : IsAsked(ctx, close)
  BY CandleAsks
<1> DEFINE result == EvaluateRules(Chosen.rules, ctx)
           new == result.ctx.memory
<1>4. /\ IsRemembered(ctx.memory, memory, long, close)
      /\ ctx.effects = IF memory.wasLong /\ ~long THEN <<>> ELSE effects
      /\ result \in AnyOutcomes(ctx)
      /\ KeepsToTrades(Chosen.rules) =>
           \/ ~long /\ result \in FlatOutcomes(ctx)
           \/ long /\ result \in LongOutcomes(ctx)
      /\ effects' = result.ctx.effects /\ effects' \in Seq(Effects)
      /\ memory' \in Memories /\ memory'.wasLong = new.wasLong
      /\ memory'.peakPrice = new.peakPrice /\ memory'.stopLevel = new.stopLevel
      /\ memory'.barsInTrade = IF long THEN new.barsInTrade + 1 ELSE 0
      /\ \/ result.signal = "BUY" /\ BuyBar(close)
         \/ result.signal = "SELL" /\ SellBar(close)
         \/ result.signal = "HOLD" /\ HoldBar(close)
  BY <1>3, Zenon DEF IsAsked
<1> HIDE DEF result
<1>4a. /\ new.wasLong = long /\ new.barsInTrade = memory.barsInTrade
       /\ strategy' = strategy
  BY <1>4 DEF AnyOutcomes, IsRemembered, Candle
<1>4b. KeepsToTrades(Chosen.rules)' = KeepsToTrades(Chosen.rules)
  BY <1>4a DEF Chosen
<1>5. CASE long
  <2>1. memory'.wasLong /\ memory'.barsInTrade = memory.barsInTrade + 1
    BY <1>4, <1>4a, <1>5
  <2>2. memory.barsInTrade = bar - openedAt
    BY <1>5 DEF Remembered
  <2>3. position' > 0 => openedAt' = openedAt
    BY <1>1, <1>4, <1>5, CandleFills DEF account
  <2>4. ASSUME KeepsToTrades(Chosen.rules), OrdersFill' PROVE OneStop(effects')
    <3>1. OneStop(ctx.effects) => OneStop(result.ctx.effects)
      BY <1>4, <1>5, <2>4 DEF LongOutcomes
    <3>2. OneStop(effects)
      BY <2>4, OrdersFilled DEF Remembered, NothingLeft
    <3> QED BY <1>4, <1>5, <3>1, <3>2
  <2>5. KeepsToTrades(Chosen.rules)' => NothingLeft'
    BY <1>4b, <2>1, <2>4 DEF NothingLeft
  <2> QED BY <1>1, <1>2, <1>4, <1>5, <2>1, <2>2, <2>3, <2>5 DEF Remembered
<1>6. CASE ~long
  <2>0. position = 0
    BY <1>1, <1>6
  <2>1. ~memory'.wasLong /\ memory'.barsInTrade = 0
    BY <1>4, <1>4a, <1>6
  <2>2. position' > 0 => openedAt' = bar + 1
    BY <1>1, <1>4, <2>0, CandleFills DEF account
  <2>3. ASSUME KeepsToTrades(Chosen.rules) PROVE NothingLeft'
    <3>1. /\ new = ctx.memory
          /\ result.signal # "BUY" => result.ctx.effects = ctx.effects
          /\ ctx.effects = <<>> => OneStop(result.ctx.effects)
      BY <1>4, <1>6, <2>3 DEF FlatOutcomes
    <3>2. memory'.peakPrice = 0 /\ memory'.stopLevel = NoLevel
      BY <1>4, <1>6, <2>0, <2>3, <3>1 DEF Remembered, NothingLeft, IsRemembered
    <3>3. ASSUME OrdersFill'
          PROVE  OneStop(effects') /\ (position' = 0 => effects' = <<>>)
      <4>1. OrdersFill /\ close > 0 /\ cash > 0
        BY <2>0, <3>3, OrdersFilled DEF OrdersFill
      <4>2. ctx.effects = <<>>
        BY <1>4, <1>6, <2>0, <2>3, <4>1 DEF Remembered, NothingLeft
      <4>3. position' = 0 => result.signal # "BUY"
        BY <1>1, <1>4, <2>0, <4>1, CandleFills
      <4> QED BY <1>4, <3>1, <4>2, <4>3
    <3> QED BY <3>2, <3>3 DEF NothingLeft
  <2> QED BY <1>1, <1>2, <1>4, <1>4b, <2>1, <2>2, <2>3 DEF Remembered
<1> QED BY <1>5, <1>6

LEMMA NextRunInv == IInv /\ IInv' /\ RunInv /\ [BacktestNext]_backtestVars => RunInv'
<1> SUFFICES ASSUME IInv, IInv', RunInv, [BacktestNext]_backtestVars PROVE RunInv'
  OBVIOUS
<1>1. ASSUME NEW close \in Closes, Candle(close) PROVE RunInv'
  <2>1. Fed' /\ ~done /\ done' = done
    BY <1>1, CandleIsFed DEF RunInv
  <2>2. strategy' = strategy
    BY <1>1 DEF Candle
  <2>3. ASSUME Composable' PROVE Remembered'
    <3>1. Composable
      BY <2>2, <2>3 DEF Composable, Chosen
    <3> QED BY <1>1, <2>1, <3>1, CandleKeepsMemory DEF RunInv
  <2> QED BY <2>1, <2>2, <2>3 DEF RunInv
<1>2. CASE Report
  <2>1. done' /\ UNCHANGED <<strategy, closes, bar, lastClose>>
    BY <1>2 DEF Report, Finish
  <2> QED BY <2>1 DEF RunInv, Fed
<1>3. CASE UNCHANGED backtestVars \/ StrategyRaises
  <2>1. UNCHANGED <<vars, strategy, closes, memory, effects>>
    BY <1>3 DEF backtestVars, StrategyRaises
  <2> QED BY <2>1 DEF vars, RunInv, Fed, Composable, Chosen, Remembered, NothingLeft,
                      OrdersFill
<1> QED BY <1>1, <1>2, <1>3 DEF BacktestNext

THEOREM RunIsFollowed == BacktestSpec => []RunInv
<1>1. BacktestInit => RunInv
  BY InitRunInv
<1>2. IInv /\ IInv' /\ RunInv /\ [BacktestNext]_backtestVars => RunInv'
  BY NextRunInv
<1> QED BY <1>1, <1>2, RunsOfEngine, Accounting, PTL DEF BacktestSpec

\* MemoryFollowsPosition: whatever its rules, a composable strategy has counted the
\* candles of the trade that is open; one whose rules keep to the trades remembers
\* nothing of another (ComposableStrategy.on_candle).
THEOREM MemoryOfTheTrade == BacktestSpec => []MemoryFollowsPosition
<1>1. RunInv => MemoryFollowsPosition
  BY DEF RunInv, Remembered, NothingLeft, MemoryFollowsPosition, OrdersFill, OneStop
<1> QED BY <1>1, RunIsFollowed, PTL

-----------------------------------------------------------------------------
(***************************************************************************)
(* Trailing stops.  The first rule moves the stop and the second tests it: *)
(* no later rule can undo either.                                          *)
(***************************************************************************)
\* A condition that is a single predicate is that predicate.
LEMMA HoldsAlone ==
  ASSUME NEW w, w.op \notin {"all", "any", "not"}, NEW ctx
  PROVE  Holds(<<w>>, ctx) = Atom(w, ctx)
<1> DEFINE when == <<w>>
           R(h) == h = [i \in DOMAIN when |->
                          CASE when[i].op = "all" -> \A j \in when[i].of : h[j]
                            [] when[i].op = "any" -> \E j \in when[i].of : h[j]
                            [] when[i].op = "not" -> ~h[when[i].of]
                            [] OTHER -> Atom(when[i], ctx)]
           holds == CHOOSE h : R(h)
<1>1. Holds(when, ctx) = holds[1]
  BY Zenon DEF Holds
<1>2. DOMAIN when = {1} /\ when[1] = w
  OBVIOUS
<1> HIDE DEF when
<1>3. R([i \in DOMAIN when |-> Atom(when[i], ctx)])
  BY <1>2
<1>4. R(holds)
  BY <1>3
<1> HIDE DEF holds
<1>5. holds[1] = Atom(w, ctx)
  BY <1>2, <1>4
<1> QED BY <1>1, <1>5 DEF when

LEMMA StopMovedFirst ==
  ASSUME NEW ctx, ctx \in Contexts(ctx), ctx.long = TRUE, Price(ctx) \in Nat,
         NEW rule, SoundRule(rule), MovesStop(rule)
  PROVE  LET new == Consider(Scopes(ctx), Undecided(ctx), rule)
         IN  /\ new \in Outcomes(ctx) /\ ~new.decided
             /\ StopIsMoved(new.ctx.memory, ctx.memory, Price(ctx), rule.then.trailing)
<1> DEFINE new == Consider(Scopes(ctx), Undecided(ctx), rule)
           undecided == Undecided(ctx)
<1>1. undecided \in Outcomes(ctx) /\ undecided.ctx = ctx /\ undecided.decided = FALSE
  BY UndecidedIsOne DEF Undecided
<1>2. /\ rule.then.do = "move_stop"
      /\ rule.then.trailing \in 0..100 /\ rule.scope \in {"long", "always"}
      /\ rule.when = << [op |-> "has_position", want |-> TRUE] >>
  BY DEF MovesStop, SoundRule
<1>3. Holds(rule.when, ctx)
  <2> DEFINE w == [op |-> "has_position", want |-> TRUE]
  <2>1. Holds(<<w>>, ctx) = Atom(w, ctx)
    BY HoldsAlone
  <2>2. Atom(w, ctx) = (ctx.long = TRUE)
    BY DEF Atom
  <2> QED BY <1>2, <2>1, <2>2
<1>4. rule.scope \in Scopes(ctx)
  BY <1>2 DEF Scopes
<1>5. /\ MoveStop(ctx, rule.then) \in Contexts(ctx)
      /\ StopIsMoved(MoveStop(ctx, rule.then).memory, ctx.memory, Price(ctx), rule.then.trailing)
  BY <1>2, MoveStopProperties
<1>6. new = [undecided EXCEPT !.ctx = MoveStop(ctx, rule.then)]
  <2>1. new = [undecided EXCEPT !.ctx = RunAction(undecided.ctx, rule.then).ctx]
    <3> HIDE DEF undecided
    <3> QED BY <1>1, <1>2, <1>3, <1>4 DEF Consider, IsTerminal, undecided
  <2>2. RunAction(ctx, rule.then).ctx = MoveStop(ctx, rule.then)
    BY <1>2 DEF RunAction
  <2> HIDE DEF new, undecided
  <2> QED BY <1>1, <2>1, <2>2
<1> HIDE DEF new, undecided
<1>7. new \in Outcomes(ctx) /\ new.ctx = MoveStop(ctx, rule.then) /\ new.decided = FALSE
  BY <1>1, <1>5, <1>6, ContextIsReplaced
<1> QED BY <1>5, <1>7 DEF new

LEMMA SoldAtStop ==
  ASSUME NEW ctx, ctx.long = TRUE, Price(ctx) \in Nat,
         NEW o \in Outcomes(ctx), o.decided = FALSE, o.ctx.memory.stopLevel \in Nat,
         NEW rule, SellsAtStop(rule)
  PROVE  LET new == Consider(Scopes(ctx), o, rule)
         IN  /\ new.ctx = o.ctx
             /\ 100 * Price(ctx) <= o.ctx.memory.stopLevel =>
                  new.decided /\ new.signal = "SELL"
<1> DEFINE new == Consider(Scopes(ctx), o, rule)
<1>1. /\ rule.then.do = "sell" /\ rule.scope \in {"long", "always"}
      /\ rule.when = << [op |-> "trailing_stop_hit", want |-> TRUE] >>
  BY DEF SellsAtStop
<1>2. o.ctx.long = TRUE /\ Price(o.ctx) = Price(ctx)
  BY DEF Outcomes, Contexts, Price
<1>3. Holds(rule.when, o.ctx) = (StopHit(o.ctx) = TRUE)
  <2> DEFINE w == [op |-> "trailing_stop_hit", want |-> TRUE]
  <2>1. Holds(<<w>>, o.ctx) = Atom(w, o.ctx)
    BY HoldsAlone
  <2>2. Atom(w, o.ctx) = (StopHit(o.ctx) = TRUE)
    BY DEF Atom
  <2> QED BY <1>1, <2>1, <2>2
<1>4. StopHit(o.ctx) <=> 100 * Price(ctx) <= o.ctx.memory.stopLevel
  BY <1>2 DEF StopHit, NoLevel
<1>5. rule.scope \in Scopes(ctx)
  BY <1>1 DEF Scopes
<1>6. RunAction(o.ctx, rule.then) = [ctx |-> o.ctx, signal |-> "SELL"]
  BY <1>1 DEF RunAction
<1>7. CASE 100 * Price(ctx) <= o.ctx.memory.stopLevel
  <2>1. Holds(rule.when, o.ctx)
    BY <1>3, <1>4, <1>7
  <2>2. new = [ctx |-> o.ctx, signal |-> "SELL", decided |-> TRUE]
    BY <1>1, <1>5, <1>6, <2>1 DEF Consider, IsTerminal
  <2> QED BY <2>2
<1>8. CASE ~(100 * Price(ctx) <= o.ctx.memory.stopLevel)
  <2>1. ~Holds(rule.when, o.ctx)
    BY <1>3, <1>4, <1>8
  <2>2. new = o
    BY <2>1 DEF Consider
  <2> QED BY <1>8, <2>2
<1> QED BY <1>7, <1>8

\* What the rules of a strategy with a trailing stop do to its memory.
TestedAtStop(result, ctx, trailing) ==
  /\ StopIsMoved(result.ctx.memory, ctx.memory, Price(ctx), trailing)
  /\ 100 * Price(ctx) <= result.ctx.memory.stopLevel => result.signal = "SELL"

LEMMA TrailingRules ==
  ASSUME NEW s, SoundStrategy(s), Trails(s.rules), NEW ctx, ctx \in Contexts(ctx),
         ctx.long = TRUE, Price(ctx) \in Nat
  PROVE  /\ TrailingOf(s.rules) \in 0..100
         /\ TestedAtStop(EvaluateRules(s.rules, ctx), ctx, TrailingOf(s.rules))
<1> DEFINE rules == ByPriority(s.rules)
           n == Len(rules)
           trailing == TrailingOf(s.rules)
<1>2. rules \in Seq(Range(s.rules)) /\ \A k \in DOMAIN rules : SoundRule(rules[k])
  BY SortedRules
<1>1. /\ n > 1 /\ MovesStop(rules[1]) /\ SellsAtStop(rules[2])
      /\ \A k \in 3..n : rules[k].then.do # "move_stop"
      /\ trailing = rules[1].then.trailing /\ trailing \in 0..100
  <2>1. /\ n > 1 /\ MovesStop(rules[1]) /\ SellsAtStop(rules[2])
        /\ \A k \in 3..n : rules[k].then.do # "move_stop"
        /\ trailing = rules[1].then.trailing
    BY DEF Trails, TrailingOf
  <2>2. SoundRule(rules[1])
    BY <1>2, <2>1
  <2> QED BY <2>1, <2>2 DEF SoundRule, MovesStop
<1>3. n \in Nat /\ \A k \in 1..n : SoundRule(rules[k])
  BY <1>2
<1>4. PICK f : /\ IsEvaluation(f, s.rules, ctx)
               /\ \A k \in 0..n : f[k] \in AnyOutcomes(ctx)
  BY AnyRules
<1>5. /\ f[0] = Undecided(ctx) /\ EvaluateRules(s.rules, ctx) = f[n]
      /\ \A k \in 1..n : f[k] = Consider(Scopes(ctx), f[k - 1], rules[k])
  BY <1>4 DEF IsEvaluation
<1> HIDE DEF rules, n, trailing
<1>6. \A k \in 0..n : f[k] \in Outcomes(ctx) /\ f[k].ctx \in Contexts(ctx)
  BY <1>4 DEF AnyOutcomes, Outcomes
<1> DEFINE m == f[1].ctx.memory
           hit == 100 * Price(ctx) <= m.stopLevel
           Settled(o) == o.ctx.memory = m /\ (hit => o.decided /\ o.signal = "SELL")
<1>7. /\ f[1] \in Outcomes(ctx) /\ f[1].decided = FALSE
      /\ StopIsMoved(m, ctx.memory, Price(ctx), trailing)
  <2>1. f[1] = Consider(Scopes(ctx), Undecided(ctx), rules[1]) /\ SoundRule(rules[1])
    BY <1>1, <1>3, <1>5
  <2>2. f[1].decided \in BOOLEAN
    BY <1>1, <1>3, <1>6 DEF Outcomes
  <2> QED BY <1>1, <2>1, <2>2, StopMovedFirst
<1>8. m.stopLevel \in Nat
  <2> DEFINE peak == Larger(ctx.memory.peakPrice, Price(ctx))
             part == peak * (100 - trailing)
  <2>1. peak \in Nat /\ m.stopLevel = Larger(ctx.memory.stopLevel, part)
    <3>1. ctx.memory \in Memories
      BY DEF Contexts
    <3> QED BY <1>7, <3>1 DEF StopIsMoved, Memories
  <2>2. 100 - trailing \in Nat
    BY <1>1
  <2> HIDE DEF peak
  <2>3. part \in Nat
    BY <2>1, <2>2, ProductIsNat
  <2>4. ctx.memory.stopLevel \in Int
    BY DEF Contexts, Memories
  <2> HIDE DEF part, m
  <2> QED BY <2>1, <2>3, <2>4 DEF Larger
<1>9. Settled(f[2])
  <2>1. f[2] = Consider(Scopes(ctx), f[1], rules[2])
    BY <1>1, <1>3, <1>5
  <2>2. /\ f[2].ctx = f[1].ctx
        /\ hit => f[2].decided /\ f[2].signal = "SELL"
    <3> DEFINE o == f[1]
               new == Consider(Scopes(ctx), o, rules[2])
    <3>1. o \in Outcomes(ctx) /\ o.decided = FALSE /\ o.ctx.memory.stopLevel \in Nat
      BY <1>7, <1>8
    <3> HIDE DEF o
    <3>2. new.ctx = o.ctx /\ (100 * Price(ctx) <= o.ctx.memory.stopLevel =>
                                 new.decided /\ new.signal = "SELL")
      BY <1>1, <3>1, SoldAtStop
    <3> QED BY <2>1, <3>2 DEF o
  <2> QED BY <2>2
<1>10. ASSUME NEW k \in 3..n, Settled(f[k - 1]) PROVE Settled(f[k])
  <2>1. /\ f[k] = Consider(Scopes(ctx), f[k - 1], rules[k])
        /\ SoundRule(rules[k]) /\ rules[k].then.do # "move_stop"
        /\ f[k - 1] \in Outcomes(ctx) /\ f[k - 1].ctx \in Contexts(ctx)
    BY <1>1, <1>3, <1>5, <1>6
  <2>2. CASE f[k] = f[k - 1]
    BY <1>10, <2>2
  <2>3. CASE /\ ~f[k - 1].decided /\ rules[k].then.do = "buy"
             /\ f[k].ctx = NoteLevels(f[k - 1].ctx, rules[k].then)
    <3>1. f[k].ctx.memory = f[k - 1].ctx.memory
      BY <2>1, <2>3, NoteLevelsProperties
    <3> QED BY <1>10, <2>3, <3>1
  <2>4. CASE ~f[k - 1].decided /\ f[k].ctx = f[k - 1].ctx
    BY <1>10, <2>4
  <2> QED BY <2>1, <2>2, <2>3, <2>4, TerminalRule
<1>11. Settled(f[n])
  <2> DEFINE G == {k \in 0..n : k < 2 \/ Settled(f[k])}
  <2>1. 0 \in G
    BY <1>3
  <2>2. ASSUME NEW k \in 1..n, k - 1 \in G PROVE k \in G
    <3>1. CASE k = 1
      BY <1>3, <3>1
    <3>2. CASE k = 2
      BY <1>3, <1>9, <3>2
    <3>3. CASE k > 2
      <4>1. k \in 3..n
        BY <1>3, <3>3
      <4>2. Settled(f[k - 1])
        BY <2>2, <3>3, <1>3
      <4>3. Settled(f[k])
        BY <1>10, <4>1, <4>2
      <4> QED BY <1>3, <4>3
    <3> QED BY <1>3, <3>1, <3>2, <3>3
  <2> HIDE DEF G
  <2>3. \A k \in 0..n : k \in G
    BY <1>3, <2>1, <2>2, PrefixInduction
  <2> QED BY <1>1, <1>3, <2>3 DEF G
<1> QED BY <1>1, <1>5, <1>7, <1>11 DEF TestedAtStop, trailing

\* The highest close of a trade that goes on for one candle.
LEMMA MaxOfMore ==
  ASSUME NEW S \in SUBSET Nat, IsFiniteSet(S), S # {}, NEW x \in Nat
  PROVE  Max(S \cup {x}) = Larger(Max(S), x) /\ Max(S) \in Nat
<1>1. IsFiniteSet(S \cup {x}) /\ S \cup {x} # {} /\ S \cup {x} \in SUBSET Int
  BY FS_AddElement
<1>2. Max(S) \in S /\ \A y \in S : Max(S) >= y
  BY MaxMin
<1>3. Max(S \cup {x}) \in S \cup {x} /\ \A y \in S \cup {x} : Max(S \cup {x}) >= y
  BY <1>1, MaxMin
<1> DEFINE a == Max(S)
           b == Max(S \cup {x})
<1>4. a \in Nat /\ b \in Nat /\ (b = x \/ b \in S) /\ b >= a /\ b >= x /\ (b \in S => a >= b)
  BY <1>2, <1>3
<1> HIDE DEF a, b
<1>5. b = Larger(a, x)
  BY <1>4 DEF Larger
<1> QED BY <1>4, <1>5 DEF a, b

LEMMA MaxOfOne ==
  ASSUME NEW x \in Nat
  PROVE  Max({x}) = x
<1>1. IsFiniteSet({x})
  BY FS_Singleton
<1>2. {x} # {} /\ {x} \in SUBSET Int
  OBVIOUS
<1> QED BY <1>1, <1>2, MaxMin

\* A stop that is its part of the peak stays that when it is moved.
PartOf(peak, trailing) == peak * (100 - trailing)
IsStopOf(m, peak, trailing) ==
  m.peakPrice = peak /\ m.stopLevel = PartOf(peak, trailing)

LEMMA StopFollows ==
  ASSUME NEW old, NEW new, NEW trailing \in 0..100, NEW peak \in Nat, NEW price \in Nat,
         old \in Memories, StopIsMoved(new, old, price, trailing),
         old.peakPrice = Larger(peak, price),
         old.stopLevel \in {NoLevel, PartOf(peak, trailing)}
  PROVE  IsStopOf(new, Larger(peak, price), trailing)
<1> DEFINE top == Larger(peak, price)
           rest == 100 - trailing
<1>1. top \in Nat /\ top >= peak /\ Larger(top, price) = top /\ rest \in Nat
  BY DEF Larger
<1>2. /\ new.peakPrice = Larger(old.peakPrice, price)
      /\ new.stopLevel = Larger(old.stopLevel, Larger(old.peakPrice, price) * rest)
  BY DEF StopIsMoved, Memories
<1> HIDE DEF top
<1>3. new.peakPrice = top /\ new.stopLevel = Larger(old.stopLevel, top * rest)
  BY <1>1, <1>2 DEF top
<1>4. top * rest \in Nat /\ peak * rest \in Nat
  BY <1>1, ProductIsNat
<1>5. peak * rest <= top * rest
  BY <1>1, ProductIsMonotonic
<1>6. Larger(old.stopLevel, top * rest) = top * rest
  <2> DEFINE x == top * rest
             y == peak * rest
  <2>1. x \in Nat /\ y \in Nat /\ y <= x /\ (old.stopLevel = -1 \/ old.stopLevel = y)
    BY <1>4, <1>5 DEF NoLevel, PartOf
  <2> HIDE DEF x, y
  <2>2. Larger(old.stopLevel, x) = x
    BY <2>1 DEF Larger
  <2> QED BY <2>2 DEF x
<1> QED BY <1>3, <1>6 DEF top, PartOf, IsStopOf

LEMMA CandleMovesStop ==
  ASSUME IInv, IInv', Fed, strategy \in DOMAIN Catalogue, Composable, Remembered,
         TrailingStopFollowsTrade, Trails(Chosen.rules), position > 0, position' > 0,
         NEW close \in Closes, Candle(close)
  PROVE  LET peak == Max({closes'[i] : i \in (openedAt + 1)..(bar + 1)})
         IN  /\ memory'.peakPrice = peak
             /\ memory'.stopLevel = peak * (100 - TrailingOf(Chosen.rules))
             /\ 100 * close > memory'.stopLevel
<1> DEFINE part == 100 - TrailingOf(Chosen.rules)
           past == {closes[i] : i \in (openedAt + 1)..bar}
           now == {closes'[i] : i \in (openedAt + 1)..(bar + 1)}
<1>1. /\ bar \in Nat /\ openedAt \in 1..bar /\ close \in Nat /\ ~done
      /\ closes'[bar + 1] = close /\ \A i \in 1..bar : closes'[i] = closes[i]
      /\ closes \in Seq(Closes) /\ Len(closes) = bar /\ Closes \subseteq Nat
  BY CandleIsFed, EngineAssumption DEF IInv, AllInOrAllOut, Fed
<1>2. now = past \cup {close}
  BY <1>1
<1>3. past \in SUBSET Nat /\ IsFiniteSet(past)
  <2>1. ASSUME NEW i \in (openedAt + 1)..bar PROVE closes[i] \in Nat
    <3>1. i \in 1..Len(closes)
      BY <1>1
    <3>2. closes[i] \in Closes
      BY <1>1, <3>1
    <3> QED BY <1>1, <3>2
  <2>2. IsFiniteSet((openedAt + 1)..bar)
    BY <1>1, FS_Interval
  <2>3. IsFiniteSet(past)
    <3> DEFINE places == (openedAt + 1)..bar
    <3>1. past = {closes[i] : i \in places} /\ IsFiniteSet(places)
      BY <2>2
    <3> DEFINE f == [i \in places |-> closes[i]]
    <3> HIDE DEF places, past
    <3>2. f \in Surjection(places, past)
      BY <3>1 DEF Surjection
    <3> QED BY <3>1, <3>2, FS_Surjection DEF ExistsSurjection
  <2> QED BY <2>1, <2>3
<1>4. PICK ctx : IsAsked(ctx, close)
  BY CandleAsks
<1> DEFINE long == position > 0
           result == EvaluateRules(Chosen.rules, ctx)
           new == result.ctx.memory
           old == ctx.memory
<1>5. /\ ctx \in Contexts(ctx) /\ ctx.long = TRUE /\ Price(ctx) = close
      /\ IsRemembered(old, memory, TRUE, close)
      /\ memory'.peakPrice = new.peakPrice /\ memory'.stopLevel = new.stopLevel
      /\ \/ result.signal = "BUY" /\ BuyBar(close)
         \/ result.signal = "SELL" /\ SellBar(close)
         \/ result.signal = "HOLD" /\ HoldBar(close)
  <2>1. long = TRUE
    OBVIOUS
  <2> HIDE DEF long
  <2>2. /\ ctx \in Contexts(ctx) /\ ctx.long = long /\ Price(ctx) = close
        /\ IsRemembered(old, memory, long, close)
        /\ memory'.peakPrice = new.peakPrice /\ memory'.stopLevel = new.stopLevel
        /\ \/ result.signal = "BUY" /\ BuyBar(close)
           \/ result.signal = "SELL" /\ SellBar(close)
           \/ result.signal = "HOLD" /\ HoldBar(close)
    BY <1>4, Zenon DEF IsAsked, long
  <2> HIDE DEF result, old
  <2> QED BY <2>1, <2>2
<1>6. SoundStrategy(Chosen) /\ TrailingOf(Chosen.rules) \in 0..100
  <2>1. SoundStrategy(Chosen)
    BY BacktestAssumption DEF Composable, Chosen
  <2> QED BY <1>1, <1>5, <2>1, TrailingRules
<1>7. /\ StopIsMoved(new, old, close, TrailingOf(Chosen.rules))
      /\ 100 * close <= new.stopLevel => result.signal = "SELL"
  <2>1. TestedAtStop(result, ctx, TrailingOf(Chosen.rules))
    BY <1>1, <1>5, <1>6, TrailingRules
  <2> QED BY <1>5, <2>1 DEF TestedAtStop
<1>8. old \in Memories
  BY <1>5 DEF Contexts
<1> HIDE DEF result, old, now, past
<1>9. PICK peak \in Nat :
        /\ Max(now) = Larger(peak, close)
        /\ old.peakPrice = Larger(peak, close)
        /\ old.stopLevel = NoLevel \/ old.stopLevel = peak * part
  <2>1. CASE bar > openedAt
    <3>1. memory.wasLong
      BY <2>1 DEF Remembered
    <3>2. past # {}
      <4>1. bar \in (openedAt + 1)..bar
        BY <1>1, <2>1
      <4> QED BY <4>1 DEF past
    <3>3. Max(now) = Larger(Max(past), close) /\ Max(past) \in Nat
      BY <1>1, <1>2, <1>3, <3>2, MaxOfMore
    <3>4. memory.peakPrice = Max(past) /\ memory.stopLevel = Max(past) * part
      BY <1>1, <2>1 DEF TrailingStopFollowsTrade, past
    <3>5. old.peakPrice = Larger(memory.peakPrice, close) /\ old.stopLevel = memory.stopLevel
      BY <1>5, <3>1 DEF IsRemembered
    <3> QED BY <3>3, <3>4, <3>5
  <2>2. CASE ~(bar > openedAt)
    <3>1. memory.wasLong # TRUE /\ memory.wasLong \in BOOLEAN
      BY <2>2 DEF Remembered, Memories
    <3>2. past = {}
      BY <1>1, <2>2 DEF past
    <3>3. now = {close}
      BY <1>2, <3>2
    <3>4. Max(now) = close /\ Larger(close, close) = close
      BY <1>1, <3>3, MaxOfOne DEF Larger
    <3>5. old.peakPrice = close /\ old.stopLevel = NoLevel
      BY <1>5, <3>1 DEF IsRemembered
    <3> QED BY <1>1, <3>4, <3>5
  <2> QED BY <2>1, <2>2
<1>10. /\ new.peakPrice = Larger(peak, close)
       /\ new.stopLevel = Larger(peak, close) * part
  <2> DEFINE trailing == TrailingOf(Chosen.rules)
  <2>1. /\ trailing \in 0..100 /\ StopIsMoved(new, old, close, trailing)
        /\ old.stopLevel \in {NoLevel, PartOf(peak, trailing)}
    BY <1>6, <1>7, <1>9 DEF PartOf
  <2> HIDE DEF trailing, new
  <2>2. IsStopOf(new, Larger(peak, close), trailing)
    <3>1. /\ old \in Memories /\ close \in Nat /\ peak \in Nat
          /\ old.peakPrice = Larger(peak, close)
      BY <1>1, <1>8, <1>9
    <3> QED BY <2>1, <3>1, StopFollows
  <2> QED BY <2>2 DEF trailing, PartOf, IsStopOf
<1>11. 100 * close > new.stopLevel
  <2>1. ~SellBar(close)
    BY CandleFills
  <2>2. result.signal # "SELL"
    BY <1>5, <2>1
  <2>3. Larger(peak, close) \in Nat /\ part \in Nat
    <3>1. \A t \in 0..100 : 100 - t \in Nat
      OBVIOUS
    <3> QED BY <1>1, <1>6, <1>9, <3>1 DEF Larger
  <2>4. new.stopLevel \in Nat /\ 100 * close \in Nat
    BY <1>1, <1>10, <2>3, ProductIsNat
  <2> HIDE DEF new
  <2> QED BY <1>7, <2>2, <2>4
<1> HIDE DEF new
<1> QED BY <1>5, <1>9, <1>10, <1>11 DEF now

LEMMA NextTrailing ==
  IInv /\ IInv' /\ RunInv /\ RunInv' /\ TrailingStopFollowsTrade
    /\ [BacktestNext]_backtestVars => TrailingStopFollowsTrade'
<1> SUFFICES ASSUME IInv, IInv', RunInv, RunInv', TrailingStopFollowsTrade,
                    [BacktestNext]_backtestVars
             PROVE  TrailingStopFollowsTrade'
  OBVIOUS
<1>1. ASSUME NEW close \in Closes, Candle(close) PROVE TrailingStopFollowsTrade'
  <2>1. /\ Fed' /\ bar' = bar + 1 /\ bar \in Nat /\ ~done /\ done' = done
        /\ lastClose' = close
    <3>1. bar' > 0 /\ closes'[bar'] = close /\ bar' = bar + 1
      BY <1>1, CandleIsFed DEF RunInv
    <3> QED BY <1>1, <3>1, CandleIsFed DEF RunInv, Fed
  <2>2. strategy' = strategy
    BY <1>1 DEF Candle
  <2> SUFFICES ASSUME Composable, Trails(Chosen.rules), position' > 0, bar' > openedAt'
               PROVE  LET peak == Max({closes'[i] : i \in (openedAt' + 1)..bar'})
                      IN  /\ memory'.peakPrice = peak
                          /\ memory'.stopLevel = peak * (100 - TrailingOf(Chosen.rules))
                          /\ 100 * lastClose' > memory'.stopLevel
    BY <2>2 DEF TrailingStopFollowsTrade, Composable, Chosen
  <2>3. BuyBar(close) \/ SellBar(close) \/ HoldBar(close)
    BY <1>1, CandleIsBar
  <2>4. position > 0 /\ openedAt' = openedAt
    <3>1. position \in Nat
      BY DEF IInv, Types
    <3> QED BY <2>1, <2>3, <3>1, CandleFills DEF account
  <2>5. LET peak == Max({closes'[i] : i \in (openedAt + 1)..(bar + 1)})
        IN  /\ memory'.peakPrice = peak
            /\ memory'.stopLevel = peak * (100 - TrailingOf(Chosen.rules))
            /\ 100 * close > memory'.stopLevel
    BY <1>1, <2>1, <2>4, CandleMovesStop DEF RunInv
  <2> QED BY <2>1, <2>4, <2>5
<1>2. CASE Report
  BY <1>2 DEF Report, Finish, TrailingStopFollowsTrade
<1>3. CASE UNCHANGED backtestVars \/ StrategyRaises
  <2>1. UNCHANGED <<vars, strategy, closes, memory, effects>>
    BY <1>3 DEF backtestVars, StrategyRaises
  <2> QED BY <2>1 DEF vars, TrailingStopFollowsTrade, Composable, Chosen
<1> QED BY <1>1, <1>2, <1>3 DEF BacktestNext

\* TrailingStopFollowsTrade: the level of a trailing stop is its part of the highest
\* close the strategy has seen in this trade, and no position is left open at or
\* below it (move_stop, trailing_stop_hit).
THEOREM StopsFollowTrades == BacktestSpec => []TrailingStopFollowsTrade
<1>1. BacktestInit => TrailingStopFollowsTrade
  BY DEF BacktestInit, Init, TrailingStopFollowsTrade
<1> QED BY <1>1, NextTrailing, RunIsFollowed, RunsOfEngine, Accounting, PTL DEF BacktestSpec

-----------------------------------------------------------------------------
(***************************************************************************)
(* The figures of a report.  The profits of the log are those that were    *)
(* booked, at every bar.                                                   *)
(***************************************************************************)
Booked ==
  /\ TotalPnl(tradeLog) = realized
  /\ \A i \in DOMAIN tradeLog : tradeLog[i].quantity > 0

\* The log grows by a closed position, or not at all.
LEMMA LogStep ==
  ASSUME IInv, [Next]_vars
  PROVE  \/ UNCHANGED <<tradeLog, realized>>
         \/ \E close \in Nat, at \in Nat : position > 0 /\ ClosePosition(close, at)
<1>1. ASSUME NEW close \in Closes, BuyBar(close) \/ SellBar(close) \/ HoldBar(close)
      PROVE  \/ UNCHANGED <<tradeLog, realized>>
             \/ position > 0 /\ ClosePosition(close, bar + 1)
  BY <1>1 DEF BuyBar, SellBar, HoldBar, NoFill, OpenPosition
<1>2. CASE Finish
  BY <1>2 DEF Finish, NoFill, IInv, Types
<1>3. CASE UNCHANGED vars
  BY <1>3 DEF vars
<1>4. bar + 1 \in Nat /\ Closes \subseteq Nat
  BY EngineAssumption DEF IInv, Types
<1> QED BY <1>1, <1>2, <1>3, <1>4 DEF Next

LEMMA ProfitsOfMore ==
  ASSUME NEW log \in Seq(Trade), NEW t \in Trade
  PROVE  TotalPnl(Append(log, t)) = TotalPnl(log) + t.pnl
<1> DEFINE s == [k \in DOMAIN log |-> log[k].pnl]
           more == Append(log, t)
           r == [k \in DOMAIN more |-> more[k].pnl]
<1>1. s \in Seq(Int) /\ Len(s) = Len(log) /\ t.pnl \in Int
  <2>1. \A u \in Trade : u.pnl \in Int
    BY DEF Trade
  <2>2. \A k \in DOMAIN log : log[k] \in Trade
    OBVIOUS
  <2>3. \A k \in 1..Len(log) : log[k].pnl \in Int
    BY <2>1, <2>2
  <2>4. s = [k \in 1..Len(log) |-> log[k].pnl] /\ Len(log) \in Nat
    OBVIOUS
  <2> HIDE DEF s
  <2> QED BY <2>1, <2>3, <2>4
<1>2. r = Append(s, t.pnl)
  OBVIOUS
<1> HIDE DEF s, r
<1>3. Total(r) = Total(s) + t.pnl
  BY <1>1, <1>2, TotalOfMore
<1> QED BY <1>3 DEF TotalPnl, s, r

LEMMA NextBooked == IInv /\ Logged /\ Booked /\ [Next]_vars => Booked'
<1> SUFFICES ASSUME IInv, Logged, Booked, [Next]_vars PROVE Booked'
  OBVIOUS
<1>1. CASE UNCHANGED <<tradeLog, realized>>
  BY <1>1 DEF Booked
<1>2. ASSUME NEW close \in Nat, NEW at \in Nat, position > 0, ClosePosition(close, at)
      PROVE  Booked'
  <2>1. PICK t \in Trade : /\ tradeLog' = Append(tradeLog, t)
                            /\ t.quantity = position
                            /\ realized' = realized + t.pnl
    BY <1>2, CloseMakesTrade
  <2>2. TotalPnl(tradeLog') = TotalPnl(tradeLog) + t.pnl
    BY <2>1, ProfitsOfMore DEF Logged
  <2>3. \A i \in DOMAIN tradeLog' : tradeLog'[i].quantity > 0
    BY <1>2, <2>1 DEF Logged, Booked
  <2> QED BY <2>1, <2>2, <2>3 DEF Booked
<1> QED BY <1>1, <1>2, LogStep

LEMMA InitBooked == Init => Booked
<1> SUFFICES ASSUME Init PROVE Booked
  OBVIOUS
<1>1. tradeLog = <<>> /\ realized = 0
  BY DEF Init
<1>2. [k \in DOMAIN tradeLog |-> tradeLog[k].pnl] = <<>>
  BY <1>1
<1> QED BY <1>1, <1>2, TotalOfNone DEF Booked, TotalPnl

THEOREM ProfitsAreBooked == Spec => []Booked
<1>1. Init => Logged
  BY InitReport
<1>2. IInv /\ Logged /\ Drawn /\ [Next]_vars => Logged' /\ Drawn'
  BY NextReport
<1> QED BY <1>1, <1>2, InitReport, InitBooked, NextBooked, Accounting, PTL DEF Spec

\* What was won less what was lost is the profit.
LEMMA GrossProfits ==
  ASSUME NEW log \in Seq(Trade)
  PROVE  /\ GrossWins(log) \in Nat /\ GrossLosses(log) \in Nat
         /\ TotalPnl(log) = GrossWins(log) - GrossLosses(log)
         /\ TotalPnl(log) \in Int
<1> DEFINE won == [k \in DOMAIN log |-> Won(log[k].pnl)]
           lost == [k \in DOMAIN log |-> Lost(log[k].pnl)]
           left == [k \in DOMAIN log |-> -Lost(log[k].pnl)]
           none == [k \in DOMAIN log |-> 0]
           all == [k \in DOMAIN log |-> log[k].pnl]
           n == Len(log)
<1>1. \A k \in 1..n : log[k].pnl \in Int
  <2>1. \A t \in Trade : t.pnl \in Int
    BY DEF Trade
  <2>2. \A k \in 1..n : log[k] \in Trade
    OBVIOUS
  <2> QED BY <2>1, <2>2
<1>2. n \in Nat /\ DOMAIN log = 1..n
  OBVIOUS
<1> HIDE DEF n
<1>3. /\ won \in Seq(Int) /\ lost \in Seq(Int) /\ all \in Seq(Int) /\ left \in Seq(Int)
      /\ none \in Seq(Int)
      /\ Len(won) = n /\ Len(lost) = n /\ Len(all) = n /\ Len(left) = n /\ Len(none) = n
  BY <1>1, <1>2 DEF Won, Lost
<1>4. \A k \in 1..n : /\ won[k] \in Int /\ won[k] >= 0 /\ left[k] \in Int /\ left[k] >= 0
                      /\ all[k] = won[k] + lost[k] /\ none[k] = lost[k] + left[k]
                      /\ none[k] = none[k] + none[k]
  BY <1>1, <1>2 DEF Won, Lost
<1>5. /\ GrossWins(log) = Total(won) /\ GrossLosses(log) = -Total(lost)
      /\ TotalPnl(log) = Total(all)
  BY DEF GrossWins, GrossLosses, TotalPnl
<1> HIDE DEF won, lost, all, left, none
<1>6. Total(all) = Total(won) + Total(lost)
  <2>1. /\ won \in Seq(Int) /\ lost \in Seq(Int) /\ all \in Seq(Int)
        /\ Len(lost) = Len(won) /\ Len(all) = Len(won)
        /\ \A k \in 1..Len(won) : all[k] = won[k] + lost[k]
    BY <1>3, <1>4
  <2> QED BY <2>1, TotalOfBoth
<1>7. Total(none) = Total(lost) + Total(left)
  <2>1. /\ lost \in Seq(Int) /\ left \in Seq(Int) /\ none \in Seq(Int)
        /\ Len(left) = Len(lost) /\ Len(none) = Len(lost)
        /\ \A k \in 1..Len(lost) : none[k] = lost[k] + left[k]
    BY <1>3, <1>4
  <2> QED BY <2>1, TotalOfBoth
<1>8. Total(none) = Total(none) + Total(none)
  <2>1. /\ none \in Seq(Int) /\ none \in Seq(Int) /\ none \in Seq(Int)
        /\ Len(none) = Len(none) /\ Len(none) = Len(none)
        /\ \A k \in 1..Len(none) : none[k] = none[k] + none[k]
    BY <1>3, <1>4
  <2> QED BY <2>1, TotalOfBoth
<1>9. Total(won) \in Nat /\ Total(left) \in Nat
  BY <1>3, <1>4, TotalIsNat
<1>10. Total(lost) \in Int /\ Total(none) \in Int /\ Total(all) \in Int
  BY <1>3, TotalIsInt
<1>11. Total(none) = 0
  BY <1>8, <1>10
<1>12. -Total(lost) = Total(left)
  BY <1>7, <1>9, <1>10, <1>11
<1> QED BY <1>5, <1>6, <1>9, <1>10, <1>12

\* The chart is made of points.
Point == [date : Nat, equity : Nat, close : Nat]

IsChart(points, prices, values) ==
  LET n == Len(points)
  IN  /\ points \in Seq(Point)
      /\ points = <<>> <=> prices = <<>> \/ Len(values) < 2 \/ prices[1] <= 0
      /\ \A i \in 1..n :
           points[i] = [date |-> i, equity |-> values[i + 1], close |-> prices[i]]
      /\ points # <<>> =>
           n <= Len(prices) /\ n < Len(values) /\ (n = Len(prices) \/ n + 1 = Len(values))

LEMMA ChartPointsAre ==
  ASSUME NEW prices \in Seq(Nat), NEW values \in Seq(Nat)
  PROVE  IsChart(ChartPoints(prices, values), prices, values)
<1> DEFINE points == ChartPoints(prices, values)
           none == prices = <<>> \/ Len(values) < 2 \/ prices[1] <= 0
<1>1. Len(prices) \in Nat /\ Len(values) \in Nat
  OBVIOUS
<1>2. CASE none
  <2>1. points = <<>>
    BY <1>2 DEF ChartPoints
  <2> HIDE DEF points, none
  <2>2. IsChart(<<>>, prices, values)
    BY <1>2 DEF IsChart, none
  <2> QED BY <2>1, <2>2 DEF points
<1>3. CASE ~none
  <2> DEFINE a == Len(prices)
             b == Len(values) - 1
             n == Min({a, b})
  <2>1. points = [i \in 1..n |-> [date |-> i, equity |-> values[i + 1], close |-> prices[i]]]
    BY <1>3 DEF ChartPoints
  <2>2. n = IF a <= b THEN a ELSE b
    <3>1. a \in Int /\ b \in Int
      BY <1>1
    <3> HIDE DEF a, b
    <3> QED BY <3>1, PairMaxMin
  <2>3. a > 0 /\ b > 0
    BY <1>1, <1>3
  <2> HIDE DEF points, n
  <2>4. /\ n \in Nat /\ n > 0 /\ n <= Len(prices) /\ n < Len(values)
        /\ n = Len(prices) \/ n + 1 = Len(values)
    BY <1>1, <2>2, <2>3
  <2>5. \A i \in 1..n : values[i + 1] \in Nat /\ prices[i] \in Nat
    BY <1>1, <2>4
  <2>6. \A i \in 1..n : [date |-> i, equity |-> values[i + 1], close |-> prices[i]] \in Point
    BY <2>4, <2>5 DEF Point
  <2>7. points \in Seq(Point) /\ Len(points) = n
    <3>1. points \in [1..n -> Point]
      BY <2>1, <2>6
    <3> QED BY <2>4, <3>1
  <2>8. points # <<>>
    BY <2>4, <2>7
  <2>9. \A i \in 1..Len(points) :
          points[i] = [date |-> i, equity |-> values[i + 1], close |-> prices[i]]
    BY <2>1, <2>7
  <2> QED BY <1>3, <2>4, <2>7, <2>8, <2>9 DEF IsChart, points
<1> QED BY <1>2, <1>3

\* Thinning a chart out keeps points of it in their order, the first and the last,
\* and few of them.
IsThinned(thin, points) ==
  /\ thin \in Seq(Point) /\ Len(thin) <= Len(points)
  /\ thin = <<>> <=> points = <<>>
  /\ \E at \in [1..Len(thin) -> 1..Len(points)] :
       /\ \A k \in 1..Len(thin) : thin[k] = points[at[k]]
       /\ \A i, j \in 1..Len(thin) : i < j => at[i] < at[j]
       /\ thin # <<>> => at[1] = 1 /\ at[Len(thin)] = Len(points)
  /\ Len(thin) <= MaxChartPoints + 1

LEMMA DownsampleProperties ==
  ASSUME NEW points \in Seq(Point)
  PROVE  IsThinned(Downsample(points), points)
<1> DEFINE n == Len(points)
           spread == {((i * n) \div MaxChartPoints) + 1 : i \in 0..(MaxChartPoints - 1)}
           kept == spread \union {n}
           order == Ascending(kept)
           thin == [k \in DOMAIN order |-> points[order[k]]]
<1>1. n \in Nat /\ MaxChartPoints \in Nat \ {0}
  BY MetricsAssumption
<1>2. CASE n <= MaxChartPoints
  <2> DEFINE at == [k \in 1..n |-> k]
  <2>1. Downsample(points) = points
    BY <1>2 DEF Downsample
  <2>2. /\ at \in [1..n -> 1..n] /\ \A k \in 1..n : points[k] = points[at[k]]
        /\ \A i, j \in 1..n : i < j => at[i] < at[j]
        /\ points # <<>> => at[1] = 1 /\ at[n] = n
    BY <1>1
  <2> HIDE DEF at
  <2>3. \E a \in [1..n -> 1..n] : /\ \A k \in 1..n : points[k] = points[a[k]]
                                  /\ \A i, j \in 1..n : i < j => a[i] < a[j]
                                  /\ points # <<>> => a[1] = 1 /\ a[n] = n
    BY <2>2
  <2> QED BY <1>1, <1>2, <2>1, <2>3 DEF IsThinned
<1>3. CASE ~(n <= MaxChartPoints)
  <2>1. Downsample(points) = thin
    BY <1>3 DEF Downsample
  <2> HIDE DEF n
  <2>2. \A i \in 0..(MaxChartPoints - 1) : ((i * n) \div MaxChartPoints) + 1 \in 1..n
    <3> SUFFICES ASSUME NEW i \in 0..(MaxChartPoints - 1)
                 PROVE  ((i * n) \div MaxChartPoints) + 1 \in 1..n
      OBVIOUS
    <3> DEFINE m == MaxChartPoints
               x == i * n
    <3>1. i \in Nat /\ i + 1 <= m /\ m \in Nat \ {0} /\ n > 0
      BY <1>1, <1>3
    <3>2. x \in Nat /\ (i + 1) * n <= m * n /\ (i + 1) * n = x + n
      BY <1>1, <3>1
    <3>3. x < n * m
      BY <1>1, <3>1, <3>2
    <3> HIDE DEF x, m
    <3>4. x \div m \in Nat /\ x \div m < n
      BY <1>1, <3>1, <3>2, <3>3
    <3> QED BY <1>1, <3>4 DEF x, m
  <2>3. kept \in SUBSET (1..n) /\ 1 \in kept /\ n \in kept
    <3>1. (0 * n) \div MaxChartPoints + 1 = 1 /\ 0 \in 0..(MaxChartPoints - 1)
      BY <1>1
    <3>2. n \in 1..n
      BY <1>1, <1>3
    <3> QED BY <2>2, <3>1, <3>2
  <2>4. IsFiniteSet(kept) /\ Cardinality(kept) <= MaxChartPoints + 1
    <3> DEFINE places == 0..(MaxChartPoints - 1)
               f == [i \in places |-> ((i * n) \div MaxChartPoints) + 1]
    <3>1. IsFiniteSet(places) /\ Cardinality(places) = MaxChartPoints
      BY <1>1, FS_Interval
    <3>2. f \in Surjection(places, spread)
      BY DEF Surjection
    <3> HIDE DEF places, f, spread
    <3>3. IsFiniteSet(spread) /\ Cardinality(spread) <= MaxChartPoints
      BY <3>1, <3>2, FS_Surjection
    <3>4. Cardinality(spread) \in Nat
      BY <3>3, FS_CardinalityType
    <3>5. /\ IsFiniteSet(spread \cup {n})
          /\ Cardinality(spread \cup {n}) = Cardinality(spread)
             \/ Cardinality(spread \cup {n}) = Cardinality(spread) + 1
      BY <3>3, FS_AddElement
    <3> QED BY <1>1, <3>3, <3>4, <3>5
  <2> HIDE DEF kept
  <2> DEFINE c == Cardinality(kept)
  <2>5. /\ c \in Nat /\ order \in [1..c -> kept]
        /\ \A x \in kept : \E k \in 1..c : order[k] = x
        /\ \A i, j \in 1..c : i < j <=> order[i] < order[j]
    <3>1. kept \in SUBSET Int
      BY <2>3
    <3> QED BY <2>4, <3>1, AscendingProperties
  <2>6. DOMAIN order = 1..c
    BY <2>5
  <2> HIDE DEF order
  <2>7. thin \in [1..c -> Point]
    <3>1. \A i \in 1..n : points[i] \in Point
      BY DEF n
    <3>2. \A k \in 1..c : points[order[k]] \in Point
      BY <2>3, <2>5, <3>1
    <3> QED BY <2>6, <3>2
  <2>8. /\ thin \in Seq(Point) /\ Len(thin) = c /\ \A k \in 1..c : thin[k] = points[order[k]]
    BY <2>5, <2>6, <2>7
  <2>9. order \in [1..c -> 1..n] /\ \A k \in 1..c : order[k] \in 1..n
    BY <2>3, <2>5
  <2>10. c > 0 /\ order[1] = 1
    <3>1. PICK k \in 1..c : order[k] = 1
      BY <2>3, <2>5
    <3>2. c > 0 /\ 1 \in 1..c
      BY <2>5, <3>1
    <3> QED BY <2>5, <2>9, <3>1, <3>2
  <2>11. order[c] = n
    <3>1. PICK k \in 1..c : order[k] = n
      BY <2>3, <2>5
    <3>2. c \in 1..c
      BY <2>5, <2>10
    <3>3. ~(k < c)
      BY <1>1, <2>5, <2>9, <3>1, <3>2
    <3> QED BY <2>5, <3>1, <3>3
  <2>12. c <= n
    <3>1. Cardinality(1..n) = n /\ IsFiniteSet(1..n)
      BY <1>1, FS_Interval
    <3> QED BY <2>3, <3>1, FS_Subset
  <2> HIDE DEF thin, c
  <2>13. thin # <<>> /\ points # <<>>
    BY <1>1, <1>3, <2>5, <2>8, <2>10 DEF n
  <2>14. \E a \in [1..c -> 1..n] : /\ \A k \in 1..c : thin[k] = points[a[k]]
                                   /\ \A i, j \in 1..c : i < j => a[i] < a[j]
                                   /\ a[1] = 1 /\ a[c] = n
    BY <2>5, <2>8, <2>9, <2>10, <2>11
  <2> QED BY <2>1, <2>4, <2>8, <2>12, <2>13, <2>14 DEF IsThinned, c, n
<1> QED BY <1>2, <1>3

\* The comparison with holding the instrument is between whole numbers.
LEMMA VsBuyHoldIsInt ==
  ASSUME NEW chart \in Seq(Point), NEW capital \in Nat
  PROVE  VsBuyHold(chart, capital)[1] \in Int
<1> DEFINE equityOf(p) == IF p.equity = 0 THEN capital ELSE p.equity
           closeOf(p) == IF p.close = 0 THEN chart[1].close ELSE p.close
           n == Len(chart)
<1>1. CASE n < 2
  BY <1>1 DEF VsBuyHold
<1>2. CASE ~(n < 2)
  <2>1. n \in Nat /\ 1 \in 1..n /\ n \in 1..n
    BY <1>2
  <2>2. chart[1] \in Point /\ chart[n] \in Point
    BY <2>1
  <2>3. \A p \in Point : p.equity \in Nat /\ p.close \in Nat
    BY DEF Point
  <2>4. /\ equityOf(chart[1]) \in Int /\ equityOf(chart[n]) \in Int
        /\ closeOf(chart[1]) \in Int /\ closeOf(chart[n]) \in Int
    BY <2>2, <2>3
  <2>5. VsBuyHold(chart, capital)[1] =
          equityOf(chart[n]) * closeOf(chart[1]) - closeOf(chart[n]) * equityOf(chart[1])
    BY <1>2 DEF VsBuyHold
  <2> HIDE DEF equityOf, closeOf
  <2>6. /\ equityOf(chart[n]) * closeOf(chart[1]) \in Int
        /\ closeOf(chart[n]) * equityOf(chart[1]) \in Int
    BY <2>4, ProductIsInt
  <2> QED BY <2>5, <2>6
<1> QED BY <1>1, <1>2

\* The closes and the curve as the report gets them.
LEMMA ChartIsMadeOfPoints ==
  ASSUME Fed, Drawn
  PROVE  /\ closes \in Seq(Nat) /\ curve \in Seq(Nat)
         /\ IsChart(ValidationChart, closes, curve)
         /\ IsThinned(Chart, ValidationChart)
<1>1. closes \in Seq(Nat) /\ curve \in Seq(Nat)
  <2>1. closes \in Seq(Closes) /\ curve \in Seq(Nat) /\ Closes \subseteq Nat
    BY EngineAssumption DEF Fed, Drawn
  <2>2. /\ Len(closes) \in Nat /\ DOMAIN closes = 1..Len(closes)
        /\ \A i \in 1..Len(closes) : closes[i] \in Closes
    BY <2>1
  <2>3. closes = [i \in 1..Len(closes) |-> closes[i]]
    BY <2>1
  <2> QED BY <2>1, <2>2, <2>3
<1>2. IsChart(ValidationChart, closes, curve)
  BY <1>1, ChartPointsAre DEF ValidationChart
<1>3. ValidationChart \in Seq(Point)
  BY <1>2 DEF IsChart
<1>4. Chart = Downsample(ValidationChart)
  BY DEF Chart, ChartSeries, ValidationChart
<1> QED BY <1>1, <1>2, <1>3, <1>4, DownsampleProperties

\* A report that is not failed has earned more than a deposit, and one without a flag
\* has not done worse than holding.
LEMMA GradeProperties ==
  ASSUME NEW m, m.totalPnl \in Int, m.deposit \in Int, m.vsBuyHold[1] \in Int
  PROVE  /\ Grade(m) # "FAIL" => m.totalPnl > m.deposit
         /\ Grade(m) = "PASS" => m.vsBuyHold[1] >= 0
<1>1. Grade(m) # "FAIL" => ~(m.totalPnl <= m.deposit)
  BY DEF Grade
<1>2. Grade(m) = "PASS" => Flags(m) = {}
  BY DEF Grade
<1>3. m.vsBuyHold[1] < 0 => "underperforms_buy_hold" \in Flags(m)
  BY DEF Flags
<1> QED BY <1>1, <1>2, <1>3

\* VerdictFollowsProfit: of a finished run, from the books, the log and the chart.
LEMMA VerdictOfTheBooks ==
  IInv /\ PnlIntegrity /\ Logged /\ Drawn /\ Booked /\ Fed => VerdictFollowsProfit
<1> SUFFICES ASSUME IInv, PnlIntegrity, Logged, Drawn, Booked, Fed, done
             PROVE  /\ Figures.balanced
                    /\ GrossLosses(tradeLog) > 0 =>
                         (LessThan(Figures.profitFactor, <<1, 1>>) <=> equity < InitialCapital)
                    /\ Grade(Figures) # "FAIL" => equity > InitialCapital + Figures.deposit
                    /\ Grade(Figures) = "PASS" => Figures.vsBuyHold[1] >= 0
  BY DEF VerdictFollowsProfit
<1> DEFINE wins == GrossWins(tradeLog)
           losses == GrossLosses(tradeLog)
           pnl == TotalPnl(tradeLog)
<1>1. equity \in Nat /\ InitialCapital \in Nat /\ bar \in 0..MaxCandles /\ MaxCandles \in Nat
  BY EngineAssumption DEF IInv, Types, Drawn
<1>2. wins \in Nat /\ losses \in Nat /\ pnl = wins - losses /\ pnl \in Int
  BY GrossProfits DEF Logged
<1>3. pnl = equity - InitialCapital
  BY DEF Booked, PnlIntegrity
<1>4. /\ Figures.totalPnl = pnl
      /\ Figures.balanced = (pnl = equity - InitialCapital)
      /\ Figures.deposit = DepositBaseline(bar)
      /\ Figures.profitFactor = ProfitFactor(tradeLog)
      /\ Figures.vsBuyHold = VsBuyHold(Chart, InitialCapital)
  BY DEF Figures, MetricsReport
<1>5. DepositBaseline(bar) \in Int
  <2>1. CASE bar < 2
    BY <2>1 DEF DepositBaseline
  <2>2. CASE ~(bar < 2)
    <3>1. bar - 1 \in 0..MaxCandles
      BY <1>1, <2>2
    <3>2. Deposit[bar - 1] \in Nat
      BY <3>1, BacktestAssumption, MetricsAssumption
    <3> QED BY <2>2, <3>2 DEF DepositBaseline
  <2> QED BY <2>1, <2>2
<1>6. VsBuyHold(Chart, InitialCapital)[1] \in Int
  <2>1. Chart \in Seq(Point)
    BY ChartIsMadeOfPoints DEF IsThinned
  <2> QED BY <1>1, <2>1, VsBuyHoldIsInt
<1> HIDE DEF wins, losses, pnl
<1>7. losses > 0 => (LessThan(ProfitFactor(tradeLog), <<1, 1>>) <=> equity < InitialCapital)
  <2> SUFFICES ASSUME losses > 0
               PROVE  LessThan(ProfitFactor(tradeLog), <<1, 1>>) <=> equity < InitialCapital
    OBVIOUS
  <2>1. ProfitFactor(tradeLog) = <<wins, losses>>
    BY <1>2 DEF ProfitFactor, wins, losses
  <2>2. LessThan(<<wins, losses>>, <<1, 1>>) <=> wins * 1 < 1 * losses
    BY DEF LessThan
  <2> QED BY <1>1, <1>2, <1>3, <2>1, <2>2
<1>8. /\ Grade(Figures) # "FAIL" => Figures.totalPnl > Figures.deposit
      /\ Grade(Figures) = "PASS" => Figures.vsBuyHold[1] >= 0
  <2>1. Figures.totalPnl \in Int /\ Figures.deposit \in Int /\ Figures.vsBuyHold[1] \in Int
    BY <1>2, <1>4, <1>5, <1>6
  <2> QED BY <2>1, GradeProperties
<1>9. Figures.balanced
  BY <1>3, <1>4, Zenon
<1>10. Grade(Figures) # "FAIL" => equity > InitialCapital + Figures.deposit
  BY <1>1, <1>3, <1>4, <1>5, <1>8
<1> QED BY <1>4, <1>7, <1>8, <1>9, <1>10 DEF losses

\* VerdictFollowsProfit: a strategy that had losses has a profit factor of at least 1
\* exactly if it did not lose money, and only one that earned more than a deposit is
\* not graded FAIL (build_strategy_verdict).
THEOREM VerdictsFollowProfits == BacktestSpec => []VerdictFollowsProfit
<1>1. Init => Logged /\ Drawn
  BY InitReport
<1>2. IInv /\ Logged /\ Drawn /\ [Next]_vars => Logged' /\ Drawn'
  BY NextReport
<1>3. Spec => [](Logged /\ Drawn)
  BY <1>1, <1>2, Accounting, PTL DEF Spec
<1>4. RunInv => Fed
  BY DEF RunInv
<1> QED
  BY <1>3, <1>4, VerdictOfTheBooks, RunsOfEngine, Accounting, Integrity, ProfitsAreBooked,
     RunIsFollowed, PTL

-----------------------------------------------------------------------------
(***************************************************************************)
(* The maximum drawdown.  It is computed in one pass, against the running  *)
(* peak; that no other pair of points shows a larger fall is what the      *)
(* transitivity of the order of ratios gives.                              *)
(***************************************************************************)
Ratios == Nat \X (Nat \ {0})

LEMMA RatioIsTransitive ==
  ASSUME NEW a \in Ratios, NEW b \in Ratios, NEW c \in Ratios,
         ~LessThan(a, b), ~LessThan(b, c)
  PROVE  ~LessThan(a, c)
<1>1. PICK a1 \in Nat, a2 \in Nat \ {0} : a[1] = a1 /\ a[2] = a2
  BY DEF Ratios
<1>2. PICK b1 \in Nat, b2 \in Nat \ {0} : b[1] = b1 /\ b[2] = b2
  BY DEF Ratios
<1>3. PICK c1 \in Nat, c2 \in Nat \ {0} : c[1] = c1 /\ c[2] = c2
  BY DEF Ratios
<1>4. b1 * a2 <= a1 * b2 /\ c1 * b2 <= b1 * c2
  <2>1. ~(a1 * b2 < b1 * a2) /\ ~(b1 * c2 < c1 * b2)
    BY <1>1, <1>2, <1>3 DEF LessThan
  <2>2. a1 * b2 \in Nat /\ b1 * a2 \in Nat /\ b1 * c2 \in Nat /\ c1 * b2 \in Nat
    BY ProductIsNat
  <2> QED BY <2>1, <2>2
<1>5. (b1 * a2) * c2 <= (a1 * b2) * c2
  <2>1. c2 * (b1 * a2) <= c2 * (a1 * b2)
    BY <1>4, ProductIsMonotonic, ProductIsNat
  <2> QED BY <2>1
<1>6. (c1 * b2) * a2 <= (b1 * c2) * a2
  <2>1. a2 * (c1 * b2) <= a2 * (b1 * c2)
    BY <1>4, ProductIsMonotonic, ProductIsNat
  <2> QED BY <2>1
<1>7. (c1 * a2) * b2 <= (a1 * c2) * b2
  <2>1. /\ (b1 * a2) * c2 = (b1 * c2) * a2 /\ (c1 * a2) * b2 = (c1 * b2) * a2
        /\ (a1 * c2) * b2 = (a1 * b2) * c2
    OBVIOUS
  <2> DEFINE x == (c1 * a2) * b2
             y == (b1 * c2) * a2
             z == (a1 * c2) * b2
  <2>2. x \in Nat /\ y \in Nat /\ z \in Nat
    OBVIOUS
  <2>3. x <= y /\ y <= z
    BY <1>5, <1>6, <2>1
  <2> HIDE DEF x, y, z
  <2>4. x <= z
    BY <2>2, <2>3
  <2> QED BY <2>4 DEF x, z
<1>8. ~(a1 * c2 < c1 * a2)
  <2> DEFINE x == a1 * c2
             y == c1 * a2
  <2>1. x \in Nat /\ y \in Nat /\ y * b2 <= x * b2
    BY <1>7
  <2> HIDE DEF x, y
  <2>2. ASSUME x < y PROVE FALSE
    <3>1. x + 1 <= y /\ x + 1 \in Nat
      BY <2>1, <2>2
    <3>2. b2 * (x + 1) <= b2 * y
      BY <2>1, <3>1, ProductIsMonotonic
    <3>3. b2 * (x + 1) = b2 * x + b2 /\ b2 * x \in Nat /\ b2 * y = y * b2 /\ b2 * x = x * b2
      BY <2>1
    <3> QED BY <2>1, <3>2, <3>3
  <2> QED BY <2>2 DEF x, y
<1> QED BY <1>1, <1>3, <1>8 DEF LessThan

\* A higher peak makes the same low a larger fall.
LEMMA HigherPeakFallsMore ==
  ASSUME NEW high \in Nat, NEW peak \in Nat, NEW low \in Nat, low < high, high <= peak
  PROVE  /\ <<peak - low, peak>> \in Ratios /\ <<high - low, high>> \in Ratios
         /\ ~LessThan(<<peak - low, peak>>, <<high - low, high>>)
<1>1. <<peak - low, peak>> \in Ratios /\ <<high - low, high>> \in Ratios
  BY DEF Ratios
<1>2. (peak - low) * high = peak * high - low * high
  OBVIOUS
<1>3. (high - low) * peak = high * peak - low * peak
  OBVIOUS
<1>4. low * high <= low * peak
  BY ProductIsMonotonic
<1>5. peak * high \in Nat /\ low * high \in Nat /\ low * peak \in Nat /\ peak * high = high * peak
  BY ProductIsNat
<1>6. ~((peak - low) * high < (high - low) * peak)
  BY <1>2, <1>3, <1>4, <1>5
<1> QED BY <1>1, <1>6 DEF LessThan

\* One point of the curve.
Fallen(acc, value) ==
  LET peak == IF value > acc.peak THEN value ELSE acc.peak
      fall == <<peak - value, peak>>
  IN  [peak |-> peak,
       worst |-> IF peak > 0 /\ LessThan(acc.worst, fall) THEN fall ELSE acc.worst]

Falls == [peak : Nat, worst : Ratios]

LEMMA FallenIsOne ==
  ASSUME NEW acc \in Falls, NEW value \in Nat
  PROVE  Fallen(acc, value) \in Falls
<1> DEFINE peak == IF value > acc.peak THEN value ELSE acc.peak
           fall == <<peak - value, peak>>
           worst == IF peak > 0 /\ LessThan(acc.worst, fall) THEN fall ELSE acc.worst
<1>1. acc.peak \in Nat /\ acc.worst \in Ratios
  BY DEF Falls
<1>2. peak \in Nat /\ peak >= value
  BY <1>1
<1>3. peak > 0 => fall \in Ratios
  BY <1>2 DEF Ratios
<1>4. worst \in Ratios
  BY <1>1, <1>3
<1>5. Fallen(acc, value) = [peak |-> peak, worst |-> worst]
  BY DEF Fallen
<1> HIDE DEF peak, worst
<1> QED BY <1>2, <1>4, <1>5 DEF Falls

IsDescent(f, values) ==
  /\ f \in [0..Len(values) -> Falls]
  /\ f[0] = [peak |-> values[1], worst |-> <<0, 1>>]
  /\ \A k \in 1..Len(values) : f[k] = Fallen(f[k - 1], values[k])
  /\ MaxDrawdown(values) = f[Len(values)].worst

LEMMA DrawdownUnroll ==
  ASSUME NEW values \in Seq(Nat), Len(values) >= 2
  PROVE  \E f : IsDescent(f, values)
<1> DEFINE n == Len(values)
           base == [peak |-> values[1], worst |-> <<0, 1>>]
           D == Falls
           g == [k \in 1..n |-> [o \in D |-> Fallen(o, values[k])]]
           R(it) == it = [S \in SUBSET (1..n) |->
                            IF S = {} THEN base
                            ELSE Fallen(it[S \ {Max(S)}], values[Max(S)])]
           t == CHOOSE it : R(it)
           f == [k \in 0..n |-> t[1..k]]
<1>1. n \in Nat /\ DOMAIN values = 1..n /\ base \in D /\ \A k \in 1..n : values[k] \in Nat
  <2>1. n \in Nat /\ DOMAIN values = 1..n /\ \A k \in 1..n : values[k] \in Nat
    OBVIOUS
  <2>2. values[1] \in Nat /\ <<0, 1>> \in Ratios
    BY DEF Ratios
  <2> QED BY <2>1, <2>2 DEF Falls
<1>2. \A o \in D : \A k \in 1..n : Fallen(o, values[k]) \in D
  BY <1>1, FallenIsOne
<1>3. MaxDrawdown(values) = t[1..n].worst
  <2> HIDE DEF base
  <2>1. ~(Len(values) < 2)
    BY <1>1
  <2> QED BY <1>1, <2>1 DEF MaxDrawdown, FoldLeft, MapThenFoldSet, Fallen, base
<1> HIDE DEF n, base, D
<1>4. g \in [1..n -> [D -> D]]
  BY <1>2
<1>5. \A o \in D : \A k \in 1..n : g[k][o] = Fallen(o, values[k])
  OBVIOUS
<1> HIDE DEF g, t
<1>6. \E it : R(it) /\ it \in [SUBSET (1..n) -> D]
  <2>1. PICK it : IsFold(it, n, D, base, g)
    BY <1>1, <1>4, FoldExists
  <2>2. /\ it \in [SUBSET (1..n) -> D]
        /\ \A S \in SUBSET (1..n) :
             it[S] = IF S = {} THEN base ELSE g[Max(S)][it[S \ {Max(S)}]]
    BY <2>1 DEF IsFold
  <2>3. ASSUME NEW S \in SUBSET (1..n), S # {}
        PROVE  it[S] = Fallen(it[S \ {Max(S)}], values[Max(S)])
    <3>1. Max(S) \in 1..n
      BY <1>1, <2>3, FoldPlaces
    <3>2. it[S \ {Max(S)}] \in D
      BY <2>2
    <3> QED BY <1>5, <2>2, <2>3, <3>1, <3>2
  <2>4. it = [S \in SUBSET (1..n) |->
                IF S = {} THEN base ELSE Fallen(it[S \ {Max(S)}], values[Max(S)])]
    BY <2>2, <2>3
  <2> QED BY <2>2, <2>4
<1>7. R(t)
  BY <1>6 DEF t
<1>8. f[0] = base
  <2>1. 1..0 = {}
    OBVIOUS
  <2>2. t[{}] = base
    BY <1>7
  <2> QED BY <1>1, <2>1, <2>2
<1>9. ASSUME NEW k \in 1..n PROVE f[k] = Fallen(f[k - 1], values[k])
  <2>1. Max(1..k) = k /\ (1..k) \ {k} = 1..(k - 1) /\ 1..k # {}
    <3>1. k \in Nat \ {0}
      BY <1>1
    <3> HIDE DEF f, R
    <3> QED BY <3>1, PrefixMax
  <2>2. 1..k \in SUBSET (1..n)
    BY <1>1
  <2>3. t[1..k] = Fallen(t[(1..k) \ {Max(1..k)}], values[Max(1..k)])
    BY <1>7, <2>1, <2>2
  <2>4. f[k] = t[1..k] /\ f[k - 1] = t[1..(k - 1)]
    BY <1>1
  <2> HIDE DEF f, R
  <2> QED BY <2>1, <2>3, <2>4
<1>10. f[n] = t[1..n] /\ DOMAIN f = 0..n /\ f = [k \in 0..n |-> f[k]]
  BY <1>1
<1> HIDE DEF f, R
<1>11. \A k \in 0..n : f[k] \in D
  <2> DEFINE G == {k \in 0..n : f[k] \in D}
  <2>1. 0 \in G
    BY <1>1, <1>8
  <2>2. ASSUME NEW k \in 1..n, k - 1 \in G PROVE k \in G
    BY <1>1, <1>2, <1>9, <2>2
  <2> HIDE DEF G
  <2>3. \A k \in 0..n : k \in G
    BY <1>1, <2>1, <2>2, PrefixInduction
  <2> QED BY <2>3 DEF G
<1>12. f \in [0..n -> D]
  BY <1>10, <1>11
<1>13. IsDescent(f, values)
  BY <1>3, <1>8, <1>9, <1>10, <1>12 DEF IsDescent, n, base, D
<1> QED BY <1>13

\* The largest fall among the first k points, and what it is the fall from.
FallsUpTo(values, k) ==
  {p \in (1..k) \X (1..k) : p[1] < p[2] /\ values[p[1]] > values[p[2]]}
FallOf(values, p) == <<values[p[1]] - values[p[2]], values[p[1]]>>
IsWorst(acc, values, k) ==
  /\ \A i \in 1..k : values[i] <= acc.peak
  /\ \E i \in 1..Len(values) : i <= Larger(k, 1) /\ values[i] = acc.peak
  /\ \A p \in FallsUpTo(values, k) : ~LessThan(acc.worst, FallOf(values, p))
  /\ \/ acc.worst = <<0, 1>>
     \/ \E p \in FallsUpTo(values, k) : acc.worst = FallOf(values, p)

LEMMA FallenIsWorst ==
  ASSUME NEW values \in Seq(Nat), NEW acc \in Falls, NEW k \in 1..Len(values),
         IsWorst(acc, values, k - 1)
  PROVE  IsWorst(Fallen(acc, values[k]), values, k)
<1> DEFINE e == values[k]
           peak == IF e > acc.peak THEN e ELSE acc.peak
           fall == <<peak - e, peak>>
           worst == IF peak > 0 /\ LessThan(acc.worst, fall) THEN fall ELSE acc.worst
           n == Len(values)
<1>1. /\ acc.peak \in Nat /\ acc.worst \in Ratios /\ e \in Nat /\ k \in Nat \ {0}
      /\ n \in Nat /\ k <= n /\ \A i \in 1..n : values[i] \in Nat
  BY DEF Falls
<1>2. peak \in Nat /\ peak >= e /\ peak >= acc.peak
  BY <1>1
<1>3. /\ \A i \in 1..(k - 1) : values[i] <= acc.peak
      /\ \E i \in 1..n : i <= Larger(k - 1, 1) /\ values[i] = acc.peak
      /\ \A p \in FallsUpTo(values, k - 1) : ~LessThan(acc.worst, FallOf(values, p))
      /\ \/ acc.worst = <<0, 1>>
         \/ \E p \in FallsUpTo(values, k - 1) : acc.worst = FallOf(values, p)
  BY DEF IsWorst
<1>4. Fallen(acc, e).peak = peak /\ Fallen(acc, e).worst = worst
  BY DEF Fallen
<1>5. FallsUpTo(values, k - 1) \subseteq FallsUpTo(values, k)
  BY <1>1 DEF FallsUpTo
<1>6. peak > 0 => fall \in Ratios
  BY <1>1, <1>2 DEF Ratios
<1>7. \A i \in 1..k : values[i] <= peak
  <2> SUFFICES ASSUME NEW i \in 1..k PROVE values[i] <= peak
    OBVIOUS
  <2>1. CASE i = k
    BY <1>2, <2>1
  <2>2. CASE i # k
    <3>1. values[i] <= acc.peak /\ values[i] \in Nat
      BY <1>1, <1>3, <2>2
    <3> HIDE DEF peak
    <3> QED BY <1>1, <1>2, <3>1
  <2> QED BY <2>1, <2>2
<1>8. \E i \in 1..n : i <= Larger(k, 1) /\ values[i] = peak
  <2>1. CASE peak = e
    BY <1>1, <2>1 DEF Larger
  <2>2. CASE peak # e
    <3>1. peak = acc.peak
      BY <2>2
    <3>2. PICK i \in 1..n : i <= Larger(k - 1, 1) /\ values[i] = acc.peak
      BY <1>3
    <3>3. i <= Larger(k, 1)
      BY <1>1, <3>2 DEF Larger
    <3> QED BY <3>1, <3>2, <3>3
  <2> QED BY <2>1, <2>2
<1> HIDE DEF peak, e
<1>9. worst \in Ratios /\ ~LessThan(worst, acc.worst) /\ (peak > 0 => ~LessThan(worst, fall))
  <2>1. \A r \in Ratios : ~LessThan(r, r)
    <3> SUFFICES ASSUME NEW r \in Ratios PROVE ~LessThan(r, r)
      OBVIOUS
    <3>1. r[1] * r[2] \in Nat
      BY ProductIsNat DEF Ratios
    <3> QED BY <3>1 DEF LessThan
  <2>2. CASE peak > 0 /\ LessThan(acc.worst, fall)
    <3>1. worst = fall
      BY <2>2
    <3>2. ~LessThan(fall, acc.worst)
      <4>1. fall \in Ratios
        BY <1>6, <2>2
      <4>2. acc.worst[1] * fall[2] \in Nat /\ fall[1] * acc.worst[2] \in Nat
        BY <1>1, <4>1, ProductIsNat DEF Ratios
      <4> HIDE DEF fall
      <4> QED BY <2>2, <4>2 DEF LessThan
    <3> QED BY <1>6, <2>1, <2>2, <3>1, <3>2
  <2>3. CASE ~(peak > 0 /\ LessThan(acc.worst, fall))
    <3>1. worst = acc.worst
      BY <2>3
    <3> QED BY <1>1, <2>1, <2>3, <3>1
  <2> QED BY <2>2, <2>3
<1>10. ASSUME NEW p \in FallsUpTo(values, k) PROVE ~LessThan(worst, FallOf(values, p))
  <2>1. /\ p[1] \in 1..k /\ p[2] \in 1..k /\ p[1] < p[2] /\ values[p[1]] > values[p[2]]
        /\ p = <<p[1], p[2]>>
    BY DEF FallsUpTo
  <2>2. values[p[1]] \in Nat /\ values[p[2]] \in Nat
    BY <1>1, <2>1
  <2>3. FallOf(values, p) \in Ratios
    BY <2>1, <2>2 DEF FallOf, Ratios
  <2>4. CASE p[2] = k
    <3> DEFINE high == values[p[1]]
    <3>1. high \in Nat /\ e < high /\ high <= peak
      BY <1>7, <2>1, <2>2, <2>4 DEF e
    <3>2. FallOf(values, p) = <<high - e, high>>
      BY <2>4 DEF FallOf, e
    <3> HIDE DEF high
    <3>3. ~LessThan(fall, FallOf(values, p))
      BY <1>1, <1>2, <3>1, <3>2, HigherPeakFallsMore
    <3>4. peak > 0
      BY <1>1, <1>2, <3>1
    <3> HIDE DEF fall, worst
    <3> QED BY <1>6, <1>9, <2>3, <3>3, <3>4, RatioIsTransitive
  <2>5. CASE p[2] # k
    <3>1. p \in FallsUpTo(values, k - 1)
      BY <1>1, <2>1, <2>5 DEF FallsUpTo
    <3> HIDE DEF worst
    <3> QED BY <1>1, <1>3, <1>9, <2>3, <3>1, RatioIsTransitive
  <2> QED BY <2>4, <2>5
<1>11. worst = <<0, 1>> \/ \E p \in FallsUpTo(values, k) : worst = FallOf(values, p)
  <2>1. CASE worst = acc.worst
    BY <1>3, <1>5, <2>1
  <2>2. CASE worst # acc.worst
    <3>1. worst = fall /\ peak > 0 /\ LessThan(acc.worst, fall)
      BY <2>2
    <3>2. peak - e > 0
      <4>1. acc.worst[1] * peak < (peak - e) * acc.worst[2]
        BY <3>1 DEF LessThan
      <4>2. acc.worst[1] * peak \in Nat
        BY <1>1, <1>2, ProductIsNat DEF Ratios
      <4>3. peak - e = 0 => (peak - e) * acc.worst[2] = 0
        BY <1>1 DEF Ratios
      <4> QED BY <1>1, <1>2, <4>1, <4>2, <4>3
    <3>3. PICK i \in 1..n : i <= Larger(k, 1) /\ values[i] = peak
      BY <1>8
    <3>4. i # k
      BY <1>1, <1>2, <3>2, <3>3 DEF e
    <3>5. i < k
      BY <1>1, <3>3, <3>4 DEF Larger
    <3> DEFINE p == <<i, k>>
    <3>6. p \in FallsUpTo(values, k) /\ FallOf(values, p) = fall
      <4>1. i \in 1..k /\ k \in 1..k /\ values[i] = peak /\ values[k] = e /\ p[1] = i /\ p[2] = k
        BY <1>1, <3>3, <3>5 DEF e
      <4>2. peak > e
        BY <1>1, <1>2, <3>2
      <4> QED BY <3>5, <4>1, <4>2 DEF FallsUpTo, FallOf
    <3> QED BY <3>1, <3>6
  <2> QED BY <2>1, <2>2
<1> HIDE DEF worst
<1> QED BY <1>4, <1>7, <1>8, <1>10, <1>11 DEF IsWorst, e

\* DrawdownIsWorstFall, of any curve.
LEMMA DrawdownIsWorst ==
  ASSUME NEW values \in Seq(Nat)
  PROVE  LET falls == FallsUpTo(values, Len(values))
         IN  /\ \A p \in falls : ~LessThan(MaxDrawdown(values), FallOf(values, p))
             /\ \/ MaxDrawdown(values) = <<0, 1>>
                \/ \E p \in falls : MaxDrawdown(values) = FallOf(values, p)
<1> DEFINE n == Len(values)
<1>1. n \in Nat
  OBVIOUS
<1>2. CASE n < 2
  <2>1. MaxDrawdown(values) = <<0, 1>>
    BY <1>2 DEF MaxDrawdown
  <2>2. FallsUpTo(values, n) = {}
    BY <1>1, <1>2 DEF FallsUpTo
  <2> QED BY <2>1, <2>2
<1>3. CASE ~(n < 2)
  <2>1. PICK f : IsDescent(f, values)
    BY <1>1, <1>3, DrawdownUnroll
  <2>2. /\ f \in [0..n -> Falls]
        /\ f[0] = [peak |-> values[1], worst |-> <<0, 1>>]
        /\ \A k \in 1..n : f[k] = Fallen(f[k - 1], values[k])
        /\ MaxDrawdown(values) = f[n].worst
    BY <2>1 DEF IsDescent
  <2> HIDE DEF n
  <2> DEFINE G == {k \in 0..n : IsWorst(f[k], values, k)}
  <2>3. 0 \in G
    <3>1. 1 \in 1..n /\ 1 <= Larger(0, 1)
      BY <1>1, <1>3 DEF Larger
    <3>2. f[0].peak = values[1] /\ f[0].worst = <<0, 1>>
      BY <2>2
    <3>3. 1..0 = {}
      OBVIOUS
    <3>4. FallsUpTo(values, 0) = {}
      BY <3>3 DEF FallsUpTo
    <3>5. IsWorst(f[0], values, 0)
      BY <3>1, <3>2, <3>3, <3>4 DEF IsWorst, n
    <3> QED BY <1>1, <3>5
  <2>4. ASSUME NEW k \in 1..n, k - 1 \in G PROVE k \in G
    <3>1. f[k - 1] \in Falls /\ IsWorst(f[k - 1], values, k - 1) /\ k \in 1..Len(values)
      BY <1>1, <2>2, <2>4 DEF n
    <3>2. IsWorst(Fallen(f[k - 1], values[k]), values, k)
      BY <3>1, FallenIsWorst
    <3> QED BY <1>1, <2>2, <3>2
  <2> HIDE DEF G
  <2>5. \A k \in 0..n : k \in G
    BY <1>1, <2>3, <2>4, PrefixInduction
  <2>6. IsWorst(f[n], values, n)
    BY <1>1, <2>5 DEF G
  <2> QED BY <2>2, <2>6 DEF IsWorst, n
<1> QED BY <1>2, <1>3

\* DrawdownIsWorstFall: the maximum drawdown of a report is the largest fall between
\* any two points of the equity curve (calculate_max_drawdown).
THEOREM DrawdownsAreWorstFalls == BacktestSpec => []DrawdownIsWorstFall
<1>1. Drawn => DrawdownIsWorstFall
  <2> SUFFICES ASSUME Drawn PROVE DrawdownIsWorstFall
    OBVIOUS
  <2> DEFINE drawdown == MaxDrawdown(curve)
             falls == {p \in (1..Len(curve)) \X (1..Len(curve)) :
                         p[1] < p[2] /\ curve[p[1]] > curve[p[2]]}
  <2>1. curve \in Seq(Nat)
    BY DEF Drawn
  <2>2. falls = FallsUpTo(curve, Len(curve))
    BY DEF FallsUpTo
  <2>3. /\ \A p \in falls : ~LessThan(drawdown, FallOf(curve, p))
        /\ drawdown = <<0, 1>> \/ \E p \in falls : drawdown = FallOf(curve, p)
    BY <2>1, <2>2, DrawdownIsWorst
  <2>4. ASSUME NEW p \in falls
        PROVE  FallOf(curve, p) \in Ratios /\ FallOf(curve, p)[1] > 0
    <3>1. p[1] \in 1..Len(curve) /\ p[2] \in 1..Len(curve) /\ curve[p[1]] > curve[p[2]]
      OBVIOUS
    <3>2. curve[p[1]] \in Nat /\ curve[p[2]] \in Nat
      BY <2>1, <3>1
    <3> QED BY <3>1, <3>2 DEF FallOf, Ratios
  <2>5. ValidationReport.maxDrawdown = drawdown
    BY DEF ValidationReport, MetricsReport
  <2> HIDE DEF drawdown, falls
  <2>6. ASSUME falls # {} PROVE \E p \in falls : ~LessThan(FallOf(curve, p), drawdown)
    <3>1. PICK q \in falls : TRUE
      BY <2>6
    <3>2. drawdown # <<0, 1>>
      <4> SUFFICES ASSUME drawdown = <<0, 1>> PROVE FALSE
        OBVIOUS
      <4>1. ~LessThan(<<0, 1>>, FallOf(curve, q))
        BY <2>3
      <4>2. FallOf(curve, q)[1] \in Nat /\ FallOf(curve, q)[2] \in Nat
        BY <2>4 DEF Ratios
      <4>3. ~(0 * FallOf(curve, q)[2] < FallOf(curve, q)[1] * 1)
        BY <4>1 DEF LessThan
      <4> QED BY <2>4, <4>2, <4>3
    <3>3. PICK p \in falls : drawdown = FallOf(curve, p)
      BY <2>3, <3>2
    <3>4. ~LessThan(drawdown, drawdown)
      <4>1. drawdown[1] * drawdown[2] \in Nat
        BY <2>4, <3>3, ProductIsNat DEF Ratios
      <4> QED BY <4>1 DEF LessThan
    <3> QED BY <3>3, <3>4
  <2>7. falls = {} => drawdown[1] = 0
    BY <2>3
  <2> QED BY <2>3, <2>5, <2>6, <2>7 DEF DrawdownIsWorstFall, FallOf, drawdown, falls
<1>2. Init => Logged /\ Drawn
  BY InitReport
<1>3. IInv /\ Logged /\ Drawn /\ [Next]_vars => Logged' /\ Drawn'
  BY NextReport
<1>4. Spec => []Drawn
  BY <1>2, <1>3, Accounting, PTL DEF Spec
<1> QED BY <1>1, <1>4, RunsOfEngine, PTL

-----------------------------------------------------------------------------
(***************************************************************************)
(* The slices of the consistency figure.                                   *)
(***************************************************************************)
\* A quotient, by its remainder.
LEMMA QuotientBounds ==
  ASSUME NEW x \in Nat, NEW d \in Nat \ {0}
  PROVE  /\ x \div d \in Nat
         /\ (x \div d) * d <= x /\ x < (x \div d) * d + d
  OBVIOUS

LEMMA FactorIsLess ==
  ASSUME NEW a \in Int, NEW b \in Int, NEW d \in Nat \ {0}, a * d < b * d
  PROVE  a < b
<1> SUFFICES ASSUME ~(a < b) PROVE FALSE
  OBVIOUS
<1>1. a - b \in Nat /\ (a - b) * d = a * d - b * d
  OBVIOUS
<1>2. (a - b) * d \in Nat /\ a * d \in Int /\ b * d \in Int
  BY <1>1, ProductIsNat, ProductIsInt
<1> QED BY <1>1, <1>2

LEMMA QuotientOfSum ==
  ASSUME NEW x \in Nat, NEW y \in Nat, NEW d \in Nat \ {0}
  PROVE  (x + y) \div d \in {x \div d + y \div d, x \div d + y \div d + 1}
<1> DEFINE a == x \div d
           b == y \div d
           c == (x + y) \div d
<1>1. /\ a \in Nat /\ a * d <= x /\ x < a * d + d
      /\ b \in Nat /\ b * d <= y /\ y < b * d + d
      /\ c \in Nat /\ c * d <= x + y /\ x + y < c * d + d
  BY QuotientBounds
<1> HIDE DEF a, b, c
<1>2. a * d \in Nat /\ b * d \in Nat /\ c * d \in Nat
  BY <1>1, ProductIsNat
<1>3. (a + b + 2) * d = a * d + b * d + 2 * d /\ (c + 1) * d = c * d + d
      /\ (a + b) * d = a * d + b * d
  BY <1>1
<1>4. c * d < (a + b + 2) * d /\ (a + b) * d < (c + 1) * d
  BY <1>1, <1>2, <1>3
<1>5. c < a + b + 2 /\ a + b < c + 1
  BY <1>1, <1>4, FactorIsLess
<1> QED BY <1>1, <1>5 DEF a, b, c

\* What SegmentEnds returns: slices of two lengths that differ by one, to the end.
IsSplit(ends, n, periods) ==
  LET m == Len(ends)
  IN  /\ ends \in Seq(Nat)
      /\ m = IF n <= periods THEN n ELSE periods
      /\ ends[m] = n
      /\ \E q \in Nat :
           /\ ends[1] \in {q, q + 1} /\ ends[1] > 0
           /\ \A k \in 2..m : ends[k] - ends[k - 1] \in {q, q + 1} /\ ends[k] - ends[k - 1] > 0

LEMMA SegmentEndsProperties ==
  ASSUME NEW n \in Nat \ {0}, NEW periods \in Nat \ {0}
  PROVE  IsSplit(SegmentEnds(n, periods), n, periods)
<1> DEFINE cut == [i \in 0..periods |-> (i * n) \div periods]
           q == n \div periods
           full == {i \in 1..periods : cut[i - 1] < cut[i]}
           S == {cut[i] : i \in full}
           ends == SegmentEnds(n, periods)
<1>1. q \in Nat /\ q * periods <= n /\ n < q * periods + periods
  BY QuotientBounds
<1>2. /\ cut \in [0..periods -> Nat] /\ cut[0] = 0 /\ cut[periods] = n
      /\ \A i \in 1..periods : cut[i] \in {cut[i - 1] + q, cut[i - 1] + q + 1}
  <2>1. \A i \in 0..periods : i * n \in Nat /\ (i * n) \div periods \in Nat
    BY ProductIsNat, QuotientBounds
  <2>2. cut \in [0..periods -> Nat]
    BY <2>1
  <2>3. cut[0] = 0
    <3>1. 0 * n = 0 /\ 0 \div periods = 0
      OBVIOUS
    <3> QED BY <3>1
  <2>4. cut[periods] = n
    <3> DEFINE c == (periods * n) \div periods
    <3>1. periods * n \in Nat /\ periods * n = n * periods
      BY ProductIsNat
    <3>2. c \in Nat /\ c * periods <= n * periods /\ n * periods < c * periods + periods
      BY <3>1, QuotientBounds
    <3> HIDE DEF c
    <3>3. (c + 1) * periods = c * periods + periods /\ (n + 1) * periods = n * periods + periods
      BY <3>2
    <3>4. c * periods < (n + 1) * periods /\ n * periods < (c + 1) * periods
      BY <3>2, <3>3, ProductIsNat
    <3>5. c < n + 1 /\ n < c + 1
      BY <3>2, <3>4, FactorIsLess
    <3>6. c = n
      BY <3>2, <3>5
    <3> QED BY <3>6 DEF c
  <2>5. ASSUME NEW i \in 1..periods
        PROVE  cut[i] \in {cut[i - 1] + q, cut[i - 1] + q + 1}
    <3> DEFINE x == (i - 1) * n
    <3>1. x \in Nat /\ i * n = x + n /\ i - 1 \in 0..periods /\ i \in 0..periods
      BY ProductIsNat
    <3>2. (x + n) \div periods \in {x \div periods + q, x \div periods + q + 1}
      BY <3>1, QuotientOfSum
    <3>3. cut[i] = (x + n) \div periods /\ cut[i - 1] = x \div periods
      BY <3>1
    <3> HIDE DEF x, cut, q
    <3> QED BY <3>2, <3>3
  <2> QED BY <2>2, <2>3, <2>4, <2>5
<1>3. ends = Ascending(S)
  <2>1. \A i \in 1..periods : i - 1 \in 0..periods /\ i \in 0..periods
    OBVIOUS
  <2>2. full = {i \in 1..periods : ((i - 1) * n) \div periods < (i * n) \div periods}
    BY <2>1
  <2>3. S = {(i * n) \div periods : i \in full}
    BY <2>1
  <2> HIDE DEF full, S
  <2> QED BY <2>2, <2>3 DEF SegmentEnds
<1> HIDE DEF cut, q, ends
<1>3a. \A i \in 1..periods : /\ cut[i - 1] \in Nat /\ cut[i] \in Nat
                             /\ cut[i] = cut[i - 1] + q \/ cut[i] = cut[i - 1] + q + 1
  <2> SUFFICES ASSUME NEW i \in 1..periods
               PROVE  /\ cut[i - 1] \in Nat /\ cut[i] \in Nat
                      /\ cut[i] = cut[i - 1] + q \/ cut[i] = cut[i - 1] + q + 1
    OBVIOUS
  <2>1. i - 1 \in 0..periods /\ i \in 0..periods
    OBVIOUS
  <2>2. cut[i - 1] \in Nat /\ cut[i] \in Nat
    BY <1>2, <2>1
  <2>3. cut[i] = cut[i - 1] + q \/ cut[i] = cut[i - 1] + q + 1
    BY <1>2
  <2> QED BY <2>2, <2>3
<1>4. CASE n >= periods
  <2>1. q > 0
    <3>1. q = 0 => q * periods = 0
      BY <1>1
    <3> QED BY <1>1, <1>4, <3>1
  <2>2. \A i \in 1..periods : cut[i - 1] \in Nat /\ cut[i] \in Nat /\ cut[i - 1] < cut[i]
    BY <1>1, <1>3a, <2>1
  <2>3. full = 1..periods
    BY <2>2
  <2> DEFINE e == [i \in 1..periods |-> cut[i]]
  <2>4. S \in SUBSET Int /\ e \in [1..periods -> S] /\ \A x \in S : \E k \in 1..periods : e[k] = x
    BY <2>2, <2>3
  <2>5. \A i, j \in 1..periods : i < j => e[i] < e[j]
    <3> DEFINE G == {j \in 0..periods : \A i \in 0..periods : i < j => cut[i] < cut[j]}
    <3>1. 0 \in G
      OBVIOUS
    <3>2. ASSUME NEW j \in 1..periods, j - 1 \in G PROVE j \in G
      <4> SUFFICES ASSUME NEW i \in 0..periods, i < j PROVE cut[i] < cut[j]
        OBVIOUS
      <4>1. cut[j - 1] < cut[j] /\ cut[j - 1] \in Nat /\ cut[j] \in Nat /\ cut[i] \in Nat
        BY <1>2, <2>2
      <4>2. i = j - 1 \/ cut[i] < cut[j - 1]
        BY <3>2
      <4> QED BY <4>1, <4>2
    <3> HIDE DEF G
    <3>3. \A j \in 0..periods : j \in G
      BY <3>1, <3>2, PrefixInduction
    <3>4. \A i, j \in 1..periods : i < j => cut[i] < cut[j]
      BY <3>3 DEF G
    <3> QED BY <3>4
  <2> HIDE DEF S, e
  <2>6. /\ ends \in [1..periods -> S] /\ Len(ends) = periods
        /\ \A k \in 1..periods : ends[k] = e[k]
    BY <1>3, <2>4, <2>5, AscendingIs
  <2>7. \A k \in 1..periods : ends[k] = cut[k]
    BY <2>6 DEF e
  <2>8. ends \in Seq(Nat)
    <3>1. S \subseteq Nat
      BY <2>2, <2>3 DEF S
    <3>2. ends \in [1..periods -> Nat]
      BY <2>6, <3>1
    <3> QED BY <3>2
  <2>9. ends[1] = cut[1] /\ (cut[1] = q \/ cut[1] = q + 1) /\ cut[1] > 0
    <3>1. 1 \in 1..periods /\ 1 - 1 = 0
      OBVIOUS
    <3>2. /\ cut[0] \in Nat /\ cut[1] \in Nat /\ cut[0] < cut[1]
          /\ cut[1] = cut[0] + q \/ cut[1] = cut[0] + q + 1
      BY <1>3a, <2>2, <3>1
    <3>3. ends[1] = cut[1]
      BY <2>7, <3>1
    <3> QED BY <1>1, <1>2, <3>2, <3>3
  <2>10. \A k \in 2..periods : /\ ends[k] - ends[k - 1] \in {q, q + 1}
                              /\ ends[k] - ends[k - 1] > 0
    <3> SUFFICES ASSUME NEW k \in 2..periods
                 PROVE  /\ ends[k] - ends[k - 1] \in {q, q + 1}
                        /\ ends[k] - ends[k - 1] > 0
      OBVIOUS
    <3>1. k \in 1..periods /\ k - 1 \in 1..periods
      OBVIOUS
    <3>2. ends[k] = cut[k] /\ ends[k - 1] = cut[k - 1]
      BY <2>7, <3>1
    <3>3. /\ cut[k] = cut[k - 1] + q \/ cut[k] = cut[k - 1] + q + 1
          /\ cut[k - 1] \in Nat /\ cut[k] \in Nat /\ cut[k - 1] < cut[k]
      BY <1>3a, <2>2, <3>1
    <3> QED BY <1>1, <3>2, <3>3
  <2>11. ends[periods] = n
    BY <1>2, <2>7
  <2>12. Len(ends) = IF n <= periods THEN n ELSE periods
    BY <1>4, <2>6
  <2> QED BY <1>1, <2>6, <2>8, <2>9, <2>10, <2>11, <2>12 DEF IsSplit, ends
<1>5. CASE ~(n >= periods)
  <2>1. q = 0
    <3>1. ~(q >= 1)
      <4> SUFFICES ASSUME q >= 1 PROVE FALSE
        OBVIOUS
      <4>1. periods * 1 <= periods * q
        BY <1>1, ProductIsMonotonic
      <4>2. periods * q = q * periods /\ q * periods \in Nat
        BY <1>1, ProductIsNat
      <4> QED BY <1>1, <1>5, <4>1, <4>2
    <3> QED BY <1>1, <3>1
  <2>2. \A i \in 1..periods : /\ cut[i - 1] \in Nat /\ cut[i] \in Nat
                              /\ cut[i] = cut[i - 1] \/ cut[i] = cut[i - 1] + 1
    BY <1>1, <1>3a, <2>1
  <2>3. \A i \in 0..periods : cut[i] <= n
    <3> DEFINE G == {j \in 0..periods : \A i \in 0..j : cut[i] <= cut[j]}
    <3>1. 0 \in G
      BY <1>2
    <3>2. ASSUME NEW j \in 1..periods, j - 1 \in G PROVE j \in G
      <4> SUFFICES ASSUME NEW i \in 0..j PROVE cut[i] <= cut[j]
        OBVIOUS
      <4> HIDE DEF G
      <4>1. cut[j - 1] <= cut[j] /\ cut[j - 1] \in Nat /\ cut[j] \in Nat /\ cut[i] \in Nat
        <5>1. i \in 0..periods
          OBVIOUS
        <5>2. cut[i] \in Nat
          BY <1>2, <5>1
        <5>3. /\ cut[j - 1] \in Nat /\ cut[j] \in Nat
              /\ cut[j] = cut[j - 1] \/ cut[j] = cut[j - 1] + 1
          BY <2>2
        <5> QED BY <5>2, <5>3
      <4>2. i = j \/ cut[i] <= cut[j - 1]
        BY <3>2 DEF G
      <4> QED BY <4>1, <4>2
    <3> HIDE DEF G
    <3>3. \A j \in 0..periods : j \in G
      BY <3>1, <3>2, PrefixInduction
    <3> QED BY <1>2, <3>3 DEF G
  <2>4. \A v \in 1..n : v \in S
    <3> DEFINE G == {j \in 0..periods : \A v \in 1..cut[j] : v \in S}
    <3>1. 0 \in G
      BY <1>2
    <3>2. ASSUME NEW j \in 1..periods, j - 1 \in G PROVE j \in G
      <4> SUFFICES ASSUME NEW v \in 1..cut[j] PROVE v \in S
        OBVIOUS
      <4>1. CASE v <= cut[j - 1]
        BY <2>2, <3>2, <4>1
      <4>2. CASE ~(v <= cut[j - 1])
        <5> HIDE DEF G, S, full
        <5>1. cut[j - 1] \in Nat /\ cut[j] \in Nat
          <6>1. j \in 0..periods /\ j - 1 \in 0..periods
            OBVIOUS
          <6> QED BY <1>2, <6>1
        <5>2. cut[j] = cut[j - 1] \/ cut[j] = cut[j - 1] + 1
          BY <2>2
        <5>3. v = cut[j] /\ cut[j - 1] < cut[j]
          BY <4>2, <5>1, <5>2
        <5>4. j \in full
          BY <5>3 DEF full
        <5> QED BY <5>3, <5>4 DEF S
      <4> QED BY <4>1, <4>2
    <3> HIDE DEF G
    <3>3. \A j \in 0..periods : j \in G
      BY <3>1, <3>2, PrefixInduction
    <3> QED BY <1>2, <3>3 DEF G
  <2>5. S = 1..n
    <3>1. \A i \in full : cut[i] \in 1..n
      <4> SUFFICES ASSUME NEW i \in full PROVE cut[i] \in 1..n
        OBVIOUS
      <4>1. i \in 1..periods /\ i \in 0..periods /\ cut[i - 1] < cut[i]
        OBVIOUS
      <4> HIDE DEF full, S
      <4>2. cut[i] \in Nat /\ cut[i - 1] \in Nat /\ cut[i] <= n
        <5>1. i - 1 \in 0..periods
          BY <4>1
        <5> QED BY <1>2, <2>3, <4>1, <5>1
      <4> QED BY <4>1, <4>2
    <3> QED BY <2>4, <3>1
  <2> DEFINE e == [k \in 1..n |-> k]
  <2>6. /\ S \in SUBSET Int /\ e \in [1..n -> S] /\ \A x \in S : \E k \in 1..n : e[k] = x
        /\ \A i, j \in 1..n : i < j => e[i] < e[j]
    BY <2>5
  <2> HIDE DEF S, e
  <2>7. /\ ends \in [1..n -> S] /\ Len(ends) = n /\ \A k \in 1..n : ends[k] = e[k]
    BY <1>3, <2>6, AscendingIs
  <2>8. \A k \in 1..n : ends[k] = k
    BY <2>7 DEF e
  <2>9. ends \in Seq(Nat)
    <3>1. ends \in [1..n -> Nat]
      BY <2>5, <2>7
    <3> QED BY <3>1
  <2>10. \A k \in 2..n : ends[k] - ends[k - 1] = 1
    <3> SUFFICES ASSUME NEW k \in 2..n PROVE ends[k] - ends[k - 1] = 1
      OBVIOUS
    <3>1. ends[k] = k /\ ends[k - 1] = k - 1
      BY <2>8
    <3> QED BY <3>1
  <2>11. /\ ends[1] \in {0, 0 + 1} /\ ends[1] > 0 /\ ends[n] = n
         /\ \A k \in 2..n : ends[k] - ends[k - 1] \in {0, 0 + 1} /\ ends[k] - ends[k - 1] > 0
    BY <2>8, <2>10
  <2>12. Len(ends) = IF n <= periods THEN n ELSE periods
    BY <1>5, <2>7
  <2> QED BY <2>7, <2>9, <2>11, <2>12 DEF IsSplit, ends
<1> QED BY <1>4, <1>5

\* The lengths of the slices that end at ends, and what those of an IsSplit are.
Slices(ends) == {ends[1]} \union {ends[k] - ends[k - 1] : k \in 2..Len(ends)}

LEMMA SlicesAreEven ==
  ASSUME NEW n \in Nat \ {0}, NEW periods \in Nat \ {0}, NEW ends, IsSplit(ends, n, periods)
  PROVE  Max(Slices(ends)) - Min(Slices(ends)) <= 1 /\ Min(Slices(ends)) > 0
<1> DEFINE sizes == Slices(ends)
<1>1. PICK q \in Nat :
        /\ ends[1] \in {q, q + 1} /\ ends[1] > 0
        /\ \A k \in 2..Len(ends) : ends[k] - ends[k - 1] \in {q, q + 1} /\ ends[k] - ends[k - 1] > 0
  BY DEF IsSplit
<1>2. q \in Nat
  BY <1>1
<1>3. \A x \in sizes : x \in {q, q + 1} /\ x > 0
  BY <1>1 DEF Slices
<1>4. sizes # {} /\ sizes \subseteq {q, q + 1}
  BY <1>3 DEF Slices
<1> HIDE DEF sizes
<1>5. IsFiniteSet({q, q + 1})
  <2>1. IsFiniteSet({q}) /\ {q, q + 1} = {q} \union {q + 1}
    BY FS_Singleton
  <2> QED BY <2>1, FS_AddElement
<1>6. IsFiniteSet(sizes) /\ sizes \in SUBSET Int
  <2>1. IsFiniteSet(sizes)
    BY <1>4, <1>5, FS_Subset
  <2>2. \A x \in {q, q + 1} : x \in Int
    BY <1>2
  <2>3. sizes \subseteq Int
    BY <1>4, <2>2
  <2> QED BY <2>1, <2>3
<1>7. Max(sizes) \in sizes /\ Min(sizes) \in sizes
  BY <1>4, <1>6, MaxMin
<1>8. /\ Max(sizes) = q \/ Max(sizes) = q + 1
      /\ Min(sizes) = q \/ Min(sizes) = q + 1
      /\ Min(sizes) > 0
  BY <1>3, <1>7
<1>9. Max(sizes) - Min(sizes) <= 1
  BY <1>2, <1>8
<1> QED BY <1>8, <1>9 DEF sizes

\* PeriodsSplit: calculate_period_consistency splits the index series of every
\* finished run into as many slices as there are values, PeriodSlices at most,
\* that differ in length by one at most and end with the last value.
THEOREM PeriodsSplit == BacktestSpec => []PeriodsSplitTheRun
<1>1. Fed /\ Drawn => PeriodsSplitTheRun
  <2> DEFINE n == Len(Chart)
             ends == SegmentEnds(n, PeriodSlices)
             sizes == {ends[1]} \union {ends[k] - ends[k - 1] : k \in 2..Len(ends)}
  <2> SUFFICES ASSUME Fed, Drawn, n > 0
               PROVE  /\ Len(ends) = Min({n, PeriodSlices})
                      /\ Last(ends) = n
                      /\ Max(sizes) - Min(sizes) <= 1 /\ Min(sizes) > 0
                      /\ n > 1 => PeriodConsistency(Chart).total = Len(ends) - 1
    BY DEF PeriodsSplitTheRun
  <2>1. PeriodSlices \in Nat /\ PeriodSlices >= 2
    BY MetricsAssumption
  <2>2. Chart \in Seq(Point)
    BY ChartIsMadeOfPoints DEF IsThinned
  <2>3. n \in Nat \ {0}
    BY <2>2
  <2>4. IsSplit(ends, n, PeriodSlices)
    BY <2>1, <2>3, SegmentEndsProperties
  <2>5. Len(ends) = Min({n, PeriodSlices})
    <3> HIDE DEF n
    <3>1. Min({n, PeriodSlices}) = IF n <= PeriodSlices THEN n ELSE PeriodSlices
      BY <2>1, <2>3, PairMaxMin
    <3> QED BY <2>4, <3>1 DEF IsSplit
  <2>6. Last(ends) = n
    BY <2>4 DEF IsSplit, Last
  <2>7. Max(sizes) - Min(sizes) <= 1 /\ Min(sizes) > 0
    <3>1. sizes = Slices(ends)
      BY DEF Slices
    <3> HIDE DEF n, ends, sizes
    <3>2. PeriodSlices \in Nat \ {0}
      BY <2>1
    <3> QED BY <2>3, <2>4, <3>1, <3>2, SlicesAreEven
  <2>8. ASSUME n > 1 PROVE PeriodConsistency(Chart).total = Len(ends) - 1
    <3> DEFINE e == [k \in DOMAIN Chart |-> Chart[k].equity]
               d == [k \in DOMAIN Chart |-> Chart[k].date]
    <3>1. \A k \in DOMAIN Chart : Chart[k].equity \in Nat /\ Chart[k].date \in Nat
      <4>1. \A k \in DOMAIN Chart : Chart[k] \in Point
        BY <2>2
      <4> QED BY <4>1 DEF Point
    <3>2. e \in Seq(Nat) /\ Len(e) = n /\ d \in [DOMAIN e -> Int]
      <4>1. DOMAIN Chart = 1..n
        BY <2>2
      <4>2. e \in [1..n -> Nat] /\ d \in [1..n -> Int]
        BY <3>1, <4>1
      <4> HIDE DEF e, d, n
      <4> QED BY <2>3, <4>2
    <3>3. Len(IndexSeries(Chart)) = n
      <4> HIDE DEF n
      <4>1. IndexSeries(Chart) = SortedBy(e, d)
        BY DEF IndexSeries
      <4> HIDE DEF e, d
      <4> QED BY <3>2, <4>1, SortedByProperties
    <3>4. Len(ends) >= 2 /\ Len(ends) \in Nat
      BY <2>1, <2>3, <2>4, <2>8 DEF IsSplit
    <3> HIDE DEF n
    <3> QED BY <2>3, <2>8, <3>3, <3>4 DEF PeriodConsistency
  <2> HIDE DEF sizes, n, ends
  <2> QED BY <2>5, <2>6, <2>7, <2>8
<1>2. Spec => [](Logged /\ Drawn)
  BY InitReport, NextReport, Accounting, PTL DEF Spec
<1>3. RunInv => Fed
  BY DEF RunInv
<1> QED BY <1>1, <1>2, <1>3, RunsOfEngine, RunIsFollowed, PTL

(***************************************************************************)
(* The events of a report and the shading of the chart.                    *)
(***************************************************************************)
Event == [date : Nat, action : {"BUY", "SELL"}, price : Nat]

\* A trade with both of its times has two events.
PairOf(t) ==
  << [date |-> t.openedAt, action |-> "BUY", price |-> t.entryPrice],
     [date |-> t.closedAt, action |-> "SELL",
      price |-> IF t.exitPrice = 0 THEN t.entryPrice ELSE t.exitPrice] >>

LEMMA EventsOfTrade ==
  ASSUME NEW t \in Trade, t.openedAt # 0, t.closedAt # 0
  PROVE  EventsOf(t) = PairOf(t) /\ PairOf(t) \in Seq(Event)
<1> DEFINE buy == [date |-> t.openedAt, action |-> "BUY", price |-> t.entryPrice]
           sell == [date |-> t.closedAt, action |-> "SELL",
                    price |-> IF t.exitPrice = 0 THEN t.entryPrice ELSE t.exitPrice]
<1>1. buy \in Event /\ sell \in Event
  BY DEF Event, Trade
<1>2. EventsOf(t) = <<buy>> \o <<sell>> /\ PairOf(t) = <<buy, sell>>
  BY DEF EventsOf, PairOf
<1> HIDE DEF buy, sell
<1>3. <<buy>> \o <<sell>> = <<buy, sell>>
  <2>1. <<buy>> \in Seq(Event) /\ <<sell>> \in Seq(Event) /\ <<buy, sell>> \in Seq(Event)
    BY <1>1
  <2>2. /\ <<buy>> \o <<sell>> \in Seq(Event)
        /\ Len(<<buy>> \o <<sell>>) = 2 /\ Len(<<buy, sell>>) = 2
        /\ (<<buy>> \o <<sell>>)[1] = buy /\ (<<buy>> \o <<sell>>)[2] = sell
    BY <2>1
  <2>3. /\ Len(<<buy>> \o <<sell>>) = Len(<<buy, sell>>)
        /\ \A i \in 1..Len(<<buy>> \o <<sell>>) : (<<buy>> \o <<sell>>)[i] = <<buy, sell>>[i]
    BY <2>2
  <2> QED BY <2>1, <2>2, <2>3, SeqEqual, Zenon
<1>4. PairOf(t) \in Seq(Event)
  BY <1>1, <1>2
<1>5. EventsOf(t) = PairOf(t)
  BY <1>2, <1>3
<1> QED BY <1>4, <1>5

LEMMA EventsAreEvents ==
  ASSUME NEW t \in Trade
  PROVE  EventsOf(t) \in Seq(Event)
<1> DEFINE buy == [date |-> t.openedAt, action |-> "BUY", price |-> t.entryPrice]
           sell == [date |-> t.closedAt, action |-> "SELL",
                    price |-> IF t.exitPrice = 0 THEN t.entryPrice ELSE t.exitPrice]
<1>1. buy \in Event /\ sell \in Event
  BY DEF Event, Trade
<1>2. EventsOf(t) = (IF t.openedAt = 0 THEN <<>> ELSE <<buy>>) \o
                    (IF t.closedAt = 0 THEN <<>> ELSE <<sell>>)
  BY DEF EventsOf
<1> HIDE DEF buy, sell
<1> QED BY <1>1, <1>2

\* TradeEvents, trade by trade.
IsEventLog(f, trades) ==
  /\ f \in [0..Len(trades) -> Seq(Event)]
  /\ f[0] = <<>>
  /\ \A k \in 1..Len(trades) : f[k] = f[k - 1] \o EventsOf(trades[k])
  /\ TradeEvents(trades) = f[Len(trades)]

LEMMA EventsUnroll ==
  ASSUME NEW trades \in Seq(Trade)
  PROVE  \E f : IsEventLog(f, trades)
<1> DEFINE n == Len(trades)
           base == <<>>
           D == Seq(Event)
           g == [k \in 1..n |-> [o \in D |-> o \o EventsOf(trades[k])]]
           R(it) == it = [S \in SUBSET (1..n) |->
                            IF S = {} THEN base
                            ELSE it[S \ {Max(S)}] \o EventsOf(trades[Max(S)])]
           t == CHOOSE it : R(it)
           f == [k \in 0..n |-> t[1..k]]
<1>1. n \in Nat /\ DOMAIN trades = 1..n /\ base \in D /\ \A k \in 1..n : trades[k] \in Trade
  OBVIOUS
<1>2. \A o \in D : \A k \in 1..n : o \o EventsOf(trades[k]) \in D
  BY <1>1, EventsAreEvents
<1>3. TradeEvents(trades) = t[1..n]
  <2>1. TradeEvents(trades) = FoldLeft(LAMBDA log, x : log \o EventsOf(x), base, trades)
    BY DEF TradeEvents
  <2> HIDE DEF base
  <2> QED BY <1>1, <2>1 DEF FoldLeft, MapThenFoldSet
<1> HIDE DEF n, base, D
<1>4. g \in [1..n -> [D -> D]]
  BY <1>2
<1>5. \A o \in D : \A k \in 1..n : g[k][o] = o \o EventsOf(trades[k])
  OBVIOUS
<1> HIDE DEF g, t
<1>6. \E it : R(it) /\ it \in [SUBSET (1..n) -> D]
  <2>1. PICK it : IsFold(it, n, D, base, g)
    BY <1>1, <1>4, FoldExists
  <2>2. /\ it \in [SUBSET (1..n) -> D]
        /\ \A S \in SUBSET (1..n) :
             it[S] = IF S = {} THEN base ELSE g[Max(S)][it[S \ {Max(S)}]]
    BY <2>1 DEF IsFold
  <2>3. ASSUME NEW S \in SUBSET (1..n), S # {}
        PROVE  it[S] = it[S \ {Max(S)}] \o EventsOf(trades[Max(S)])
    <3>1. Max(S) \in 1..n
      BY <1>1, <2>3, FoldPlaces
    <3>2. it[S \ {Max(S)}] \in D
      BY <2>2
    <3> QED BY <1>5, <2>2, <2>3, <3>1, <3>2
  <2>4. it = [S \in SUBSET (1..n) |->
                IF S = {} THEN base ELSE it[S \ {Max(S)}] \o EventsOf(trades[Max(S)])]
    BY <2>2, <2>3
  <2> QED BY <2>2, <2>4
<1>7. R(t)
  BY <1>6 DEF t
<1>8. f[0] = base
  <2>1. 1..0 = {}
    OBVIOUS
  <2>2. t[{}] = base
    BY <1>7
  <2> QED BY <1>1, <2>1, <2>2
<1>9. ASSUME NEW k \in 1..n PROVE f[k] = f[k - 1] \o EventsOf(trades[k])
  <2>1. Max(1..k) = k /\ (1..k) \ {k} = 1..(k - 1) /\ 1..k # {}
    <3>1. k \in Nat \ {0}
      BY <1>1
    <3> HIDE DEF f, R
    <3> QED BY <3>1, PrefixMax
  <2>2. 1..k \in SUBSET (1..n)
    BY <1>1
  <2>3. t[1..k] = t[(1..k) \ {Max(1..k)}] \o EventsOf(trades[Max(1..k)])
    BY <1>7, <2>1, <2>2
  <2>4. f[k] = t[1..k] /\ f[k - 1] = t[1..(k - 1)]
    BY <1>1
  <2> HIDE DEF f, R
  <2> QED BY <2>1, <2>3, <2>4
<1>10. f[n] = t[1..n] /\ DOMAIN f = 0..n /\ f = [k \in 0..n |-> f[k]]
  BY <1>1
<1> HIDE DEF f, R
<1>11. \A k \in 0..n : f[k] \in D
  <2> DEFINE G == {k \in 0..n : f[k] \in D}
  <2>1. 0 \in G
    BY <1>1, <1>8
  <2>2. ASSUME NEW k \in 1..n, k - 1 \in G PROVE k \in G
    <3>1. f[k - 1] \in D
      BY <2>2
    <3>2. f[k] \in D
      BY <1>2, <1>9, <3>1
    <3> QED BY <1>1, <3>2
  <2> HIDE DEF G
  <2>3. \A k \in 0..n : k \in G
    BY <1>1, <2>1, <2>2, PrefixInduction
  <2> QED BY <2>3 DEF G
<1>12. f \in [0..n -> D]
  BY <1>10, <1>11
<1> HIDE DEF t
<1> QED BY <1>3, <1>8, <1>9, <1>10, <1>12 DEF IsEventLog, n, base, D

\* The events of closed trades: the two of each trade, trade by trade.
TradesOf(events, trades) ==
  /\ events \in Seq(Event) /\ Len(events) = 2 * Len(trades)
  /\ \A i \in 1..Len(trades) :
       /\ events[2 * i - 1].date = trades[i].openedAt /\ events[2 * i - 1].action = "BUY"
       /\ events[2 * i].date = trades[i].closedAt /\ events[2 * i].action = "SELL"

LEMMA EventsOfTrades ==
  ASSUME NEW trades \in Seq(Trade),
         \A i \in 1..Len(trades) : trades[i].openedAt # 0 /\ trades[i].closedAt # 0
  PROVE  TradesOf(TradeEvents(trades), trades)
<1> DEFINE n == Len(trades)
<1>1. n \in Nat /\ \A k \in 1..n : trades[k] \in Trade
  OBVIOUS
<1>2. PICK f : IsEventLog(f, trades)
  BY EventsUnroll
<1>3. /\ f \in [0..n -> Seq(Event)] /\ f[0] = <<>> /\ TradeEvents(trades) = f[n]
      /\ \A k \in 1..n : f[k] = f[k - 1] \o EventsOf(trades[k])
  BY <1>2 DEF IsEventLog
<1> DEFINE Pairs(s, k) ==
             /\ Len(s) = 2 * k
             /\ \A i \in 1..k :
                  /\ s[2 * i - 1].date = trades[i].openedAt /\ s[2 * i - 1].action = "BUY"
                  /\ s[2 * i].date = trades[i].closedAt /\ s[2 * i].action = "SELL"
           G == {k \in 0..n : Pairs(f[k], k)}
<1>4. 0 \in G
  BY <1>1, <1>3
<1>5. ASSUME NEW k \in 1..n, k - 1 \in G PROVE k \in G
  <2> DEFINE s == f[k - 1]
             p == PairOf(trades[k])
             r == f[k]
  <2>1. Pairs(s, k - 1)
    BY <1>5
  <2>2. s \in Seq(Event) /\ r \in Seq(Event) /\ k \in Nat /\ k \in 0..n /\ k - 1 \in Nat
    BY <1>1, <1>3
  <2>3. r = s \o p /\ p \in Seq(Event)
    BY <1>1, <1>3, EventsOfTrade
  <2>4. /\ Len(p) = 2
        /\ p[1].date = trades[k].openedAt /\ p[1].action = "BUY"
        /\ p[2].date = trades[k].closedAt /\ p[2].action = "SELL"
    BY DEF PairOf
  <2> HIDE DEF s, p, r, n
  <2>5. Len(s) = 2 * k - 2
    BY <2>1, <2>2
  <2>6. Len(r) = 2 * k /\ r[2 * k - 1] = p[1] /\ r[2 * k] = p[2]
    <3>1. Len(s) \in Nat /\ 2 * k - 1 = Len(s) + 1 /\ 2 * k = Len(s) + 2
      BY <2>2, <2>5
    <3>2. Len(r) = Len(s) + 2 /\ r[Len(s) + 1] = p[1] /\ r[Len(s) + 2] = p[2]
      <4>1. /\ Len(r) = Len(s) + Len(p)
            /\ \A i \in 1..(Len(s) + Len(p)) :
                 r[i] = IF i <= Len(s) THEN s[i] ELSE p[i - Len(s)]
        BY <2>2, <2>3, ConcatProperties
      <4> QED BY <2>4, <3>1, <4>1
    <3> QED BY <3>1, <3>2
  <2>7. \A j \in 1..(2 * k - 2) : r[j] = s[j]
    BY <2>2, <2>3, <2>5
  <2>8. ASSUME NEW i \in 1..k
        PROVE  /\ r[2 * i - 1].date = trades[i].openedAt /\ r[2 * i - 1].action = "BUY"
               /\ r[2 * i].date = trades[i].closedAt /\ r[2 * i].action = "SELL"
    <3>1. CASE i = k
      BY <2>4, <2>6, <3>1
    <3>2. CASE i # k
      <4>1. i \in 1..(k - 1) /\ 2 * i - 1 \in 1..(2 * k - 2) /\ 2 * i \in 1..(2 * k - 2)
        BY <2>2, <3>2
      <4>2. r[2 * i - 1] = s[2 * i - 1] /\ r[2 * i] = s[2 * i]
        BY <2>7, <4>1
      <4> QED BY <2>1, <4>1, <4>2
    <3> QED BY <3>1, <3>2
  <2>9. Pairs(r, k)
    BY <2>6, <2>8
  <2> QED BY <2>2, <2>9 DEF r
<1> HIDE DEF G
<1>6. \A k \in 0..n : k \in G
  BY <1>1, <1>4, <1>5, PrefixInduction
<1>7. n \in 0..n
  BY <1>1
<1>8. Pairs(f[n], n)
  BY <1>6, <1>7 DEF G
<1> QED BY <1>3, <1>7, <1>8 DEF TradesOf
\* Events that are in the order of their dates are left as they are.
LEMMA ByDateOfOrdered ==
  ASSUME NEW events \in Seq(Event),
         \A i, j \in 1..Len(events) : i < j => events[i].date <= events[j].date
  PROVE  ByDate(events) = events
<1> DEFINE n == Len(events)
           K == [i \in DOMAIN events |-> events[i].date]
<1>1. n \in Nat /\ DOMAIN events = 1..n /\ \A i \in 1..n : events[i] \in Event
  OBVIOUS
<1>2. K \in [DOMAIN events -> Int] /\ \A i \in 1..n : K[i] = events[i].date
  BY <1>1 DEF Event
<1>3. ByDate(events) = SortedBy(events, K)
  BY DEF ByDate
<1> HIDE DEF K
<1>4. \A i, j \in 1..Len(events) : i < j => K[i] <= K[j]
  BY <1>2
<1> QED BY <1>2, <1>3, <1>4, SortedByOfOrdered

\* What the interface shades: the points up to which the last event is a BUY.
LEMMA InPositionIs ==
  ASSUME NEW events \in Seq(Event),
         \A i, j \in 1..Len(events) : i < j => events[i].date <= events[j].date,
         NEW point \in Point
  PROVE  InPosition(point, events) <=>
           \E j \in 1..Len(events) :
             /\ events[j].date <= point.date /\ events[j].action = "BUY"
             /\ \A k \in 1..Len(events) : k > j => events[k].date > point.date
<1> DEFINE n == Len(events)
           S == {e \in Range(events) : e.date <= point.date}
           past == Kept(events, S)
           m == Len(past)
<1>1. /\ n \in Nat /\ DOMAIN events = 1..n /\ point.date \in Nat
      /\ \A i \in 1..n : events[i].date \in Nat
  <2>1. \A i \in 1..n : events[i] \in Event
    OBVIOUS
  <2> QED BY <2>1 DEF Event, Point
<1>2. InPosition(point, events) <=> past # <<>> /\ Last(past).action = "BUY"
  BY ByDateOfOrdered DEF InPosition
<1>3. \A i \in 1..n : events[i] \in S <=> events[i].date <= point.date
  BY <1>1 DEF Range
<1> HIDE DEF S
<1>4. past \in Seq(Event)
  BY KeptProperties
<1>5. m \in Nat /\ DOMAIN past = 1..m /\ (past # <<>> <=> m > 0)
  BY <1>4
<1>6. PICK at \in [DOMAIN past -> DOMAIN events] :
        /\ \A i \in DOMAIN past : past[i] = events[at[i]] /\ events[at[i]] \in S
        /\ \A i \in DOMAIN events : events[i] \in S => \E j \in DOMAIN past : at[j] = i
        /\ \A i, j \in DOMAIN past : i < j => at[i] < at[j]
  BY KeptProperties
<1> HIDE DEF past, m, n
<1>7. /\ at \in [1..m -> 1..n]
      /\ \A i \in 1..m : past[i] = events[at[i]] /\ events[at[i]].date <= point.date
      /\ \A i \in 1..n : events[i].date <= point.date => \E j \in 1..m : at[j] = i
      /\ \A i, j \in 1..m : i < j => at[i] < at[j]
  BY <1>1, <1>3, <1>5, <1>6
<1>8. ASSUME m > 0 PROVE /\ at[m] \in 1..n /\ Last(past) = events[at[m]]
                         /\ events[at[m]].date <= point.date
                         /\ \A k \in 1..n : k > at[m] => events[k].date > point.date
  <2>1. m \in 1..m /\ at[m] \in 1..n
    BY <1>5, <1>7, <1>8
  <2>2. Last(past) = past[m]
    BY DEF Last, m
  <2>3. ASSUME NEW k \in 1..n, k > at[m], events[k].date <= point.date PROVE FALSE
    <3>1. PICK j \in 1..m : at[j] = k
      BY <1>7, <2>3
    <3>2. j = m \/ at[j] < at[m]
      BY <1>5, <1>7, <2>1
    <3> QED BY <1>1, <2>1, <2>3, <3>1, <3>2
  <2>4. \A k \in 1..n : k > at[m] => events[k].date > point.date
    BY <1>1, <2>3
  <2> QED BY <1>7, <2>1, <2>2, <2>4
<1>9. ASSUME m > 0, Last(past).action = "BUY"
      PROVE  \E j \in 1..n :
               /\ events[j].date <= point.date /\ events[j].action = "BUY"
               /\ \A k \in 1..n : k > j => events[k].date > point.date
  BY <1>8, <1>9
<1>10. ASSUME NEW j \in 1..n, events[j].date <= point.date, events[j].action = "BUY",
              \A k \in 1..n : k > j => events[k].date > point.date
       PROVE  m > 0 /\ Last(past).action = "BUY"
  <2>1. PICK i \in 1..m : at[i] = j
    BY <1>7, <1>10
  <2>2. m > 0
    BY <1>5, <2>1
  <2>3. ~(at[m] > j) /\ ~(j > at[m])
    <3>1. ~(events[at[m]].date > point.date)
      BY <1>1, <1>8, <2>2
    <3> QED BY <1>1, <1>8, <1>10, <2>2, <3>1
  <2>4. at[m] = j
    BY <1>1, <1>8, <2>2, <2>3
  <2> QED BY <1>8, <1>10, <2>2, <2>4
<1> QED BY <1>2, <1>5, <1>9, <1>10 DEF n

\* The trades of the log follow one another, and so do their events.
LEMMA TradesFollow ==
  ASSUME Logged
  PROVE  /\ tradeLog \in Seq(Trade)
         /\ \A i \in 1..Len(tradeLog) :
              /\ tradeLog[i].openedAt \in Nat \ {0} /\ tradeLog[i].closedAt \in Nat \ {0}
              /\ tradeLog[i].openedAt <= tradeLog[i].closedAt
         /\ \A i, j \in 1..Len(tradeLog) :
              i < j => tradeLog[i].closedAt < tradeLog[j].openedAt
<1> DEFINE n == Len(tradeLog)
           G == {j \in 0..n : \A i \in 1..n : i < j => tradeLog[i].closedAt < tradeLog[j].openedAt}
<1>1. tradeLog \in Seq(Trade) /\ n \in Nat /\ TradesInOrder
  BY DEF Logged
<1>2. ASSUME NEW i \in 1..n
      PROVE  /\ tradeLog[i].openedAt \in Nat \ {0} /\ tradeLog[i].closedAt \in Nat \ {0}
             /\ tradeLog[i].openedAt <= tradeLog[i].closedAt
             /\ i > 1 => tradeLog[i - 1].closedAt < tradeLog[i].openedAt
  <2>1. tradeLog[i] \in Trade
    BY <1>1
  <2>2. tradeLog[i].openedAt \in Nat /\ tradeLog[i].closedAt \in Nat
    BY <2>1 DEF Trade
  <2>3. /\ tradeLog[i].openedAt \in 1..tradeLog[i].closedAt
        /\ i > 1 => tradeLog[i - 1].closedAt < tradeLog[i].openedAt
    BY <1>1 DEF TradesInOrder
  <2> QED BY <2>2, <2>3
<1>3. 0 \in G
  BY <1>1
<1>4. ASSUME NEW j \in 1..n, j - 1 \in G PROVE j \in G
  <2>1. \A i \in 1..n : i < j - 1 => tradeLog[i].closedAt < tradeLog[j - 1].openedAt
    BY <1>4
  <2> SUFFICES ASSUME NEW i \in 1..n, i < j PROVE tradeLog[i].closedAt < tradeLog[j].openedAt
    BY <1>1
  <2> HIDE DEF G
  <2>2. j \in Nat /\ i \in Nat /\ j > 1 /\ j - 1 \in 1..n
    BY <1>1
  <2>3. tradeLog[j - 1].closedAt < tradeLog[j].openedAt
    BY <1>2, <2>2
  <2>4. CASE i = j - 1
    BY <2>3, <2>4
  <2>5. CASE i # j - 1
    <3>1. tradeLog[i].closedAt < tradeLog[j - 1].openedAt
      BY <2>1, <2>2, <2>5
    <3>2. /\ tradeLog[i].closedAt \in Nat /\ tradeLog[j].openedAt \in Nat
          /\ tradeLog[j - 1].openedAt \in Nat /\ tradeLog[j - 1].closedAt \in Nat
          /\ tradeLog[j - 1].openedAt <= tradeLog[j - 1].closedAt
      BY <1>2, <2>2
    <3> QED BY <2>3, <3>1, <3>2
  <2> QED BY <2>4, <2>5
<1> HIDE DEF G
<1>5. \A j \in 0..n : j \in G
  BY <1>1, <1>3, <1>4, PrefixInduction
<1>6. ASSUME NEW i \in 1..n, NEW j \in 1..n, i < j
      PROVE  tradeLog[i].closedAt < tradeLog[j].openedAt
  <2>1. j \in 0..n
    BY <1>1
  <2> QED BY <1>5, <1>6, <2>1 DEF G
<1> QED BY <1>1, <1>2, <1>6

LEMMA EventsFollow ==
  ASSUME Logged
  PROVE  LET events == TradeEvents(tradeLog)
         IN  /\ TradesOf(events, tradeLog)
             /\ \A j \in 1..Len(events) : \E a \in 1..Len(tradeLog) : j = 2 * a - 1 \/ j = 2 * a
             /\ \A i, j \in 1..Len(events) : i < j => events[i].date <= events[j].date
<1> DEFINE n == Len(tradeLog)
           events == TradeEvents(tradeLog)
<1>1. /\ tradeLog \in Seq(Trade) /\ n \in Nat
      /\ \A i \in 1..n : /\ tradeLog[i].openedAt \in Nat \ {0}
                         /\ tradeLog[i].closedAt \in Nat \ {0}
                         /\ tradeLog[i].openedAt <= tradeLog[i].closedAt
      /\ \A i, j \in 1..n : i < j => tradeLog[i].closedAt < tradeLog[j].openedAt
  BY TradesFollow
<1>2. TradesOf(events, tradeLog)
  <2>1. \A i \in 1..Len(tradeLog) : tradeLog[i].openedAt # 0 /\ tradeLog[i].closedAt # 0
    BY <1>1
  <2> QED BY <1>1, <2>1, EventsOfTrades
<1> HIDE DEF events
<1>3. /\ Len(events) = 2 * n
      /\ \A i \in 1..n : /\ events[2 * i - 1].date = tradeLog[i].openedAt
                         /\ events[2 * i].date = tradeLog[i].closedAt
  BY <1>2 DEF TradesOf
<1> HIDE DEF n
<1>4. ASSUME NEW j \in 1..Len(events) PROVE \E a \in 1..n : j = 2 * a - 1 \/ j = 2 * a
  <2> DEFINE a == (j + 1) \div 2
  <2>1. j \in Nat /\ 1 <= j /\ j <= 2 * n
    BY <1>1, <1>3
  <2>2. a \in Nat /\ a >= 1 /\ a <= n /\ (j = 2 * a - 1 \/ j = 2 * a)
    BY <1>1, <2>1
  <2> HIDE DEF a
  <2>3. a \in 1..n
    BY <1>1, <2>2
  <2> QED BY <2>2, <2>3
<1>5. ASSUME NEW i \in 1..Len(events), NEW j \in 1..Len(events), i < j
      PROVE  events[i].date <= events[j].date
  <2>1. PICK a \in 1..n : i = 2 * a - 1 \/ i = 2 * a
    BY <1>4
  <2>2. PICK b \in 1..n : j = 2 * b - 1 \/ j = 2 * b
    BY <1>4
  <2>3. a \in Nat /\ b \in Nat /\ (a < b \/ (a = b /\ i = 2 * a - 1 /\ j = 2 * b))
    BY <1>1, <1>5, <2>1, <2>2
  <2>4. /\ tradeLog[a].openedAt \in Nat /\ tradeLog[a].closedAt \in Nat
        /\ tradeLog[b].openedAt \in Nat /\ tradeLog[b].closedAt \in Nat
        /\ tradeLog[a].openedAt <= tradeLog[a].closedAt
        /\ tradeLog[b].openedAt <= tradeLog[b].closedAt
        /\ a < b => tradeLog[a].closedAt < tradeLog[b].openedAt
    BY <1>1
  <2>5. events[i].date = tradeLog[a].openedAt \/ events[i].date = tradeLog[a].closedAt
    BY <1>3, <2>1
  <2>6. events[j].date = tradeLog[b].openedAt \/ events[j].date = tradeLog[b].closedAt
    BY <1>3, <2>2
  <2>7. CASE a < b
    BY <2>4, <2>5, <2>6, <2>7
  <2>8. CASE a = b /\ i = 2 * a - 1 /\ j = 2 * b
    <3>1. events[i].date = tradeLog[a].openedAt /\ events[j].date = tradeLog[a].closedAt
      BY <1>3, <2>8
    <3> QED BY <2>4, <3>1
  <2> QED BY <2>3, <2>7, <2>8
<1> QED BY <1>2, <1>4, <1>5 DEF events, n

\* A point is shaded exactly if a trade is open after its candle.
LEMMA ShadingIsPosition ==
  ASSUME Logged, NEW point \in Point
  PROVE  InPosition(point, TradeEvents(tradeLog)) <=>
           \E i \in DOMAIN tradeLog :
             tradeLog[i].openedAt <= point.date /\ point.date < tradeLog[i].closedAt
<1> DEFINE n == Len(tradeLog)
           events == TradeEvents(tradeLog)
           shaded == \E j \in 1..Len(events) :
                       /\ events[j].date <= point.date /\ events[j].action = "BUY"
                       /\ \A k \in 1..Len(events) : k > j => events[k].date > point.date
           held == \E i \in 1..n :
                     tradeLog[i].openedAt <= point.date /\ point.date < tradeLog[i].closedAt
<1>1. /\ n \in Nat /\ DOMAIN tradeLog = 1..n /\ point.date \in Nat
      /\ \A i \in 1..n : tradeLog[i].openedAt \in Nat /\ tradeLog[i].closedAt \in Nat
  BY TradesFollow DEF Point
<1>2. /\ TradesOf(events, tradeLog)
      /\ \A j \in 1..Len(events) : \E a \in 1..n : j = 2 * a - 1 \/ j = 2 * a
      /\ \A i, j \in 1..Len(events) : i < j => events[i].date <= events[j].date
  BY EventsFollow
<1> HIDE DEF events
<1>3. /\ events \in Seq(Event) /\ Len(events) = 2 * n
      /\ \A i \in 1..n :
           /\ events[2 * i - 1].date = tradeLog[i].openedAt /\ events[2 * i - 1].action = "BUY"
           /\ events[2 * i].date = tradeLog[i].closedAt /\ events[2 * i].action = "SELL"
  BY <1>2 DEF TradesOf
<1>4. InPosition(point, events) <=> shaded
  BY <1>2, <1>3, InPositionIs
<1> HIDE DEF n
<1>5. ASSUME shaded PROVE held
  <2>1. PICK j \in 1..Len(events) :
          /\ events[j].date <= point.date /\ events[j].action = "BUY"
          /\ \A k \in 1..Len(events) : k > j => events[k].date > point.date
    BY <1>5
  <2>2. PICK a \in 1..n : j = 2 * a - 1 \/ j = 2 * a
    BY <1>2
  <2>3. j = 2 * a - 1
    BY <1>3, <2>1, <2>2
  <2>4. 2 * a \in 1..Len(events) /\ 2 * a > j
    BY <1>1, <1>3, <2>3
  <2>5. events[2 * a].date > point.date
    BY <2>1, <2>4
  <2>6. tradeLog[a].openedAt <= point.date /\ tradeLog[a].closedAt > point.date
    BY <1>3, <2>1, <2>3, <2>5
  <2> QED BY <1>1, <2>6
<1>6. ASSUME held PROVE shaded
  <2>1. PICK a \in 1..n :
          tradeLog[a].openedAt <= point.date /\ point.date < tradeLog[a].closedAt
    BY <1>6
  <2> DEFINE j == 2 * a - 1
  <2>2. /\ j \in 1..Len(events) /\ 2 * a \in 1..Len(events)
        /\ events[j].date <= point.date /\ events[j].action = "BUY"
        /\ events[2 * a].date > point.date
    BY <1>1, <1>3, <2>1
  <2>3. ASSUME NEW k \in 1..Len(events), k > j PROVE events[k].date > point.date
    <3>1. k = 2 * a \/ 2 * a < k
      BY <2>3
    <3>2. events[2 * a].date <= events[k].date \/ k = 2 * a
      BY <1>2, <2>2, <3>1
    <3>3. events[2 * a].date \in Nat /\ events[k].date \in Nat
      <4>1. events[2 * a] \in Event /\ events[k] \in Event
        BY <1>3, <2>2
      <4> QED BY <4>1 DEF Event
    <3> QED BY <1>1, <2>2, <3>2, <3>3
  <2> QED BY <2>2, <2>3
<1>7. InPosition(point, events) <=> held
  BY <1>4, <1>5, <1>6
<1> QED BY <1>1, <1>7 DEF n, events
\* ChartShowsPosition: at every point of the chart, that of the trading bot too, the
\* interface shades a position exactly if a trade of the report was open after that
\* candle; the chart begins and ends with the run, and the bot passes on an order
\* exactly if it traded, which buys.
THEOREM ChartShows == BacktestSpec => []ChartShowsPosition
<1>1. Fed /\ Logged /\ Drawn /\ Booked => ChartShowsPosition
  <2> SUFFICES ASSUME Fed, Logged, Drawn, Booked PROVE ChartShowsPosition
    OBVIOUS
  <2>1. /\ IsChart(ValidationChart, closes, curve)
        /\ IsThinned(Chart, ValidationChart)
    BY ChartIsMadeOfPoints
  <2>2. ValidationChart \in Seq(Point) /\ Chart \in Seq(Point)
    BY <2>1 DEF IsChart, IsThinned
  <2>3. \A point \in Range(Chart) \union Range(ValidationChart) :
          InPosition(point, TradeEvents(tradeLog)) <=>
            \E i \in DOMAIN tradeLog :
              tradeLog[i].openedAt <= point.date /\ point.date < tradeLog[i].closedAt
    <3> TAKE point \in Range(Chart) \union Range(ValidationChart)
    <3>1. point \in Point
      BY <2>2 DEF Range
    <3> QED BY <3>1, ShadingIsPosition
  <2>4. PaperOrder = IF tradeLog = <<>> THEN "none" ELSE "BUY"
    <3>1. CASE tradeLog = <<>>
      BY <3>1 DEF PaperOrder
    <3>2. CASE tradeLog # <<>>
      <4>1. tradeLog \in Seq(Trade)
        BY DEF Logged
      <4>2. Len(tradeLog) \in DOMAIN tradeLog
        BY <3>2, <4>1
      <4>3. tradeLog[Len(tradeLog)].quantity > 0
        BY <4>2 DEF Booked
      <4>4. Last(tradeLog).quantity > 0
        BY <4>3 DEF Last
      <4> QED BY <3>2, <4>4 DEF PaperOrder
    <3> QED BY <3>1, <3>2
  <2>5. ASSUME Chart # <<>>
        PROVE  /\ Chart[1].date = 1
               /\ Last(Chart).date = bar
               /\ Last(Chart).equity = equity
               /\ Len(Chart) <= MaxChartPoints + 1
    <3> DEFINE points == ValidationChart
               n == Len(points)
               thin == Chart
               m == Len(thin)
    <3>1. /\ n \in Nat /\ m \in Nat /\ thin # <<>> /\ points # <<>> /\ n > 0 /\ m > 0
      BY <2>1, <2>2, <2>5 DEF IsThinned
    <3>2. /\ \A i \in 1..n :
               points[i] = [date |-> i, equity |-> curve[i + 1], close |-> closes[i]]
          /\ n <= Len(closes) /\ n < Len(curve) /\ (n = Len(closes) \/ n + 1 = Len(curve))
      <4> HIDE DEF points
      <4> QED BY <2>1, <3>1 DEF IsChart, points
    <3>3. PICK at \in [1..m -> 1..n] :
            /\ \A k \in 1..m : thin[k] = points[at[k]]
            /\ at[1] = 1 /\ at[m] = n
      BY <2>1, <2>5 DEF IsThinned
    <3>4. Len(closes) = bar /\ Len(curve) = bar + 1 /\ bar \in Nat /\ curve[bar + 1] = equity
      <4>1. bar \in Nat
        BY EngineAssumption DEF Drawn
      <4> QED BY <4>1 DEF Fed, Drawn, CurveMatchesReport
    <3> HIDE DEF points, n, thin, m
    <3>5. n = bar
      BY <3>1, <3>2, <3>4
    <3>6. thin[1] = points[1] /\ thin[m] = points[n] /\ 1 \in 1..n /\ n \in 1..n
      BY <3>1, <3>3
    <3>7. points[1].date = 1 /\ points[n].date = bar /\ points[n].equity = equity
      <4>1. /\ points[1] = [date |-> 1, equity |-> curve[1 + 1], close |-> closes[1]]
            /\ points[n] = [date |-> n, equity |-> curve[n + 1], close |-> closes[n]]
        BY <3>2, <3>6
      <4> QED BY <3>4, <3>5, <4>1
    <3>8. Last(thin) = thin[m]
      BY DEF Last, m
    <3>9. m <= MaxChartPoints + 1
      BY <2>1 DEF IsThinned, m, thin
    <3> QED BY <3>6, <3>7, <3>8, <3>9 DEF thin, m
  <2> QED BY <2>3, <2>4, <2>5 DEF ChartShowsPosition
<1>2. Spec => [](Logged /\ Drawn)
  BY InitReport, NextReport, Accounting, PTL DEF Spec
<1>3. RunInv => Fed
  BY DEF RunInv
<1> QED BY <1>1, <1>2, <1>3, RunsOfEngine, RunIsFollowed, ProfitsAreBooked, PTL

-----------------------------------------------------------------------------
(***************************************************************************)
(* Series.  One more candle adds one value to every series and changes     *)
(* none of the values before it, function by function and then round by    *)
(* round of precompute.                                                    *)
(***************************************************************************)
Extends(now, past) ==
  /\ now \in Seq(Int) /\ past \in Seq(Int) /\ Len(now) = Len(past) + 1
  /\ \A i \in 1..Len(past) : now[i] = past[i]

SmaStates == [window : Seq(Int), running : Int, out : Seq(Int)]
SmaBase == [window |-> <<>>, running |-> 0, out |-> <<>>]

LEMMA SmaNextIsState ==
  ASSUME NEW period \in Nat \ {0}, NEW acc \in SmaStates, NEW x \in Int
  PROVE  /\ SmaNext(period, acc, x) \in SmaStates
         /\ \E y \in Int : SmaNext(period, acc, x).out = Append(acc.out, y)
<1> DEFINE full == Len(acc.window) = period
           rest == IF full THEN Tail(acc.window) ELSE acc.window
           window == Append(rest, x)
           leaves == IF full THEN Head(acc.window) ELSE 0
           running == acc.running + x - leaves
           y == running \div Len(window)
<1>1. acc.window \in Seq(Int) /\ acc.running \in Int /\ acc.out \in Seq(Int)
  BY DEF SmaStates
<1>2. full => acc.window # <<>>
  BY <1>1
<1>3. rest \in Seq(Int) /\ leaves \in Int
  BY <1>1, <1>2
<1> HIDE DEF rest, leaves
<1>4. window \in Seq(Int) /\ Len(window) \in Nat \ {0}
  BY <1>3
<1>5. running \in Int
  BY <1>1, <1>3
<1> HIDE DEF window, running
<1>6. y \in Int
  BY <1>4, <1>5
<1> HIDE DEF y
<1>7. Append(acc.out, y) \in Seq(Int)
  BY <1>1, <1>6
<1>8. SmaNext(period, acc, x) = [window |-> window, running |-> running, out |-> Append(acc.out, y)]
  BY DEF SmaNext, y, running, window, rest, leaves
<1>9. SmaNext(period, acc, x) \in SmaStates
  BY <1>4, <1>5, <1>7, <1>8 DEF SmaStates
<1>10. SmaNext(period, acc, x).out = Append(acc.out, y)
  BY <1>8
<1> QED BY <1>6, <1>9, <1>10

IsSmaLog(f, source, period) ==
  /\ f \in [0..Len(source) -> SmaStates]
  /\ f[0] = SmaBase
  /\ \A k \in 1..Len(source) : f[k] = SmaNext(period, f[k - 1], source[k])
  /\ Sma(source, period) = f[Len(source)].out

LEMMA SmaUnroll ==
  ASSUME NEW source \in Seq(Int), NEW period \in Nat \ {0}
  PROVE  \E f : IsSmaLog(f, source, period)
<1> DEFINE n == Len(source)
           D == SmaStates
           base == SmaBase
           g == [k \in 1..n |-> [o \in D |-> SmaNext(period, o, source[k])]]
           R(it) == it = [S \in SUBSET (1..n) |->
                            IF S = {} THEN base
                            ELSE SmaNext(period, it[S \ {Max(S)}], source[Max(S)])]
           t == CHOOSE it : R(it)
           f == [k \in 0..n |-> t[1..k]]
<1>1. /\ n \in Nat /\ DOMAIN source = 1..n /\ base \in D
      /\ \A k \in 1..n : source[k] \in Int
  BY DEF SmaStates, SmaBase
<1>2. \A o \in D : \A k \in 1..n : SmaNext(period, o, source[k]) \in D
  BY <1>1, SmaNextIsState
<1>3. Sma(source, period) = t[1..n].out
  <2>1. Sma(source, period)
          = FoldLeft(LAMBDA acc, x : SmaNext(period, acc, x), base, source).out
    BY DEF Sma, SmaBase
  <2> HIDE DEF base
  <2> QED BY <1>1, <2>1 DEF FoldLeft, MapThenFoldSet
<1> HIDE DEF n, base, D
<1>4. g \in [1..n -> [D -> D]]
  BY <1>2
<1>5. \A o \in D : \A k \in 1..n : g[k][o] = SmaNext(period, o, source[k])
  OBVIOUS
<1> HIDE DEF g, t
<1>6. R(t)
  <2>1. PICK it : IsFold(it, n, D, base, g)
    BY <1>1, <1>4, FoldExists
  <2>2. /\ it \in [SUBSET (1..n) -> D]
        /\ \A S \in SUBSET (1..n) :
             it[S] = IF S = {} THEN base ELSE g[Max(S)][it[S \ {Max(S)}]]
    BY <2>1 DEF IsFold
  <2>3. ASSUME NEW S \in SUBSET (1..n), S # {}
        PROVE  it[S] = SmaNext(period, it[S \ {Max(S)}], source[Max(S)])
    <3>1. Max(S) \in 1..n
      BY <1>1, <2>3, FoldPlaces
    <3>2. it[S \ {Max(S)}] \in D
      BY <2>2
    <3> QED BY <1>5, <2>2, <2>3, <3>1, <3>2
  <2>4. R(it)
    BY <2>2, <2>3
  <2> QED BY <2>4 DEF t
<1>7. t[{}] = base
  BY <1>6
<1>8. ASSUME NEW k \in 1..n, t[1..(k - 1)] \in D
      PROVE  t[1..k] = g[k][t[1..(k - 1)]]
  <2>1. Max(1..k) = k /\ (1..k) \ {k} = 1..(k - 1) /\ 1..k # {}
    <3>1. k \in Nat \ {0}
      BY <1>1
    <3> QED BY <3>1, PrefixMax
  <2>2. 1..k \in SUBSET (1..n)
    BY <1>1
  <2>3. t[1..k] = SmaNext(period, t[(1..k) \ {Max(1..k)}], source[Max(1..k)])
    BY <1>6, <2>1, <2>2
  <2> HIDE DEF R
  <2> QED BY <1>5, <1>8, <2>1, <2>3
<1> HIDE DEF R
<1>9. IsRecursion(f, n, D, base, g)
  <2>1. \A k \in 1..n : t[1..(k - 1)] \in D => t[1..k] = g[k][t[1..(k - 1)]]
    BY <1>8
  <2>2. n \in Nat /\ base \in D
    BY <1>1
  <2> HIDE DEF f
  <2>3. IsRecursion([k \in 0..n |-> t[1..k]], n, D, base, g)
    BY <1>4, <1>7, <2>1, <2>2, FoldIsRecursion
  <2> QED BY <2>3 DEF f
<1>10. f[n] = t[1..n]
  BY <1>1
<1> HIDE DEF f
<1>11. /\ f \in [0..n -> D] /\ f[0] = base
       /\ \A k \in 1..n : f[k] = SmaNext(period, f[k - 1], source[k])
  <2>1. f \in [0..n -> D] /\ f[0] = base /\ \A k \in 1..n : f[k] = g[k][f[k - 1]]
    BY <1>9 DEF IsRecursion
  <2>2. \A k \in 1..n : f[k - 1] \in D
    BY <1>1, <2>1
  <2> QED BY <1>5, <2>1, <2>2
<1> QED BY <1>3, <1>10, <1>11 DEF IsSmaLog, n, D, base

\* A series has a value for every candle.
IsSeries(s, n) == s \in Seq(Int) /\ Len(s) = n

LEMMA SmaIsSeries ==
  ASSUME NEW source \in Seq(Int), NEW period \in Nat \ {0}
  PROVE  IsSeries(Sma(source, period), Len(source))
<1> DEFINE n == Len(source)
<1>1. PICK f : IsSmaLog(f, source, period)
  BY SmaUnroll
<1>2. /\ n \in Nat /\ f \in [0..n -> SmaStates] /\ f[0] = SmaBase
      /\ \A k \in 1..n : f[k] = SmaNext(period, f[k - 1], source[k])
      /\ \A k \in 1..n : source[k] \in Int
      /\ Sma(source, period) = f[n].out
  BY <1>1 DEF IsSmaLog
<1> DEFINE G == {k \in 0..n : Len(f[k].out) = k}
<1> HIDE DEF n
<1>3. 0 \in G
  BY <1>2 DEF SmaBase
<1>4. ASSUME NEW k \in 1..n, k - 1 \in G PROVE k \in G
  <2>1. k - 1 \in 0..n /\ k \in 0..n /\ k \in Nat /\ Len(f[k - 1].out) = k - 1
    BY <1>2, <1>4
  <2>1a. f[k - 1] \in SmaStates
    BY <1>2, <2>1
  <2> DEFINE acc == f[k - 1]
             x == source[k]
  <2>1b. acc \in SmaStates /\ x \in Int /\ f[k] = SmaNext(period, acc, x)
    BY <1>2, <2>1a
  <2> HIDE DEF acc, x
  <2>1c. \E y \in Int : SmaNext(period, acc, x).out = Append(acc.out, y)
    BY <2>1b, SmaNextIsState
  <2>2. PICK y \in Int : f[k].out = Append(f[k - 1].out, y)
    BY <2>1b, <2>1c DEF acc
  <2>3. f[k - 1].out \in Seq(Int)
    BY <2>1a DEF SmaStates
  <2>4. Len(f[k].out) = k
    BY <2>1, <2>2, <2>3
  <2> QED BY <2>1, <2>4
<1> HIDE DEF G
<1>5. \A k \in 0..n : k \in G
  BY <1>2, <1>3, <1>4, PrefixInduction
<1>6. n \in 0..n /\ f[n].out \in Seq(Int)
  BY <1>2 DEF SmaStates
<1> QED BY <1>2, <1>5, <1>6 DEF IsSeries, G, n

LEMMA SmaExtends ==
  ASSUME NEW now, NEW past, Extends(now, past), NEW period \in Nat \ {0}
  PROVE  Extends(Sma(now, period), Sma(past, period))
<1> DEFINE n == Len(past)
<1>1. /\ now \in Seq(Int) /\ past \in Seq(Int) /\ n \in Nat /\ Len(now) = n + 1
      /\ \A i \in 1..n : now[i] = past[i]
      /\ \A i \in 1..(n + 1) : now[i] \in Int
  BY DEF Extends
<1>2. PICK f : IsSmaLog(f, now, period)
  BY <1>1, SmaUnroll
<1>3. PICK h : IsSmaLog(h, past, period)
  BY <1>1, SmaUnroll
<1>4. /\ f \in [0..(n + 1) -> SmaStates] /\ f[0] = SmaBase
      /\ \A k \in 1..(n + 1) : f[k] = SmaNext(period, f[k - 1], now[k])
      /\ Sma(now, period) = f[n + 1].out
  BY <1>1, <1>2 DEF IsSmaLog
<1>5. /\ h[0] = SmaBase
      /\ \A k \in 1..n : h[k] = SmaNext(period, h[k - 1], past[k])
      /\ Sma(past, period) = h[n].out
  BY <1>3 DEF IsSmaLog
<1> DEFINE G == {k \in 0..n : f[k] = h[k]}
<1> HIDE DEF n
<1>6. 0 \in G
  BY <1>1, <1>4, <1>5
<1>7. ASSUME NEW k \in 1..n, k - 1 \in G PROVE k \in G
  <2>1. k \in 1..(n + 1) /\ k \in 0..n /\ f[k - 1] = h[k - 1] /\ now[k] = past[k]
    BY <1>1, <1>7
  <2> QED BY <1>4, <1>5, <2>1
<1> HIDE DEF G
<1>8. \A k \in 0..n : k \in G
  BY <1>1, <1>6, <1>7, PrefixInduction
<1>9. f[n] = h[n]
  BY <1>1, <1>8 DEF G
<1>10. n + 1 \in 1..(n + 1) /\ (n + 1) - 1 = n /\ n \in 0..(n + 1)
  BY <1>1
<1>11. f[n + 1] = SmaNext(period, f[n], now[n + 1]) /\ f[n] \in SmaStates /\ now[n + 1] \in Int
  BY <1>1, <1>4, <1>10
<1>12. PICK y \in Int : f[n + 1].out = Append(f[n].out, y)
  <2> DEFINE acc == f[n]
             x == now[n + 1]
  <2>1. acc \in SmaStates /\ x \in Int /\ f[n + 1] = SmaNext(period, acc, x)
    BY <1>11
  <2> HIDE DEF acc, x
  <2>2. \E y \in Int : SmaNext(period, acc, x).out = Append(acc.out, y)
    BY <2>1, SmaNextIsState
  <2> QED BY <2>1, <2>2 DEF acc
<1>13. Sma(now, period) = Append(Sma(past, period), y)
  BY <1>4, <1>5, <1>9, <1>12
<1>14. Sma(past, period) \in Seq(Int) /\ Len(Sma(past, period)) = n
  BY <1>1, SmaIsSeries DEF IsSeries, n
<1> QED BY <1>13, <1>14 DEF Extends

-----------------------------------------------------------------------------

EmaStates == {out \in Seq(Int) : out # <<>>}

LEMMA EmaNextIsState ==
  ASSUME NEW period \in Nat \ {0}, NEW out \in EmaStates, NEW x \in Int
  PROVE  /\ EmaNext(period, out, x) \in EmaStates
         /\ Len(EmaNext(period, out, x)) = Len(out) + 1
         /\ \A i \in 1..Len(out) : EmaNext(period, out, x)[i] = out[i]
<1> DEFINE u == (period - 1) * Last(out)
           y == (2 * x + u) \div (period + 1)
<1>1. out \in Seq(Int) /\ Len(out) \in Nat \ {0} /\ out[Len(out)] \in Int
  BY DEF EmaStates
<1>2. u \in Int
  BY <1>1 DEF Last
<1> HIDE DEF u
<1>3. y \in Int
  BY <1>2
<1> HIDE DEF y
<1>4. EmaNext(period, out, x) = Append(out, y)
  BY DEF EmaNext, y, u
<1> QED BY <1>1, <1>3, <1>4 DEF EmaStates

IsEmaLog(f, source, period) ==
  /\ f \in [0..(Len(source) - 1) -> EmaStates]
  /\ f[0] = <<source[1]>>
  /\ \A k \in 1..(Len(source) - 1) : f[k] = EmaNext(period, f[k - 1], source[k + 1])
  /\ Ema(source, period) = f[Len(source) - 1]

LEMMA EmaUnroll ==
  ASSUME NEW source \in Seq(Int), source # <<>>, NEW period \in Nat \ {0}
  PROVE  \E f : IsEmaLog(f, source, period)
<1> DEFINE tail == Tail(source)
           n == Len(tail)
           D == EmaStates
           base == <<source[1]>>
           g == [k \in 1..n |-> [o \in D |-> EmaNext(period, o, tail[k])]]
           R(it) == it = [S \in SUBSET (1..n) |->
                            IF S = {} THEN base
                            ELSE EmaNext(period, it[S \ {Max(S)}], tail[Max(S)])]
           t == CHOOSE it : R(it)
           f == [k \in 0..n |-> t[1..k]]
<1>1. /\ n \in Nat /\ n = Len(source) - 1 /\ DOMAIN tail = 1..n /\ base \in D
      /\ \A k \in 1..n : tail[k] \in Int /\ tail[k] = source[k + 1]
  <2>1. n \in Nat /\ n = Len(source) - 1 /\ DOMAIN tail = 1..n
    OBVIOUS
  <2>2. source[1] \in Int
    OBVIOUS
  <2>3. \A k \in 1..n : tail[k] \in Int /\ tail[k] = source[k + 1]
    OBVIOUS
  <2> QED BY <2>1, <2>2, <2>3 DEF EmaStates
<1>2. \A o \in D : \A k \in 1..n : EmaNext(period, o, tail[k]) \in D
  BY <1>1, EmaNextIsState
<1>3. Ema(source, period) = t[1..n]
  <2>1. Ema(source, period) = FoldLeft(LAMBDA out, x : EmaNext(period, out, x), base, tail)
    BY DEF Ema
  <2> HIDE DEF base, tail
  <2> QED BY <1>1, <2>1 DEF FoldLeft, MapThenFoldSet
<1> HIDE DEF tail, n, base, D
<1>4. g \in [1..n -> [D -> D]]
  BY <1>2
<1>5. \A o \in D : \A k \in 1..n : g[k][o] = EmaNext(period, o, tail[k])
  OBVIOUS
<1> HIDE DEF g, t
<1>6. R(t)
  <2>1. PICK it : IsFold(it, n, D, base, g)
    BY <1>1, <1>4, FoldExists
  <2>2. /\ it \in [SUBSET (1..n) -> D]
        /\ \A S \in SUBSET (1..n) :
             it[S] = IF S = {} THEN base ELSE g[Max(S)][it[S \ {Max(S)}]]
    BY <2>1 DEF IsFold
  <2>3. ASSUME NEW S \in SUBSET (1..n), S # {}
        PROVE  it[S] = EmaNext(period, it[S \ {Max(S)}], tail[Max(S)])
    <3>1. Max(S) \in 1..n
      BY <1>1, <2>3, FoldPlaces
    <3>2. it[S \ {Max(S)}] \in D
      BY <2>2
    <3> QED BY <1>5, <2>2, <2>3, <3>1, <3>2
  <2>4. R(it)
    BY <2>2, <2>3
  <2> QED BY <2>4 DEF t
<1>7. t[{}] = base
  BY <1>6
<1>8. ASSUME NEW k \in 1..n, t[1..(k - 1)] \in D
      PROVE  t[1..k] = g[k][t[1..(k - 1)]]
  <2>1. Max(1..k) = k /\ (1..k) \ {k} = 1..(k - 1) /\ 1..k # {}
    <3>1. k \in Nat \ {0}
      BY <1>1
    <3> QED BY <3>1, PrefixMax
  <2>2. 1..k \in SUBSET (1..n)
    BY <1>1
  <2>3. t[1..k] = EmaNext(period, t[(1..k) \ {Max(1..k)}], tail[Max(1..k)])
    BY <1>6, <2>1, <2>2
  <2> HIDE DEF R
  <2> QED BY <1>5, <1>8, <2>1, <2>3
<1> HIDE DEF R
<1>9. IsRecursion(f, n, D, base, g)
  <2>1. \A k \in 1..n : t[1..(k - 1)] \in D => t[1..k] = g[k][t[1..(k - 1)]]
    BY <1>8
  <2>2. n \in Nat /\ base \in D
    BY <1>1
  <2> HIDE DEF f
  <2>3. IsRecursion([k \in 0..n |-> t[1..k]], n, D, base, g)
    BY <1>4, <1>7, <2>1, <2>2, FoldIsRecursion
  <2> QED BY <2>3 DEF f
<1>10. f[n] = t[1..n]
  BY <1>1
<1> HIDE DEF f
<1>11. /\ f \in [0..n -> D] /\ f[0] = base
       /\ \A k \in 1..n : f[k] = EmaNext(period, f[k - 1], tail[k])
  <2>1. f \in [0..n -> D] /\ f[0] = base /\ \A k \in 1..n : f[k] = g[k][f[k - 1]]
    BY <1>9 DEF IsRecursion
  <2>2. \A k \in 1..n : k - 1 \in 0..n
    BY <1>1
  <2>3. \A k \in 1..n : f[k - 1] \in D
    BY <2>1, <2>2
  <2> QED BY <1>5, <2>1, <2>3
<1>12. \A k \in 1..(Len(source) - 1) : f[k] = EmaNext(period, f[k - 1], source[k + 1])
  BY <1>1, <1>11
<1>13. /\ f \in [0..(Len(source) - 1) -> D] /\ f[0] = base
       /\ Ema(source, period) = f[Len(source) - 1]
  BY <1>1, <1>3, <1>10, <1>11
<1> QED BY <1>12, <1>13 DEF IsEmaLog, base, D

LEMMA EmaIsSeries ==
  ASSUME NEW source \in Seq(Int), NEW period \in Nat \ {0}
  PROVE  IsSeries(Ema(source, period), Len(source))
<1>1. CASE source = <<>>
  BY <1>1 DEF Ema, IsSeries
<1>2. CASE source # <<>>
  <2> DEFINE n == Len(source) - 1
  <2>1. PICK f : IsEmaLog(f, source, period)
    BY <1>2, EmaUnroll
  <2>2. /\ n \in Nat /\ f \in [0..n -> EmaStates] /\ f[0] = <<source[1]>>
        /\ \A k \in 1..n : f[k] = EmaNext(period, f[k - 1], source[k + 1])
        /\ \A k \in 1..n : source[k + 1] \in Int
        /\ Ema(source, period) = f[n] /\ Len(source) = n + 1
    BY <1>2, <2>1 DEF IsEmaLog
  <2> DEFINE G == {k \in 0..n : Len(f[k]) = k + 1}
  <2> HIDE DEF n
  <2>3. 0 \in G
    <3>1. Len(f[0]) = 1 /\ 0 \in 0..n
      BY <2>2
    <3> QED BY <3>1
  <2>4. ASSUME NEW k \in 1..n, k - 1 \in G PROVE k \in G
    <3>1. f[k - 1] \in EmaStates /\ Len(f[k - 1]) = k /\ k \in 0..n
      BY <2>2, <2>4
    <3>2. Len(f[k]) = k + 1
      BY <2>2, <3>1, EmaNextIsState
    <3> QED BY <3>1, <3>2
  <2> HIDE DEF G
  <2>5. \A k \in 0..n : k \in G
    BY <2>2, <2>3, <2>4, PrefixInduction
  <2>6. Len(f[n]) = n + 1 /\ f[n] \in Seq(Int)
    BY <2>2, <2>5 DEF G, EmaStates
  <2> QED BY <2>2, <2>6 DEF IsSeries
<1> QED BY <1>1, <1>2

LEMMA EmaExtends ==
  ASSUME NEW now, NEW past, Extends(now, past), NEW period \in Nat \ {0}
  PROVE  Extends(Ema(now, period), Ema(past, period))
<1>1. /\ now \in Seq(Int) /\ past \in Seq(Int) /\ Len(past) \in Nat
      /\ Len(now) = Len(past) + 1 /\ now # <<>>
      /\ \A i \in 1..Len(past) : now[i] = past[i]
  BY DEF Extends
<1>2. /\ Ema(now, period) \in Seq(Int) /\ Ema(past, period) \in Seq(Int)
      /\ Len(Ema(now, period)) = Len(past) + 1 /\ Len(Ema(past, period)) = Len(past)
  BY <1>1, EmaIsSeries DEF IsSeries
<1>3. CASE past = <<>>
  <2>1. Len(Ema(past, period)) = 0 /\ Len(past) = 0
    BY <1>2, <1>3
  <2>2. 1..0 = {}
    OBVIOUS
  <2> QED BY <1>2, <2>1, <2>2 DEF Extends
<1>4. CASE past # <<>>
  <2> DEFINE n == Len(past) - 1
  <2>1. PICK f : IsEmaLog(f, now, period)
    BY <1>1, EmaUnroll
  <2>2. PICK h : IsEmaLog(h, past, period)
    BY <1>1, <1>4, EmaUnroll
  <2>3. /\ n \in Nat /\ Len(now) - 1 = n + 1 /\ Len(past) = n + 1
        /\ now[1] = past[1]
        /\ \A i \in 1..n : now[i + 1] = past[i + 1]
        /\ now[n + 2] \in Int
    BY <1>1, <1>4
  <2>4. /\ f \in [0..(n + 1) -> EmaStates] /\ f[0] = <<now[1]>>
        /\ \A k \in 1..(n + 1) : f[k] = EmaNext(period, f[k - 1], now[k + 1])
        /\ Ema(now, period) = f[n + 1]
    BY <2>1, <2>3 DEF IsEmaLog
  <2>5. /\ h[0] = <<past[1]>>
        /\ \A k \in 1..n : h[k] = EmaNext(period, h[k - 1], past[k + 1])
        /\ Ema(past, period) = h[n]
    BY <2>2 DEF IsEmaLog
  <2> DEFINE G == {k \in 0..n : f[k] = h[k]}
  <2> HIDE DEF n
  <2>6. 0 \in G
    <3>1. f[0] = h[0] /\ 0 \in 0..n
      BY <2>3, <2>4, <2>5
    <3> QED BY <3>1
  <2>7. ASSUME NEW k \in 1..n, k - 1 \in G PROVE k \in G
    <3>1. k \in 1..(n + 1) /\ k \in 0..n /\ f[k - 1] = h[k - 1] /\ now[k + 1] = past[k + 1]
      BY <2>3, <2>7
    <3> QED BY <2>4, <2>5, <3>1
  <2> HIDE DEF G
  <2>8. \A k \in 0..n : k \in G
    BY <2>3, <2>6, <2>7, PrefixInduction
  <2>9. f[n] = h[n]
    BY <2>3, <2>8 DEF G
  <2>10. /\ n + 1 \in 1..(n + 1) /\ (n + 1) - 1 = n /\ (n + 1) + 1 = n + 2
         /\ f[n] \in EmaStates
    BY <2>3, <2>4
  <2>11. f[n + 1] = EmaNext(period, f[n], now[n + 2])
    BY <2>4, <2>10
  <2>12. \A i \in 1..Len(f[n]) : f[n + 1][i] = f[n][i]
    <3> DEFINE out == f[n]
               x == now[n + 2]
    <3>1. out \in EmaStates /\ x \in Int /\ f[n + 1] = EmaNext(period, out, x)
      BY <2>3, <2>10, <2>11
    <3> HIDE DEF out, x
    <3>2. \A i \in 1..Len(out) : EmaNext(period, out, x)[i] = out[i]
      BY <3>1, EmaNextIsState
    <3>3. \A i \in 1..Len(out) : f[n + 1][i] = out[i]
      BY <3>1, <3>2
    <3> QED BY <3>3 DEF out
  <2> QED BY <1>2, <2>4, <2>5, <2>9, <2>12 DEF Extends
<1> QED BY <1>3, <1>4

-----------------------------------------------------------------------------

GainsOf(source, first, last) ==
  [k \in 1..(last - first + 1) |-> Gain(source, first + k - 1)]
LossesOf(source, first, last) ==
  [k \in 1..(last - first + 1) |-> Loss(source, first + k - 1)]

LEMMA MovesAreNumbers ==
  ASSUME NEW source \in Seq(Int), NEW first \in Int, NEW last \in Int,
         2 <= first, first <= last, last <= Len(source)
  PROVE  /\ GainsOf(source, first, last) \in Seq(Int)
         /\ LossesOf(source, first, last) \in Seq(Int)
         /\ Total(GainsOf(source, first, last)) \in Nat
         /\ Total(LossesOf(source, first, last)) \in Nat
<1> DEFINE m == last - first + 1
           gains == GainsOf(source, first, last)
           losses == LossesOf(source, first, last)
<1>1. m \in Nat /\ DOMAIN gains = 1..m /\ DOMAIN losses = 1..m
  BY DEF GainsOf, LossesOf
<1>2. \A k \in 1..m : /\ gains[k] = Gain(source, first + k - 1)
                      /\ losses[k] = Loss(source, first + k - 1)
                      /\ first + k - 1 \in 2..Len(source)
  BY DEF GainsOf, LossesOf
<1>3. \A j \in 2..Len(source) : Gain(source, j) \in Nat /\ Loss(source, j) \in Nat
  <2> SUFFICES ASSUME NEW j \in 2..Len(source)
               PROVE  Gain(source, j) \in Nat /\ Loss(source, j) \in Nat
    OBVIOUS
  <2>1. source[j] \in Int /\ source[j - 1] \in Int
    OBVIOUS
  <2> QED BY <2>1 DEF Gain, Loss, Larger
<1>4. \A k \in 1..m : gains[k] \in Nat /\ losses[k] \in Nat
  BY <1>2, <1>3
<1>5. gains = [k \in 1..m |-> gains[k]] /\ losses = [k \in 1..m |-> losses[k]]
  BY DEF GainsOf, LossesOf
<1> HIDE DEF m, gains, losses
<1>6. gains \in [1..m -> Int] /\ losses \in [1..m -> Int]
  BY <1>4, <1>5
<1>7. gains \in Seq(Int) /\ losses \in Seq(Int) /\ Len(gains) = m /\ Len(losses) = m
  BY <1>1, <1>6
<1>8. \A k \in 1..Len(gains) : gains[k] >= 0
  BY <1>4, <1>7
<1>9. \A k \in 1..Len(losses) : losses[k] >= 0
  BY <1>4, <1>7
<1>10. Total(gains) \in Nat /\ Total(losses) \in Nat
  BY <1>7, <1>8, <1>9, TotalIsNat
<1> QED BY <1>7, <1>10 DEF gains, losses

LEMMA RsiOfMovesIs ==
  ASSUME NEW source, NEW first, NEW last
  PROVE  LET gains  == Total(GainsOf(source, first, last))
             losses == Total(LossesOf(source, first, last))
         IN  RsiOfMoves(source, first, last) =
               IF losses = 0 THEN (IF gains > 0 THEN 100 ELSE 50) * Scale
               ELSE (100 * Scale * gains) \div (gains + losses)
BY DEF RsiOfMoves, GainsOf, LossesOf

LEMMA RsiOfMovesIsInt ==
  ASSUME NEW source \in Seq(Int), NEW first \in Int, NEW last \in Int,
         2 <= first, first <= last, last <= Len(source)
  PROVE  RsiOfMoves(source, first, last) \in Int
<1> DEFINE gains  == Total(GainsOf(source, first, last))
           losses == Total(LossesOf(source, first, last))
<1>1. gains \in Nat /\ losses \in Nat
  BY MovesAreNumbers
<1>2. RsiOfMoves(source, first, last) =
        IF losses = 0 THEN (IF gains > 0 THEN 100 ELSE 50) * Scale
        ELSE (100 * Scale * gains) \div (gains + losses)
  BY RsiOfMovesIs
<1> HIDE DEF gains, losses
<1>3. losses # 0 => (100 * Scale * gains) \div (gains + losses) \in Int
  <2> DEFINE x == 100 * Scale * gains
             d == gains + losses
  <2>1. x \in Int /\ (losses # 0 => d \in Nat \ {0})
    BY <1>1 DEF Scale
  <2> HIDE DEF x, d
  <2>2. losses # 0 => x \div d \in Int
    BY <2>1
  <2> QED BY <2>2 DEF x, d
<1> QED BY <1>2, <1>3 DEF Scale

\* The index of moves depends on the values they are between.
LEMMA MovesAgree ==
  ASSUME NEW now, NEW past, NEW n \in Nat, \A i \in 1..n : now[i] = past[i],
         NEW first \in Int, NEW last \in Int, 2 <= first, first <= last, last <= n
  PROVE  RsiOfMoves(now, first, last) = RsiOfMoves(past, first, last)
<1>1. \A k \in 1..(last - first + 1) :
        first + k - 1 \in 1..n /\ (first + k - 1) - 1 \in 1..n
  OBVIOUS
<1>2. \A k \in 1..(last - first + 1) :
        /\ Gain(now, first + k - 1) = Gain(past, first + k - 1)
        /\ Loss(now, first + k - 1) = Loss(past, first + k - 1)
  BY <1>1 DEF Gain, Loss
<1>3. /\ GainsOf(now, first, last) = GainsOf(past, first, last)
      /\ LossesOf(now, first, last) = LossesOf(past, first, last)
  BY <1>2 DEF GainsOf, LossesOf
<1> QED BY <1>3, RsiOfMovesIs

LEMMA RsiIsSeries ==
  ASSUME NEW source \in Seq(Int), NEW period \in Nat \ {0}
  PROVE  IsSeries(Rsi(source, period), Len(source))
<1> DEFINE n == Len(source)
           r == Rsi(source, period)
<1>1. n \in Nat /\ DOMAIN source = 1..n
  OBVIOUS
<1>2. /\ r = [i \in 1..n |-> r[i]]
      /\ \A i \in 1..n : r[i] = IF i = 1 THEN 50 * Scale
                                ELSE RsiOfMoves(source, Larger(2, i - period + 1), i)
  BY <1>1 DEF Rsi
<1>3. \A i \in 1..n : r[i] \in Int
  <2> SUFFICES ASSUME NEW i \in 1..n PROVE r[i] \in Int
    OBVIOUS
  <2>1. CASE i = 1
    BY <1>2, <2>1 DEF Scale
  <2>2. CASE i # 1
    <3> DEFINE first == Larger(2, i - period + 1)
    <3>1. first \in Int /\ 2 <= first /\ first <= i /\ i <= n /\ i \in Int
      BY <2>2 DEF Larger
    <3>2. r[i] = RsiOfMoves(source, first, i)
      BY <1>2, <2>2
    <3> HIDE DEF first, r
    <3> QED BY <3>1, <3>2, RsiOfMovesIsInt
  <2> QED BY <2>1, <2>2
<1> HIDE DEF r
<1>4. r \in [1..n -> Int]
  BY <1>2, <1>3
<1>5. r \in Seq(Int) /\ Len(r) = n
  BY <1>1, <1>4
<1> QED BY <1>5 DEF IsSeries, r

LEMMA RsiExtends ==
  ASSUME NEW now, NEW past, Extends(now, past), NEW period \in Nat \ {0}
  PROVE  Extends(Rsi(now, period), Rsi(past, period))
<1> DEFINE n == Len(past)
<1>1. /\ now \in Seq(Int) /\ past \in Seq(Int) /\ n \in Nat /\ Len(now) = n + 1
      /\ \A i \in 1..n : now[i] = past[i]
  BY DEF Extends
<1>2. /\ Rsi(now, period) \in Seq(Int) /\ Len(Rsi(now, period)) = n + 1
      /\ Rsi(past, period) \in Seq(Int) /\ Len(Rsi(past, period)) = n
  BY <1>1, RsiIsSeries DEF IsSeries
<1>3. ASSUME NEW i \in 1..n PROVE Rsi(now, period)[i] = Rsi(past, period)[i]
  <2> DEFINE first == Larger(2, i - period + 1)
  <2>1. i \in DOMAIN now /\ i \in DOMAIN past
    BY <1>1
  <2>2. /\ Rsi(now, period)[i] = IF i = 1 THEN 50 * Scale ELSE RsiOfMoves(now, first, i)
        /\ Rsi(past, period)[i] = IF i = 1 THEN 50 * Scale ELSE RsiOfMoves(past, first, i)
    BY <2>1 DEF Rsi
  <2>3. i # 1 => first \in Int /\ 2 <= first /\ first <= i /\ i <= n /\ i \in Int
    BY <1>1 DEF Larger
  <2> HIDE DEF first
  <2>4. i # 1 => RsiOfMoves(now, first, i) = RsiOfMoves(past, first, i)
    BY <1>1, <2>3, MovesAgree
  <2> QED BY <2>2, <2>4
<1> QED BY <1>2, <1>3 DEF Extends

-----------------------------------------------------------------------------

LEMMA ShiftIsSeries ==
  ASSUME NEW source \in Seq(Int), NEW n \in Nat
  PROVE  IsSeries(Shift(source, n), Len(source))
<1> DEFINE r == Shift(source, n)
           m == Len(source)
<1>1. m \in Nat /\ DOMAIN source = 1..m
  OBVIOUS
<1>2. \A i \in 1..m : Larger(1, i - n) \in 1..m
  BY <1>1 DEF Larger
<1>3. r \in [1..m -> Int]
  BY <1>1, <1>2 DEF Shift
<1> HIDE DEF r
<1>4. r \in Seq(Int) /\ Len(r) = m
  BY <1>1, <1>3
<1> QED BY <1>4 DEF IsSeries, r

LEMMA ShiftExtends ==
  ASSUME NEW now, NEW past, Extends(now, past), NEW n \in Nat
  PROVE  Extends(Shift(now, n), Shift(past, n))
<1> DEFINE m == Len(past)
<1>1. /\ now \in Seq(Int) /\ past \in Seq(Int) /\ m \in Nat /\ Len(now) = m + 1
      /\ \A i \in 1..m : now[i] = past[i]
  BY DEF Extends
<1>2. /\ Shift(now, n) \in Seq(Int) /\ Len(Shift(now, n)) = m + 1
      /\ Shift(past, n) \in Seq(Int) /\ Len(Shift(past, n)) = m
  BY <1>1, ShiftIsSeries DEF IsSeries
<1>3. ASSUME NEW i \in 1..m PROVE Shift(now, n)[i] = Shift(past, n)[i]
  <2>1. i \in DOMAIN now /\ i \in DOMAIN past /\ Larger(1, i - n) \in 1..m
    BY <1>1 DEF Larger
  <2> QED BY <1>1, <2>1 DEF Shift
<1> QED BY <1>2, <1>3 DEF Extends

LEMMA DiffIsSeries ==
  ASSUME NEW a \in Seq(Int), NEW b \in Seq(Int), Len(a) = Len(b)
  PROVE  /\ IsSeries(Diff(a, b), Len(a))
         /\ \A i \in 1..Len(a) : Diff(a, b)[i] = a[i] - b[i]
<1> DEFINE r == Diff(a, b)
           m == Len(a)
<1>1. m \in Nat /\ DOMAIN a = 1..m /\ DOMAIN b = 1..m
  OBVIOUS
<1>2. Min({Len(a), Len(b)}) = m
  <2>1. \A x \in Int : Min({x, x}) = x
    BY PairMaxMin
  <2> QED BY <1>1, <2>1
<1>3. r = [i \in 1..m |-> a[i] - b[i]]
  BY <1>2 DEF Diff
<1>4. \A i \in 1..m : a[i] - b[i] \in Int
  BY <1>1
<1> HIDE DEF r
<1>5. r \in [1..m -> Int]
  BY <1>3, <1>4
<1>6. r \in Seq(Int) /\ Len(r) = m
  BY <1>1, <1>5
<1> QED BY <1>3, <1>6 DEF IsSeries, r

LEMMA DiffExtends ==
  ASSUME NEW now, NEW past, Extends(now, past), NEW now2, NEW past2, Extends(now2, past2),
         Len(past) = Len(past2)
  PROVE  Extends(Diff(now, now2), Diff(past, past2))
<1> DEFINE m == Len(past)
<1>1. /\ now \in Seq(Int) /\ past \in Seq(Int) /\ m \in Nat /\ Len(now) = m + 1
      /\ now2 \in Seq(Int) /\ past2 \in Seq(Int) /\ Len(now2) = m + 1 /\ Len(past2) = m
      /\ \A i \in 1..m : now[i] = past[i] /\ now2[i] = past2[i]
  BY DEF Extends
<1> HIDE DEF m
<1>2a. /\ Diff(now, now2) \in Seq(Int) /\ Len(Diff(now, now2)) = m + 1
       /\ \A i \in 1..(m + 1) : Diff(now, now2)[i] = now[i] - now2[i]
  <2>1. Len(now) = m + 1 /\ Len(now2) = m + 1
    BY <1>1
  <2>2. IsSeries(Diff(now, now2), Len(now)) /\ \A i \in 1..Len(now) : Diff(now, now2)[i] = now[i] - now2[i]
    BY <1>1, <2>1, DiffIsSeries
  <2> QED BY <2>1, <2>2 DEF IsSeries
<1>2b. /\ Diff(past, past2) \in Seq(Int) /\ Len(Diff(past, past2)) = m
       /\ \A i \in 1..m : Diff(past, past2)[i] = past[i] - past2[i]
  <2>1. Len(past) = m /\ Len(past2) = m
    BY <1>1 DEF m
  <2>2. /\ IsSeries(Diff(past, past2), Len(past))
        /\ \A i \in 1..Len(past) : Diff(past, past2)[i] = past[i] - past2[i]
    BY <1>1, <2>1, DiffIsSeries
  <2> QED BY <2>1, <2>2 DEF IsSeries
<1>3. \A i \in 1..m : i \in 1..(m + 1)
  BY <1>1
<1> QED BY <1>1, <1>2a, <1>2b, <1>3 DEF Extends, m

-----------------------------------------------------------------------------

\* The series of some nodes, and those that were there one candle before.
Grows(u, v, n) ==
  /\ DOMAIN u = DOMAIN v
  /\ \A id \in DOMAIN v : Extends(u[id], v[id]) /\ Len(v[id]) = n

LEMMA ApplyExtends ==
  ASSUME NEW node, SoundNode(node), NEW n \in Nat, NEW u, NEW v, Grows(u, v, n),
         Inputs(node) \subseteq DOMAIN v
  PROVE  Extends(Apply(node, u), Apply(node, v)) /\ Len(Apply(node, v)) = n
<1>1. CASE node.fn = "diff"
  <2>1. node.a \in DOMAIN v /\ node.b \in DOMAIN v
    BY <1>1 DEF Inputs
  <2> DEFINE now == u[node.a]
             now2 == u[node.b]
             past == v[node.a]
             past2 == v[node.b]
  <2>2. Extends(now, past) /\ Extends(now2, past2) /\ Len(past) = n /\ Len(past2) = n
    BY <2>1 DEF Grows
  <2>3. Apply(node, u) = Diff(now, now2) /\ Apply(node, v) = Diff(past, past2)
    BY <1>1 DEF Apply
  <2> HIDE DEF now, now2, past, past2
  <2>4. past \in Seq(Int) /\ past2 \in Seq(Int) /\ Len(past) = Len(past2)
    BY <2>2 DEF Extends
  <2>5. Extends(Diff(now, now2), Diff(past, past2))
    BY <2>2, <2>4, DiffExtends
  <2>6. Len(Diff(past, past2)) = n
    BY <2>2, <2>4, DiffIsSeries DEF IsSeries
  <2> QED BY <2>3, <2>5, <2>6
<1>2. CASE node.fn # "diff"
  <2>1. node.source \in DOMAIN v
    BY <1>2 DEF Inputs
  <2> DEFINE now == u[node.source]
             past == v[node.source]
  <2>2. Extends(now, past) /\ Len(past) = n
    BY <2>1 DEF Grows
  <2>3. past \in Seq(Int)
    BY <2>2 DEF Extends
  <2>4. CASE node.fn = "sma"
    <3> DEFINE period == node.period
    <3>1. period \in Nat \ {0}
      BY <2>4 DEF SoundNode
    <3>2. Apply(node, u) = Sma(now, period) /\ Apply(node, v) = Sma(past, period)
      BY <2>4 DEF Apply
    <3> HIDE DEF now, past, period
    <3> QED BY <2>2, <2>3, <3>1, <3>2, SmaExtends, SmaIsSeries DEF IsSeries
  <2>5. CASE node.fn = "ema"
    <3> DEFINE period == node.period
    <3>1. period \in Nat \ {0}
      BY <2>5 DEF SoundNode
    <3>2. Apply(node, u) = Ema(now, period) /\ Apply(node, v) = Ema(past, period)
      BY <2>5 DEF Apply
    <3> HIDE DEF now, past, period
    <3> QED BY <2>2, <2>3, <3>1, <3>2, EmaExtends, EmaIsSeries DEF IsSeries
  <2>6. CASE node.fn = "rsi"
    <3> DEFINE period == node.period
    <3>1. period \in Nat \ {0}
      BY <2>6 DEF SoundNode
    <3>2. Apply(node, u) = Rsi(now, period) /\ Apply(node, v) = Rsi(past, period)
      BY <2>6 DEF Apply
    <3> HIDE DEF now, past, period
    <3> QED BY <2>2, <2>3, <3>1, <3>2, RsiExtends, RsiIsSeries DEF IsSeries
  <2>7. CASE node.fn = "shift"
    <3> DEFINE m == node.n
    <3>1. m \in Nat
      BY <2>7 DEF SoundNode
    <3>2. Apply(node, u) = Shift(now, m) /\ Apply(node, v) = Shift(past, m)
      BY <2>7 DEF Apply
    <3> HIDE DEF now, past, m
    <3> QED BY <2>2, <2>3, <3>1, <3>2, ShiftExtends, ShiftIsSeries DEF IsSeries
  <2> QED BY <1>2, <2>4, <2>5, <2>6, <2>7 DEF SoundNode
<1> QED BY <1>1, <1>2

LEMMA RoundGrows ==
  ASSUME NEW nodes, \A id \in DOMAIN nodes : SoundNode(nodes[id]),
         NEW n \in Nat, NEW u, NEW v, Grows(u, v, n)
  PROVE  Grows(Round(nodes, u), Round(nodes, v), n)
<1> DEFINE ready == {id \in DOMAIN nodes : Inputs(nodes[id]) \subseteq DOMAIN v}
           p == [id \in ready |-> Apply(nodes[id], u)]
           q == [id \in ready |-> Apply(nodes[id], v)]
<1>1. DOMAIN u = DOMAIN v
  BY DEF Grows
<1>2. Round(nodes, u) = Over(u, p) /\ Round(nodes, v) = Over(v, q)
  BY <1>1 DEF Round
<1>3. \A id \in ready : Extends(p[id], q[id]) /\ Len(q[id]) = n
  <2> SUFFICES ASSUME NEW id \in ready PROVE Extends(p[id], q[id]) /\ Len(q[id]) = n
    OBVIOUS
  <2> DEFINE node == nodes[id]
  <2>1. SoundNode(node) /\ Inputs(node) \subseteq DOMAIN v
    OBVIOUS
  <2>2. p[id] = Apply(node, u) /\ q[id] = Apply(node, v)
    OBVIOUS
  <2> HIDE DEF node, p, q, ready
  <2> QED BY <2>1, <2>2, ApplyExtends
<1>4. DOMAIN p = ready /\ DOMAIN q = ready
  OBVIOUS
<1> HIDE DEF p, q, ready
<1>5. /\ DOMAIN Over(u, p) = DOMAIN v \cup ready
      /\ DOMAIN Over(v, q) = DOMAIN v \cup ready
      /\ \A id \in DOMAIN v \cup ready :
           /\ Over(u, p)[id] = IF id \in DOMAIN v THEN u[id] ELSE p[id]
           /\ Over(v, q)[id] = IF id \in DOMAIN v THEN v[id] ELSE q[id]
  BY <1>1, <1>4 DEF Over
<1>6. \A id \in DOMAIN v \cup ready :
        /\ Extends(Over(u, p)[id], Over(v, q)[id])
        /\ Len(Over(v, q)[id]) = n
  <2> SUFFICES ASSUME NEW id \in DOMAIN v \cup ready
               PROVE  /\ Extends(Over(u, p)[id], Over(v, q)[id])
                      /\ Len(Over(v, q)[id]) = n
    OBVIOUS
  <2>1. CASE id \in DOMAIN v
    BY <1>5, <2>1 DEF Grows
  <2>2. CASE id \notin DOMAIN v
    BY <1>3, <1>5, <2>2
  <2> QED BY <2>1, <2>2
<1> QED BY <1>2, <1>5, <1>6 DEF Grows

-----------------------------------------------------------------------------

\* The series of some of the nodes, of n candles each.
SeriesStates(nodes, n) ==
  UNION {[S -> {s \in Seq(Int) : Len(s) = n}] : S \in SUBSET (DOMAIN nodes \cup {"price"})}
PriceOf(source) == [price |-> [i \in DOMAIN source |-> source[i] * Scale]]

LEMMA RoundIsState ==
  ASSUME NEW nodes, \A id \in DOMAIN nodes : SoundNode(nodes[id]),
         NEW n \in Nat, NEW v \in SeriesStates(nodes, n)
  PROVE  Round(nodes, v) \in SeriesStates(nodes, n)
<1> DEFINE ids == DOMAIN nodes \cup {"price"}
           T == {s \in Seq(Int) : Len(s) = n}
           u == [id \in DOMAIN v |-> Append(v[id], 0)]
           r == Round(nodes, v)
<1>1. PICK S \in SUBSET ids : v \in [S -> T]
  BY DEF SeriesStates
<1>2. Grows(u, v, n)
  <2>1. \A s \in T : Extends(Append(s, 0), s) /\ Len(s) = n
    BY DEF Extends
  <2>2. DOMAIN u = S /\ DOMAIN v = S /\ \A id \in S : v[id] \in T /\ u[id] = Append(v[id], 0)
    BY <1>1
  <2> HIDE DEF u, T
  <2>3. \A id \in S : Extends(u[id], v[id]) /\ Len(v[id]) = n
    BY <2>1, <2>2
  <2> QED BY <2>2, <2>3 DEF Grows
<1> HIDE DEF u
<1>3. Grows(Round(nodes, u), r, n)
  BY <1>2, RoundGrows
<1>4. DOMAIN r \in SUBSET ids /\ r = [id \in DOMAIN r |-> r[id]]
  BY <1>1 DEF Round, Over
<1> HIDE DEF r
<1>5. \A id \in DOMAIN r : r[id] \in T
  BY <1>3 DEF Grows, Extends
<1> HIDE DEF T
<1>6. r \in [DOMAIN r -> T]
  BY <1>4, <1>5
<1> QED BY <1>4, <1>6 DEF SeriesStates, r, T

IsRoundLog(f, nodes, source) ==
  /\ f \in [0..Cardinality(DOMAIN nodes) -> SeriesStates(nodes, Len(source))]
  /\ f[0] = PriceOf(source)
  /\ \A k \in 1..Cardinality(DOMAIN nodes) : f[k] = Round(nodes, f[k - 1])
  /\ Precompute(nodes, source) = f[Cardinality(DOMAIN nodes)]

LEMMA PrecomputeUnroll ==
  ASSUME NEW nodes, IsFiniteSet(DOMAIN nodes), \A id \in DOMAIN nodes : SoundNode(nodes[id]),
         NEW source \in Seq(Int)
  PROVE  \E f : IsRoundLog(f, nodes, source)
<1> DEFINE n == Cardinality(DOMAIN nodes)
           places == [k \in 1..n |-> k]
           D == SeriesStates(nodes, Len(source))
           base == PriceOf(source)
           g == [k \in 1..n |-> [o \in D |-> Round(nodes, o)]]
           R(it) == it = [S \in SUBSET (1..n) |->
                            IF S = {} THEN base
                            ELSE Round(nodes, it[S \ {Max(S)}])]
           t == CHOOSE it : R(it)
           f == [k \in 0..n |-> t[1..k]]
<1>1. n \in Nat
  BY FS_CardinalityType
<1>2. base \in D
  <2> DEFINE m == Len(source)
             T == {s \in Seq(Int) : Len(s) = m}
             p == [i \in 1..m |-> source[i] * Scale]
  <2>1. m \in Nat /\ DOMAIN source = 1..m /\ \A i \in 1..m : source[i] * Scale \in Int
    BY DEF Scale
  <2>2. p \in [1..m -> Int]
    BY <2>1
  <2> HIDE DEF p
  <2>3. p \in T
    BY <2>1, <2>2
  <2>4. base = [price |-> p]
    BY <2>1 DEF PriceOf, p
  <2> HIDE DEF T
  <2>5. base \in [{"price"} -> T]
    BY <2>3, <2>4
  <2> QED BY <2>5 DEF SeriesStates, T
<1>3. \A o \in D : Round(nodes, o) \in D
  <2>1. Len(source) \in Nat
    OBVIOUS
  <2> QED BY <2>1, RoundIsState
<1>4. Precompute(nodes, source) = t[1..n]
  <2>1. Precompute(nodes, source) = FoldLeft(LAMBDA values, k : Round(nodes, values), base, places)
    BY DEF Precompute, PriceOf
  <2>2. DOMAIN places = 1..n
    OBVIOUS
  <2>3. places \in Seq(1..n) /\ Len(places) = n
    BY <1>1
  <2> HIDE DEF base, places
  <2> QED BY <2>1, <2>2, <2>3 DEF FoldLeft, MapThenFoldSet
<1> HIDE DEF n, base, D
<1>5. g \in [1..n -> [D -> D]]
  BY <1>3
<1>6. \A o \in D : \A k \in 1..n : g[k][o] = Round(nodes, o)
  OBVIOUS
<1> HIDE DEF g, t
<1>7. R(t)
  <2>1. PICK it : IsFold(it, n, D, base, g)
    BY <1>1, <1>2, <1>5, FoldExists
  <2>2. /\ it \in [SUBSET (1..n) -> D]
        /\ \A S \in SUBSET (1..n) :
             it[S] = IF S = {} THEN base ELSE g[Max(S)][it[S \ {Max(S)}]]
    BY <2>1 DEF IsFold
  <2>3. ASSUME NEW S \in SUBSET (1..n), S # {}
        PROVE  it[S] = Round(nodes, it[S \ {Max(S)}])
    <3>1. Max(S) \in 1..n
      BY <1>1, <2>3, FoldPlaces
    <3>2. it[S \ {Max(S)}] \in D
      BY <2>2
    <3> QED BY <1>6, <2>2, <2>3, <3>1, <3>2
  <2>4. R(it)
    BY <2>2, <2>3
  <2> QED BY <2>4 DEF t
<1>8. t[{}] = base
  BY <1>7
<1>9. ASSUME NEW k \in 1..n, t[1..(k - 1)] \in D
      PROVE  t[1..k] = g[k][t[1..(k - 1)]]
  <2>1. Max(1..k) = k /\ (1..k) \ {k} = 1..(k - 1) /\ 1..k # {}
    <3>1. k \in Nat \ {0}
      BY <1>1
    <3> QED BY <3>1, PrefixMax
  <2>2. 1..k \in SUBSET (1..n)
    BY <1>1
  <2>3. t[1..k] = Round(nodes, t[(1..k) \ {Max(1..k)}])
    BY <1>7, <2>1, <2>2
  <2> HIDE DEF R
  <2> QED BY <1>6, <1>9, <2>1, <2>3
<1> HIDE DEF R
<1>10. IsRecursion(f, n, D, base, g)
  <2>1. \A k \in 1..n : t[1..(k - 1)] \in D => t[1..k] = g[k][t[1..(k - 1)]]
    BY <1>9
  <2> HIDE DEF f
  <2>2. IsRecursion([k \in 0..n |-> t[1..k]], n, D, base, g)
    BY <1>1, <1>2, <1>5, <1>8, <2>1, FoldIsRecursion
  <2> QED BY <2>2 DEF f
<1>11. f[n] = t[1..n]
  BY <1>1
<1> HIDE DEF f
<1>12. /\ f \in [0..n -> D] /\ f[0] = base
       /\ \A k \in 1..n : f[k] = Round(nodes, f[k - 1])
  <2>1. f \in [0..n -> D] /\ f[0] = base /\ \A k \in 1..n : f[k] = g[k][f[k - 1]]
    BY <1>10 DEF IsRecursion
  <2>2. \A k \in 1..n : k - 1 \in 0..n
    BY <1>1
  <2>3. \A k \in 1..n : f[k - 1] \in D
    BY <2>1, <2>2
  <2> QED BY <1>6, <2>1, <2>3
<1> QED BY <1>4, <1>11, <1>12 DEF IsRoundLog, n, D, base

LEMMA PrecomputeGrows ==
  ASSUME NEW nodes, IsFiniteSet(DOMAIN nodes), \A id \in DOMAIN nodes : SoundNode(nodes[id]),
         NEW now, NEW past, Extends(now, past)
  PROVE  Grows(Precompute(nodes, now), Precompute(nodes, past), Len(past))
<1> DEFINE n == Cardinality(DOMAIN nodes)
           m == Len(past)
<1>1. /\ now \in Seq(Int) /\ past \in Seq(Int) /\ m \in Nat /\ Len(now) = m + 1
      /\ \A i \in 1..m : now[i] = past[i]
  BY DEF Extends
<1>2. PICK f : IsRoundLog(f, nodes, now)
  BY <1>1, PrecomputeUnroll
<1>3. PICK h : IsRoundLog(h, nodes, past)
  BY <1>1, PrecomputeUnroll
<1>4. n \in Nat
  BY FS_CardinalityType
<1>5. /\ f[0] = PriceOf(now) /\ h[0] = PriceOf(past)
      /\ \A k \in 1..n : f[k] = Round(nodes, f[k - 1]) /\ h[k] = Round(nodes, h[k - 1])
      /\ Precompute(nodes, now) = f[n] /\ Precompute(nodes, past) = h[n]
  BY <1>2, <1>3 DEF IsRoundLog
<1> DEFINE G == {k \in 0..n : Grows(f[k], h[k], m)}
<1> HIDE DEF n, m
<1>6. 0 \in G
  <2> DEFINE p == [i \in 1..(m + 1) |-> now[i] * Scale]
             q == [i \in 1..m |-> past[i] * Scale]
  <2>1. /\ DOMAIN now = 1..(m + 1) /\ DOMAIN past = 1..m
        /\ \A i \in 1..(m + 1) : now[i] * Scale \in Int
        /\ \A i \in 1..m : past[i] * Scale \in Int
    BY <1>1 DEF Scale, m
  <2>2. p \in [1..(m + 1) -> Int] /\ q \in [1..m -> Int]
    BY <2>1
  <2>3. \A i \in 1..m : p[i] = q[i]
    BY <1>1
  <2>4. f[0] = [price |-> p] /\ h[0] = [price |-> q]
    BY <1>5, <2>1 DEF PriceOf
  <2> HIDE DEF p, q
  <2>5. p \in Seq(Int) /\ Len(p) = m + 1 /\ q \in Seq(Int) /\ Len(q) = m
    BY <1>1, <2>2
  <2>6. Extends(p, q)
    BY <2>3, <2>5 DEF Extends
  <2>7. Grows(f[0], h[0], m)
    BY <2>4, <2>5, <2>6 DEF Grows
  <2> QED BY <1>4, <2>7
<1>7. ASSUME NEW k \in 1..n, k - 1 \in G PROVE k \in G
  <2> DEFINE u == f[k - 1]
             v == h[k - 1]
  <2>1. Grows(u, v, m) /\ f[k] = Round(nodes, u) /\ h[k] = Round(nodes, v) /\ k \in 0..n
    BY <1>4, <1>5, <1>7
  <2> HIDE DEF u, v
  <2>2. Grows(Round(nodes, u), Round(nodes, v), m)
    BY <1>1, <2>1, RoundGrows
  <2> QED BY <2>1, <2>2
<1> HIDE DEF G
<1>8. \A k \in 0..n : k \in G
  BY <1>4, <1>6, <1>7, PrefixInduction
<1>9. Grows(f[n], h[n], m)
  BY <1>4, <1>8 DEF G
<1> QED BY <1>5, <1>9 DEF m

LEMMA FrontExtends ==
  ASSUME NEW s \in Seq(Int), s # <<>>
  PROVE  Extends(s, Front(s)) /\ Len(Front(s)) = Len(s) - 1
<1>1. Front(s) = [i \in 1..(Len(s) - 1) |-> s[i]]
  BY DEF Front
<1> DEFINE p == [i \in 1..(Len(s) - 1) |-> s[i]]
           n == Len(s) - 1
<1>2. n \in Nat /\ Len(s) = n + 1
  OBVIOUS
<1>3. p \in [1..n -> Int] /\ \A i \in 1..n : p[i] = s[i]
  BY <1>2
<1> HIDE DEF n, p
<1>4. p \in Seq(Int) /\ Len(p) = n
  BY <1>2, <1>3
<1>5. Extends(s, p)
  BY <1>2, <1>3, <1>4 DEF Extends
<1> QED BY <1>1, <1>4, <1>5 DEF p, n

LEMMA ExtendsFront ==
  ASSUME NEW now, NEW past, Extends(now, past)
  PROVE  Front(now) = past
<1>1. now \in Seq(Int) /\ past \in Seq(Int) /\ Len(now) = Len(past) + 1 /\ now # <<>>
      /\ Len(past) \in Nat /\ \A i \in 1..Len(past) : now[i] = past[i]
  BY DEF Extends
<1>2. Extends(now, Front(now)) /\ Len(Front(now)) = Len(past)
  BY <1>1, FrontExtends
<1>3. Front(now) \in Seq(Int) /\ \A i \in 1..Len(past) : Front(now)[i] = past[i]
  BY <1>1, <1>2 DEF Extends
<1> QED BY <1>1, <1>2, <1>3, SeqEqual

\* SeriesAreCausal: for every composable strategy of the catalogue and every run of
\* it, the values of its series up to a candle are those that were computed before
\* the candle came (precompute).
THEOREM SeriesSeeNoFuture == BacktestSpec => []SeriesAreCausal
<1>1. RunInv => SeriesAreCausal
  <2> SUFFICES ASSUME RunInv, Composable, bar > 0
               PROVE  LET now == Precompute(Chosen.nodes, closes)
                          before == Precompute(Chosen.nodes, Front(closes))
                      IN  \A id \in DOMAIN now :
                            Len(now[id]) = bar /\ Front(now[id]) = before[id]
    BY DEF SeriesAreCausal
  <2> DEFINE nodes == Chosen.nodes
             now == Precompute(nodes, closes)
             before == Precompute(nodes, Front(closes))
  <2>1. IsFiniteSet(DOMAIN nodes) /\ \A id \in DOMAIN nodes : SoundNode(nodes[id])
    <3>1. strategy \in DOMAIN Catalogue /\ Chosen.kind = "composable"
      BY DEF RunInv, Composable
    <3>2. SoundStrategy(Chosen)
      BY <3>1, BacktestAssumption DEF Chosen
    <3> QED BY <3>2 DEF SoundStrategy
  <2>2. closes \in Seq(Int) /\ Len(closes) = bar /\ closes # <<>>
    <3>1. closes \in Seq(Closes) /\ Len(closes) = bar /\ bar > 0
      BY DEF RunInv, Fed
    <3>2. \A c \in Closes : c \in Int
      BY EngineAssumption
    <3>3. closes \in Seq(Int)
      BY <3>1, <3>2
    <3>4. closes # <<>>
      BY <3>1
    <3> QED BY <3>1, <3>3, <3>4
  <2>3. Extends(closes, Front(closes)) /\ Len(Front(closes)) = bar - 1
    BY <2>2, FrontExtends
  <2> HIDE DEF nodes
  <2>4. Grows(now, before, bar - 1)
    BY <2>1, <2>3, PrecomputeGrows
  <2> HIDE DEF now, before
  <2>5. ASSUME NEW id \in DOMAIN now PROVE Len(now[id]) = bar /\ Front(now[id]) = before[id]
    <3>1. Extends(now[id], before[id]) /\ Len(before[id]) = bar - 1
      BY <2>4, <2>5 DEF Grows
    <3>2. Len(now[id]) = bar
      BY <2>2, <3>1 DEF Extends
    <3> QED BY <3>1, <3>2, ExtendsFront
  <2> QED BY <2>5 DEF now, before, nodes
<1> QED BY <1>1, RunIsFollowed, PTL

-----------------------------------------------------------------------------
(***************************************************************************)
(* The twin of ma_rsi.  A running sum is the sum of its window, and the    *)
(* series are the figures of the built-in strategy in 1/Scale.             *)
(***************************************************************************)
Scaled(source) == [i \in DOMAIN source |-> source[i] * Scale]

LEMMA ScaledIsSeries ==
  ASSUME NEW source \in Seq(Int)
  PROVE  /\ Scaled(source) \in Seq(Int) /\ Len(Scaled(source)) = Len(source)
         /\ \A i \in 1..Len(source) : Scaled(source)[i] = Scale * source[i]
<1> DEFINE n == Len(source)
           p == Scaled(source)
<1>1. n \in Nat /\ DOMAIN source = 1..n /\ \A i \in 1..n : source[i] \in Int
  OBVIOUS
<1>2. p = [i \in 1..n |-> source[i] * Scale]
  BY <1>1 DEF Scaled
<1>3. \A i \in 1..n : source[i] * Scale \in Int
  BY <1>1 DEF Scale
<1> HIDE DEF p
<1>4. p \in [1..n -> Int]
  BY <1>2, <1>3
<1>5. p \in Seq(Int) /\ Len(p) = n
  BY <1>1, <1>4
<1>6. \A i \in 1..n : p[i] = Scale * source[i]
  BY <1>1, <1>2 DEF Scale
<1> QED BY <1>5, <1>6 DEF p, n

LEMMA TotalScaled ==
  ASSUME NEW s \in Seq(Int), NEW t \in Seq(Int), Len(t) = Len(s),
         \A i \in 1..Len(s) : t[i] = Scale * s[i]
  PROVE  Total(t) = Scale * Total(s)
<1> DEFINE n == Len(s)
<1>1. n \in Nat /\ Len(t) = n /\ \A i \in 1..n : s[i] \in Int /\ t[i] = Scale * s[i]
  OBVIOUS
<1>2. PICK f \in [0..n -> Int] :
        f[0] = 0 /\ (\A k \in 1..n : f[k] = f[k - 1] + s[k]) /\ Total(s) = f[n]
  BY TotalProperties
<1>3. PICK h \in [0..Len(t) -> Int] :
        h[0] = 0 /\ (\A k \in 1..Len(t) : h[k] = h[k - 1] + t[k]) /\ Total(t) = h[Len(t)]
  BY TotalProperties
<1>4. h[0] = 0 /\ (\A k \in 1..n : h[k] = h[k - 1] + t[k]) /\ Total(t) = h[n]
  BY <1>1, <1>3
<1> DEFINE G == {k \in 0..n : h[k] = Scale * f[k]}
<1> HIDE DEF n
<1>5. 0 \in G
  BY <1>1, <1>2, <1>4 DEF Scale
<1>6. ASSUME NEW k \in 1..n, k - 1 \in G PROVE k \in G
  <2>1. k \in 0..n /\ k - 1 \in 0..n /\ f[k - 1] \in Int /\ h[k - 1] = Scale * f[k - 1]
    BY <1>1, <1>2, <1>6
  <2>2. f[k] = f[k - 1] + s[k] /\ h[k] = h[k - 1] + Scale * s[k] /\ s[k] \in Int
    BY <1>1, <1>2, <1>4
  <2>3. h[k] = Scale * f[k]
    BY <2>1, <2>2 DEF Scale
  <2> QED BY <2>1, <2>3
<1> HIDE DEF G
<1>7. \A k \in 0..n : k \in G
  BY <1>1, <1>5, <1>6, PrefixInduction
<1> QED BY <1>1, <1>2, <1>4, <1>7 DEF G

LEMMA QuotientIs ==
  ASSUME NEW x \in Int, NEW d \in Nat \ {0}, NEW q \in Int, NEW r \in Int,
         0 <= r, r < d, x = q * d + r
  PROVE  x \div d = q
  OBVIOUS

LEMMA ScaledQuotient ==
  ASSUME NEW x \in Int, NEW d \in Nat \ {0}
  PROVE  (Scale * x) \div (Scale * d) = x \div d
<1> DEFINE q == x \div d
           r == x % d
           e == 100 * d
<1>1. q \in Int /\ r \in Int /\ 0 <= r /\ r < d /\ x = q * d + r
  OBVIOUS
<1> HIDE DEF q, r
<1>2. e \in Nat \ {0} /\ 100 * r \in Int /\ 0 <= 100 * r /\ 100 * r < e
  BY <1>1
<1>3. q * e = 100 * (q * d) /\ q * d \in Int
  BY <1>1
<1>4. 100 * x \in Int /\ 100 * x = q * e + 100 * r
  BY <1>1, <1>3
<1> HIDE DEF e
<1>5. (100 * x) \div e = q
  BY <1>1, <1>2, <1>4, QuotientIs
<1> QED BY <1>5 DEF e, q, Scale

LEMMA RsiOfScaled ==
  ASSUME NEW source \in Seq(Int), NEW first \in Int, NEW last \in Int,
         2 <= first, first <= last, last <= Len(source)
  PROVE  RsiOfMoves(Scaled(source), first, last) = RsiOfMoves(source, first, last)
<1> DEFINE p == Scaled(source)
           m == last - first + 1
           gains == GainsOf(source, first, last)
           losses == LossesOf(source, first, last)
           gains2 == GainsOf(p, first, last)
           losses2 == LossesOf(p, first, last)
<1>1. /\ p \in Seq(Int) /\ Len(p) = Len(source)
      /\ \A i \in 1..Len(source) : p[i] = Scale * source[i] /\ source[i] \in Int
  <2>1. \A i \in 1..Len(source) : source[i] \in Int
    OBVIOUS
  <2>2. /\ p \in Seq(Int) /\ Len(p) = Len(source)
        /\ \A i \in 1..Len(source) : p[i] = Scale * source[i]
    BY ScaledIsSeries
  <2> HIDE DEF p
  <2> QED BY <2>1, <2>2
<1> HIDE DEF p
<1>2. /\ gains \in Seq(Int) /\ losses \in Seq(Int)
      /\ Total(gains) \in Nat /\ Total(losses) \in Nat
  BY MovesAreNumbers
<1>3. gains2 \in Seq(Int) /\ losses2 \in Seq(Int)
  BY <1>1, MovesAreNumbers
<1>4. m \in Nat /\ Len(gains) = m /\ Len(losses) = m /\ Len(gains2) = m /\ Len(losses2) = m
  BY DEF GainsOf, LossesOf
<1>5. ASSUME NEW k \in 1..m
      PROVE  gains2[k] = Scale * gains[k] /\ losses2[k] = Scale * losses[k]
  <2> DEFINE j == first + k - 1
  <2>1. j \in 1..Len(source) /\ j - 1 \in 1..Len(source)
    OBVIOUS
  <2>2. /\ gains[k] = Gain(source, j) /\ losses[k] = Loss(source, j)
        /\ gains2[k] = Gain(p, j) /\ losses2[k] = Loss(p, j)
    BY DEF GainsOf, LossesOf
  <2>3. /\ p[j] = Scale * source[j] /\ p[j - 1] = Scale * source[j - 1]
        /\ source[j] \in Int /\ source[j - 1] \in Int
    BY <1>1, <2>1
  <2>4. \A a, b \in Int : Larger(Scale * a - Scale * b, 0) = Scale * Larger(a - b, 0)
    BY DEF Larger, Scale
  <2> HIDE DEF j, gains, losses, gains2, losses2
  <2>5. Gain(p, j) = Scale * Gain(source, j) /\ Loss(p, j) = Scale * Loss(source, j)
    BY <2>3, <2>4 DEF Gain, Loss
  <2> QED BY <2>2, <2>5
<1> HIDE DEF gains, losses, gains2, losses2, m
<1>6. Total(gains2) = Scale * Total(gains)
  BY <1>2, <1>3, <1>4, <1>5, TotalScaled
<1>7. Total(losses2) = Scale * Total(losses)
  BY <1>2, <1>3, <1>4, <1>5, TotalScaled
<1> DEFINE g == Total(gains)
           l == Total(losses)
           x == 100 * Scale * g
           d == g + l
<1>8. RsiOfMoves(source, first, last) =
        IF l = 0 THEN (IF g > 0 THEN 100 ELSE 50) * Scale ELSE x \div d
  BY RsiOfMovesIs DEF gains, losses
<1>9. RsiOfMoves(p, first, last) =
        IF Scale * l = 0 THEN (IF Scale * g > 0 THEN 100 ELSE 50) * Scale
        ELSE (100 * Scale * (Scale * g)) \div (Scale * g + Scale * l)
  BY <1>6, <1>7, RsiOfMovesIs DEF gains2, losses2
<1> HIDE DEF g, l
<1>10. g \in Nat /\ l \in Nat
  BY <1>2 DEF g, l
<1>11. (Scale * l = 0 <=> l = 0) /\ (Scale * g > 0 <=> g > 0)
  BY <1>10 DEF Scale
<1>12. l # 0 => (100 * Scale * (Scale * g)) \div (Scale * g + Scale * l) = x \div d
  <2>1. /\ x \in Int /\ (l # 0 => d \in Nat \ {0})
        /\ 100 * Scale * (Scale * g) = Scale * x /\ Scale * g + Scale * l = Scale * d
    BY <1>10 DEF Scale
  <2> HIDE DEF x, d
  <2> QED BY <2>1, ScaledQuotient
<1> QED BY <1>8, <1>9, <1>11, <1>12 DEF p


\* After k values the window of a running mean holds the last of them, its sum is
\* the running one.
IsWindow(state, source, period, k) ==
  /\ Len(state.window) = IF k < period THEN k ELSE period
  /\ \A j \in 1..Len(state.window) :
       state.window[j] = source[k - Len(state.window) + j]
  /\ state.running = Total(state.window)

LEMMA WindowMoves ==
  ASSUME NEW source \in Seq(Int), NEW period \in Nat \ {0}, NEW acc \in SmaStates,
         NEW k \in 1..Len(source), IsWindow(acc, source, period, k - 1)
  PROVE  LET new == SmaNext(period, acc, source[k])
         IN  /\ IsWindow(new, source, period, k)
             /\ new.out = Append(acc.out, new.running \div Len(new.window))
<1> DEFINE x == source[k]
           old == acc.window
           full == Len(old) = period
           rest == IF full THEN Tail(old) ELSE old
           window == Append(rest, x)
           leaves == IF full THEN Head(old) ELSE 0
           running == acc.running + x - leaves
           new == SmaNext(period, acc, x)
<1>1. /\ old \in Seq(Int) /\ acc.running \in Int /\ x \in Int /\ k \in Nat \ {0}
  BY DEF SmaStates
<1>2. /\ Len(old) = IF k - 1 < period THEN k - 1 ELSE period
      /\ \A j \in 1..Len(old) : old[j] = source[k - 1 - Len(old) + j]
      /\ acc.running = Total(old)
  BY DEF IsWindow
<1>3. new = [window |-> window, running |-> running,
             out |-> Append(acc.out, running \div Len(window))]
  BY DEF SmaNext
<1> HIDE DEF new, x, old
<1>4. rest \in Seq(Int) /\ Len(rest) = IF full THEN period - 1 ELSE Len(old)
  <2>1. CASE full
    <3>1. Len(old) = period /\ old # <<>>
      BY <1>1, <2>1
    <3>2. Tail(old) \in Seq(Int) /\ Len(Tail(old)) = period - 1
      BY <1>1, <3>1
    <3> QED BY <2>1, <3>2
  <2>2. CASE ~full
    BY <1>1, <2>2
  <2> QED BY <2>1, <2>2
<1>5. \A j \in 1..Len(rest) : rest[j] = source[k - 1 - Len(rest) + j]
  <2>1. CASE full
    <3>1. \A j \in 1..Len(rest) : rest[j] = old[j + 1] /\ j + 1 \in 1..Len(old)
      BY <1>1, <2>1
    <3>2. Len(rest) = period - 1 /\ Len(old) = period
      BY <1>4, <2>1
    <3>3. \A j \in Int : k - 1 - Len(old) + (j + 1) = k - 1 - Len(rest) + j
      <4> HIDE DEF rest
      <4> QED BY <1>1, <3>2
    <3>4. \A j \in 1..Len(old) : old[j] = source[k - 1 - Len(old) + j]
      BY <1>2
    <3> HIDE DEF rest
    <3>5. ASSUME NEW j \in 1..Len(rest) PROVE rest[j] = source[k - 1 - Len(rest) + j]
      <4>1. rest[j] = old[j + 1] /\ old[j + 1] = source[k - 1 - Len(old) + (j + 1)]
        BY <3>1, <3>4
      <4>2. j \in Int
        OBVIOUS
      <4>3. k - 1 - Len(old) + (j + 1) = k - 1 - Len(rest) + j
        BY <3>3, <4>2
      <4> QED BY <4>1, <4>3
    <3> QED BY <3>5
  <2>2. CASE ~full
    BY <1>2, <2>2
  <2> QED BY <2>1, <2>2
<1>6. Total(old) = leaves + Total(rest) /\ leaves \in Int /\ Total(rest) \in Int
  <2>1. CASE full
    <3>1. Head(old) \in Int /\ old # <<>>
      BY <1>1, <2>1
    <3> DEFINE h == Head(old)
               t == Tail(old)
    <3>2. t \in Seq(Int) /\ old = <<h>> \o t
      BY <1>1, <3>1
    <3> HIDE DEF h, t
    <3>3. Total(<<h>> \o t) = h + Total(t)
      BY <3>1, <3>2, TotalOfFirst DEF h
    <3>4. Total(t) \in Int
      BY <3>2, TotalIsInt
    <3> QED BY <2>1, <3>1, <3>2, <3>3, <3>4 DEF h, t
  <2>2. CASE ~full
    BY <1>1, <2>2, TotalIsInt
  <2> QED BY <2>1, <2>2
<1> HIDE DEF leaves
<1>7. Total(window) = Total(rest) + x
  <2> HIDE DEF rest
  <2> QED BY <1>1, <1>4, TotalOfMore
<1>8. running = Total(window)
  <2> HIDE DEF rest, window
  <2> QED BY <1>1, <1>2, <1>6, <1>7
<1>9. Len(window) = IF k < period THEN k ELSE period
  <2>1. Len(window) = Len(rest) + 1
    BY <1>1, <1>4
  <2>2. Len(old) \in Nat
    BY <1>1
  <2>3. CASE full
    <3>1. Len(rest) = period - 1 /\ Len(old) = period
      BY <1>4, <2>3
    <3> HIDE DEF rest, window
    <3>2. ~(k - 1 < period)
      BY <1>1, <1>2, <3>1
    <3> QED BY <1>1, <2>1, <3>1, <3>2
  <2>4. CASE ~full
    <3>0. rest = old /\ Len(old) # period
      BY <2>4
    <3>1. Len(rest) = Len(old) /\ Len(old) # period
      BY <3>0
    <3> HIDE DEF rest, window
    <3>2. k - 1 < period /\ Len(old) = k - 1
      BY <1>1, <1>2, <3>1
    <3> QED BY <1>1, <2>1, <3>1, <3>2
  <2> QED BY <2>3, <2>4
<1>10. \A j \in 1..Len(window) : window[j] = source[k - Len(window) + j]
  <2> SUFFICES ASSUME NEW j \in 1..Len(window)
               PROVE  window[j] = source[k - Len(window) + j]
    OBVIOUS
  <2>1. Len(window) = Len(rest) + 1 /\ Len(rest) \in Nat
    BY <1>1, <1>4
  <2>2. CASE j = Len(rest) + 1
    <3>1. window[j] = x /\ k - Len(window) + j = k
      BY <1>1, <1>4, <2>1, <2>2
    <3> QED BY <3>1 DEF x
  <2>3. CASE j # Len(rest) + 1
    <3>1. j \in 1..Len(rest) /\ k - 1 - Len(rest) + j = k - Len(window) + j
      <4> DEFINE l == Len(rest)
      <4>1. l \in Nat /\ Len(window) = l + 1 /\ j \in 1..(l + 1) /\ j # l + 1
        BY <2>1, <2>3
      <4> HIDE DEF l
      <4>2. j \in 1..l /\ k - 1 - l + j = k - (l + 1) + j
        BY <1>1, <4>1
      <4> QED BY <4>1, <4>2 DEF l
    <3>2. window[j] = rest[j]
      BY <1>1, <1>4, <3>1
    <3> QED BY <1>5, <3>1, <3>2
  <2> QED BY <2>2, <2>3
<1> HIDE DEF window, running, rest
<1>11. new.window = window /\ new.running = running
       /\ new.out = Append(acc.out, running \div Len(window))
  BY <1>3
<1>12. IsWindow(new, source, period, k)
  BY <1>8, <1>9, <1>10, <1>11 DEF IsWindow
<1> QED BY <1>11, <1>12 DEF new, x

\* The last value of a running mean is the mean of the last values.
LEMMA SmaIsMean ==
  ASSUME NEW source \in Seq(Int), NEW period \in Nat \ {0}, period <= Len(source)
  PROVE  Sma(source, period)[Len(source)]
           = Total([j \in 1..period |-> source[Len(source) - period + j]]) \div period
<1> DEFINE n == Len(source)
           last == [j \in 1..period |-> source[n - period + j]]
<1>1. PICK f : IsSmaLog(f, source, period)
  BY SmaUnroll
<1>2. /\ n \in Nat /\ f \in [0..n -> SmaStates] /\ f[0] = SmaBase
      /\ \A k \in 1..n : f[k] = SmaNext(period, f[k - 1], source[k])
      /\ Sma(source, period) = f[n].out
      /\ n = Len(source) /\ period <= n
  BY <1>1 DEF IsSmaLog
<1> DEFINE G == {k \in 0..n : IsWindow(f[k], source, period, k)}
<1>3. 0 \in G
  <2>1. IsWindow(SmaBase, source, period, 0)
    <3>1. SmaBase.window = <<>> /\ SmaBase.running = 0 /\ Len(<<>>) = 0 /\ 1..0 = {}
      BY DEF SmaBase
    <3> QED BY <3>1, TotalOfNone DEF IsWindow
  <2> QED BY <1>2, <2>1
<1> HIDE DEF n
<1>4. ASSUME NEW k \in 1..n, k - 1 \in G PROVE k \in G
  <2> DEFINE acc == f[k - 1]
  <2>1. /\ k - 1 \in 0..n /\ k \in 0..n /\ IsWindow(acc, source, period, k - 1)
    BY <1>2, <1>4
  <2>1a. acc \in SmaStates /\ k \in 1..Len(source)
    BY <1>2, <2>1
  <2> HIDE DEF acc
  <2>2. IsWindow(SmaNext(period, acc, source[k]), source, period, k)
    BY <2>1, <2>1a, WindowMoves
  <2>3. f[k] = SmaNext(period, acc, source[k])
    BY <1>2 DEF acc
  <2> QED BY <2>1, <2>2, <2>3
<1> HIDE DEF G
<1>5. \A k \in 0..n : k \in G
  BY <1>2, <1>3, <1>4, PrefixInduction
<1> DEFINE acc == f[n - 1]
           new == f[n]
<1>6. /\ n \in 1..n /\ n - 1 \in 0..n /\ n \in 0..n
  BY <1>2 DEF n
<1>7. /\ acc \in SmaStates /\ IsWindow(acc, source, period, n - 1)
      /\ new = SmaNext(period, acc, source[n]) /\ IsWindow(new, source, period, n)
      /\ new \in SmaStates
  BY <1>2, <1>5, <1>6 DEF G
<1> HIDE DEF acc, new
<1>8. new.out = Append(acc.out, new.running \div Len(new.window))
  <2>1. n \in 1..Len(source)
    BY <1>6 DEF n
  <2> QED BY <1>7, <2>1, WindowMoves
<1>9. new.window = last
  <2>0. new.window \in Seq(Int)
    BY <1>7 DEF SmaStates
  <2>0a. Len(new.window) = IF n < period THEN n ELSE period
    BY <1>7 DEF IsWindow
  <2>0b. Len(new.window) = period
    BY <1>2, <2>0a
  <2>1. new.window \in Seq(Int) /\ Len(new.window) = period
        /\ \A j \in 1..period : new.window[j] = source[n - period + j]
    BY <1>7, <2>0, <2>0b DEF IsWindow
  <2>2. DOMAIN new.window = 1..period /\ new.window = [j \in DOMAIN new.window |-> new.window[j]]
    BY <2>1
  <2> QED BY <2>1, <2>2
<1>10. Len(new.window) = period /\ new.running = Total(last)
  <2>1. Len(new.window) = IF n < period THEN n ELSE period
    BY <1>7 DEF IsWindow
  <2>2. Len(new.window) = period
    BY <1>2, <2>1
  <2> QED BY <1>7, <1>9, <2>2 DEF IsWindow
<1>11. Len(new.out) = n /\ acc.out \in Seq(Int) /\ Len(acc.out) \in Nat
  BY <1>2, <1>7, SmaIsSeries DEF IsSeries, SmaStates, n, new
<1> DEFINE y == new.running \div Len(new.window)
<1> HIDE DEF y
<1>12. new.out = Append(acc.out, y)
  BY <1>8 DEF y
<1>13. new.out[n] = y
  BY <1>11, <1>12
<1> QED BY <1>2, <1>10, <1>13 DEF y, new, n

\* A node of the price has its series from the first round on.
LEMMA NodeOfPrice ==
  ASSUME NEW nodes, IsFiniteSet(DOMAIN nodes), \A id \in DOMAIN nodes : SoundNode(nodes[id]),
         NEW source \in Seq(Int), NEW id \in DOMAIN nodes, id # "price",
         Inputs(nodes[id]) = {"price"}
  PROVE  Precompute(nodes, source)[id] = Apply(nodes[id], PriceOf(source))
<1> DEFINE n == Cardinality(DOMAIN nodes)
           base == PriceOf(source)
           series == Apply(nodes[id], base)
           Added(v) == [x \in {y \in DOMAIN nodes : Inputs(nodes[y]) \subseteq DOMAIN v} |->
                          Apply(nodes[x], v)]
<1>1. n \in Nat \ {0}
  <2>1. n \in Nat /\ n # 0
    BY FS_CardinalityType, FS_EmptySet
  <2> QED BY <2>1
<1>2. PICK f : IsRoundLog(f, nodes, source)
  BY PrecomputeUnroll
<1>3. /\ f[0] = base /\ \A k \in 1..n : f[k] = Round(nodes, f[k - 1])
      /\ Precompute(nodes, source) = f[n]
  BY <1>2 DEF IsRoundLog
<1>4. \A v : Round(nodes, v) = Over(v, Added(v))
  BY DEF Round
<1> DEFINE G == {k \in 0..n : k > 0 => id \in DOMAIN f[k] /\ f[k][id] = series}
<1> HIDE DEF n, series
<1>5. 0 \in G
  BY <1>1
<1>6. ASSUME NEW k \in 1..n, k - 1 \in G PROVE k \in G
  <2> DEFINE v == f[k - 1]
             w == Added(v)
  <2>0. k \in 0..n /\ k \in Int
    BY <1>1
  <2>0a. f[k] = Round(nodes, v)
    BY <1>3
  <2>0b. Round(nodes, v) = Over(v, w)
    BY <1>4
  <2>1. k \in 0..n /\ f[k] = Over(v, w)
    BY <2>0, <2>0a, <2>0b
  <2>2. CASE k = 1
    <3>1. v = base /\ DOMAIN v = {"price"}
      BY <1>3, <2>2 DEF PriceOf
    <3>2. id \in DOMAIN w /\ w[id] = series
      BY <3>1 DEF series
    <3> HIDE DEF v, w
    <3>3. id \in DOMAIN f[k] /\ f[k][id] = series
      BY <2>1, <3>1, <3>2 DEF Over
    <3> QED BY <2>1, <3>3
  <2>3. CASE k # 1
    <3>1. id \in DOMAIN v /\ v[id] = series
      BY <1>1, <1>6, <2>3
    <3> HIDE DEF v, w
    <3>2. id \in DOMAIN f[k] /\ f[k][id] = series
      BY <2>1, <3>1 DEF Over
    <3> QED BY <2>1, <3>2
  <2> QED BY <2>2, <2>3
<1> HIDE DEF G
<1>7. \A k \in 0..n : k \in G
  BY <1>1, <1>5, <1>6, PrefixInduction
<1>8. f[n][id] = series
  BY <1>1, <1>7 DEF G
<1> QED BY <1>3, <1>8 DEF series

\* The last values up to a candle.
LEMMA LastValues ==
  ASSUME NEW source \in Seq(Int), NEW period \in Nat \ {0}, NEW m \in Nat,
         period <= m, m <= Len(source)
  PROVE  SubSeq(source, m - period + 1, m) = [j \in 1..period |-> source[m - period + j]]
<1> DEFINE a == m - period + 1
           r == SubSeq(source, a, m)
<1>1. a \in Int /\ m \in Int /\ a <= m /\ a >= 1 /\ m - a + 1 = period
  OBVIOUS
<1>2. \A i \in a..m : source[i] \in Int
  BY <1>1
<1>3. \A j \in 1..period : a + j - 1 = m - period + j
  OBVIOUS
<1> HIDE DEF a
<1>4. /\ r \in Seq(Int) /\ Len(r) = IF a <= m THEN m - a + 1 ELSE 0
      /\ \A i \in 1..(m - a + 1) : r[i] = source[a + i - 1]
  BY <1>1, <1>2, SubSeqProperties
<1> HIDE DEF r
<1>5. Len(r) = period /\ DOMAIN r = 1..period /\ r = [j \in DOMAIN r |-> r[j]]
  BY <1>1, <1>4
<1>6. \A j \in 1..period : r[j] = source[m - period + j]
  BY <1>1, <1>3, <1>4
<1>7. r = [j \in 1..period |-> source[m - period + j]]
  BY <1>5, <1>6
<1> QED BY <1>7 DEF r, a

\* The running mean of the scaled prices is MeanOf at the last candle and the one before.
LEMMA MeanIsSma ==
  ASSUME NEW source \in Seq(Int), NEW period \in Nat \ {0}, period <= Len(source)
  PROVE  Sma(Scaled(source), period)[Len(source)] = MeanOf(source, period, Len(source))
<1> DEFINE n == Len(source)
           p == Scaled(source)
           s == SubSeq(source, n - period + 1, n)
           t == [j \in 1..period |-> p[n - period + j]]
<1>1. /\ p \in Seq(Int) /\ Len(p) = n
      /\ \A i \in 1..n : p[i] = Scale * source[i] /\ source[i] \in Int
  BY ScaledIsSeries
<1>2. n \in Nat /\ period <= n
  OBVIOUS
<1>2a. \A j \in 1..period : n - period + j \in 1..n
  BY <1>2
<1>3. s \in Seq(Int) /\ Len(s) = period /\ \A j \in 1..period : s[j] = source[n - period + j]
  <2>2. s = [j \in 1..period |-> source[n - period + j]]
    BY <1>2, LastValues
  <2>3. \A j \in 1..period : source[n - period + j] \in Int
    BY <1>1, <1>2a
  <2> HIDE DEF s
  <2>4. s \in [1..period -> Int]
    BY <2>2, <2>3
  <2> QED BY <2>2, <2>4
<1> HIDE DEF s, p, n
<1>4. \A j \in 1..period : t[j] \in Int /\ t[j] = Scale * s[j]
  <2> SUFFICES ASSUME NEW j \in 1..period PROVE t[j] \in Int /\ t[j] = Scale * s[j]
    OBVIOUS
  <2>1. n - period + j \in 1..n
    BY <1>2a
  <2>2. /\ p[n - period + j] = Scale * source[n - period + j]
        /\ source[n - period + j] \in Int
    BY <1>1, <2>1
  <2>3. t[j] = p[n - period + j] /\ s[j] = source[n - period + j]
    BY <1>3
  <2> HIDE DEF t
  <2> QED BY <2>2, <2>3 DEF Scale
<1>5. t \in [1..period -> Int]
  BY <1>4
<1> HIDE DEF t
<1>6. t \in Seq(Int) /\ Len(t) = Len(s) /\ \A j \in 1..Len(s) : t[j] = Scale * s[j]
  BY <1>3, <1>4, <1>5
<1>7. Total(t) = Scale * Total(s)
  BY <1>3, <1>6, TotalScaled
<1>8. Sma(p, period)[n] = Total(t) \div period
  <2>1. period <= Len(p)
    BY <1>1, <1>2
  <2>2. Sma(p, period)[Len(p)]
          = Total([j \in 1..period |-> p[Len(p) - period + j]]) \div period
    BY <1>1, <2>1, SmaIsMean
  <2> QED BY <1>1, <2>2 DEF t
<1>9. MeanOf(source, period, n) = (Scale * Total(s)) \div period
  BY DEF MeanOf, s
<1> QED BY <1>7, <1>8, <1>9 DEF p, n

LEMMA MeanWasSma ==
  ASSUME NEW source \in Seq(Int), NEW period \in Nat \ {0}, period < Len(source)
  PROVE  Sma(Scaled(source), period)[Len(source) - 1]
           = MeanOf(source, period, Len(source) - 1)
<1> DEFINE past == Front(source)
           m == Len(source) - 1
<1>1. /\ m \in Nat \ {0} /\ period <= m /\ Len(source) = m + 1 /\ source # <<>>
  OBVIOUS
<1>2. /\ past \in Seq(Int) /\ Len(past) = m /\ \A i \in 1..m : source[i] = past[i]
  <2>0. source # <<>>
    BY <1>1
  <2>1. Extends(source, past) /\ Len(past) = m
    BY <2>0, FrontExtends
  <2> HIDE DEF past, m
  <2> QED BY <2>1 DEF Extends
<1> HIDE DEF past, m
<1>3. Extends(Scaled(source), Scaled(past))
  <2>1. /\ Scaled(source) \in Seq(Int) /\ Len(Scaled(source)) = m + 1
        /\ \A i \in 1..(m + 1) : Scaled(source)[i] = Scale * source[i]
    BY <1>1, ScaledIsSeries
  <2>2. /\ Scaled(past) \in Seq(Int) /\ Len(Scaled(past)) = m
        /\ \A i \in 1..m : Scaled(past)[i] = Scale * past[i]
    BY <1>2, ScaledIsSeries
  <2>3. \A i \in 1..m : i \in 1..(m + 1)
    BY <1>1
  <2>4. \A i \in 1..m : Scaled(source)[i] = Scaled(past)[i]
    BY <1>2, <2>1, <2>2, <2>3
  <2> QED BY <2>1, <2>2, <2>4 DEF Extends
<1>4. Sma(Scaled(source), period)[m] = Sma(Scaled(past), period)[m]
  <2>1. Extends(Sma(Scaled(source), period), Sma(Scaled(past), period))
    BY <1>3, SmaExtends
  <2>2. Scaled(past) \in Seq(Int) /\ Len(Scaled(past)) = m
    BY <1>2, ScaledIsSeries
  <2>3. Len(Sma(Scaled(past), period)) = m
    BY <2>2, SmaIsSeries DEF IsSeries
  <2> QED BY <1>1, <2>1, <2>3 DEF Extends
<1>5. Sma(Scaled(past), period)[m] = MeanOf(past, period, m)
  BY <1>1, <1>2, MeanIsSma
<1>6. MeanOf(past, period, m) = MeanOf(source, period, m)
  <2>1. /\ SubSeq(past, m - period + 1, m) = [j \in 1..period |-> past[m - period + j]]
        /\ SubSeq(source, m - period + 1, m) = [j \in 1..period |-> source[m - period + j]]
    <3>1. m <= Len(source) /\ m <= Len(past)
      BY <1>1, <1>2
    <3> QED BY <1>1, <1>2, <3>1, LastValues
  <2>2. \A j \in 1..period : m - period + j \in 1..m
    BY <1>1
  <2>2a. [j \in 1..period |-> past[m - period + j]]
           = [j \in 1..period |-> source[m - period + j]]
    BY <1>2, <2>2
  <2>3. SubSeq(past, m - period + 1, m) = SubSeq(source, m - period + 1, m)
    BY <2>1, <2>2a
  <2> QED BY <2>3 DEF MeanOf
<1> QED BY <1>4, <1>5, <1>6 DEF m

LEMMA LastOfRsi ==
  ASSUME NEW source \in Seq(Int), NEW period \in Nat \ {0}, 1 < Len(source)
  PROVE  Rsi(Scaled(source), period)[Len(source)] = LastRsi(source, period)
<1> DEFINE n == Len(source)
           first == Larger(2, n - period + 1)
           p == Scaled(source)
<1>1. p \in Seq(Int) /\ Len(p) = n /\ n \in Nat /\ n > 1
  BY ScaledIsSeries
<1>2. first \in Int /\ 2 <= first /\ first <= n
  BY <1>1 DEF Larger
<1>3. Rsi(p, period)[n] = RsiOfMoves(p, first, n)
  <2> HIDE DEF p, n
  <2>1. n \in DOMAIN p /\ n # 1
    BY <1>1
  <2> QED BY <2>1 DEF Rsi
<1>4. RsiOfMoves(p, first, n) = RsiOfMoves(source, first, n)
  <2> HIDE DEF first
  <2> QED BY <1>1, <1>2, RsiOfScaled
<1> QED BY <1>3, <1>4 DEF LastRsi

-----------------------------------------------------------------------------

\* A condition of two predicates.
LEMMA HoldsOfTwo ==
  ASSUME NEW w, w.op \in {"any", "all"}, w.of = {2, 3},
         NEW a, a.op \notin {"all", "any", "not"},
         NEW b, b.op \notin {"all", "any", "not"}, NEW ctx
  PROVE  /\ w.op = "any" => (Holds(<<w, a, b>>, ctx) <=> Atom(a, ctx) \/ Atom(b, ctx))
         /\ w.op = "all" => (Holds(<<w, a, b>>, ctx) <=> Atom(a, ctx) /\ Atom(b, ctx))
<1> DEFINE when == <<w, a, b>>
           x == Atom(a, ctx)
           y == Atom(b, ctx)
           first == IF w.op = "all" THEN \A j \in {2, 3} : (IF j = 2 THEN x ELSE y)
                    ELSE \E j \in {2, 3} : (IF j = 2 THEN x ELSE y)
           Rule(h, i) == CASE when[i].op = "all" -> \A j \in when[i].of : h[j]
                           [] when[i].op = "any" -> \E j \in when[i].of : h[j]
                           [] when[i].op = "not" -> ~h[when[i].of]
                           [] OTHER -> Atom(when[i], ctx)
           R(h) == h = [i \in DOMAIN when |-> Rule(h, i)]
           holds == CHOOSE h : R(h)
           made == [i \in DOMAIN when |-> IF i = 1 THEN first ELSE IF i = 2 THEN x ELSE y]
<1>1. Holds(when, ctx) = holds[1]
  BY Zenon DEF Holds
<1>2. DOMAIN when = {1, 2, 3} /\ when[1] = w /\ when[2] = a /\ when[3] = b
  OBVIOUS
<1> HIDE DEF when, x, y
<1>3. made[1] = first /\ made[2] = x /\ made[3] = y
  BY <1>2
<1>4. R(made)
  <2>1. CASE w.op = "all"
    <3>1. first = \A j \in w.of : made[j]
      BY <1>3, <2>1
    <3> HIDE DEF first, made
    <3>2. \A i \in DOMAIN when : made[i] = Rule(made, i)
      BY <1>2, <1>3, <2>1, <3>1 DEF x, y
    <3> QED BY <3>2 DEF made
  <2>2. CASE w.op = "any"
    <3>1. first = \E j \in w.of : made[j]
      BY <1>3, <2>2
    <3> HIDE DEF first, made
    <3>2. \A i \in DOMAIN when : made[i] = Rule(made, i)
      BY <1>2, <1>3, <2>2, <3>1 DEF x, y
    <3> QED BY <3>2 DEF made
  <2> QED BY <2>1, <2>2
<1>5. R(holds)
  BY <1>4
<1> HIDE DEF holds
<1>6. holds[2] = x /\ holds[3] = y
  BY <1>2, <1>5 DEF x, y
<1>7. /\ w.op = "any" => holds[1] = \E j \in {2, 3} : holds[j]
      /\ w.op = "all" => holds[1] = \A j \in {2, 3} : holds[j]
  <2>1. holds[1] = Rule(holds, 1)
    BY <1>2, <1>5
  <2>2. w.op = "any" => Rule(holds, 1) = \E j \in w.of : holds[j]
    BY <1>2
  <2>3. w.op = "all" => Rule(holds, 1) = \A j \in w.of : holds[j]
    BY <1>2
  <2> HIDE DEF Rule
  <2> QED BY <2>1, <2>2, <2>3
<1>8. /\ w.op = "any" => (holds[1] <=> x \/ y)
      /\ w.op = "all" => (holds[1] <=> x /\ y)
  BY <1>6, <1>7
<1> QED BY <1>1, <1>8 DEF when, x, y

\* Two rules of one priority, each in a scope of its own: that of the position decides.
LEMMA TwoRules ==
  ASSUME NEW s, SoundStrategy(s), NEW p, NEW then, then.do = "buy",
         s.rules = MaRsiRules(p, then),
         NEW ctx, ctx \in Contexts(ctx), ctx.long \in BOOLEAN, Price(ctx) \in Nat
  PROVE  EvaluateRules(s.rules, ctx).signal =
           IF ctx.long THEN (IF Holds(s.rules[1].when, ctx) THEN "SELL" ELSE "HOLD")
           ELSE (IF Holds(s.rules[2].when, ctx) THEN "BUY" ELSE "HOLD")
<1> DEFINE rules == s.rules
           K == [i \in DOMAIN rules |-> -rules[i].priority]
           D == AnyOutcomes(ctx)
           scopes == Scopes(ctx)
           base == Undecided(ctx)
<1>1. /\ DOMAIN rules = 1..2 /\ Len(rules) = 2 /\ rules \in Seq(Range(rules))
      /\ rules[1].scope = "long" /\ rules[1].then = [do |-> "sell"]
      /\ rules[2].scope = "flat" /\ rules[2].then = then
      /\ rules[1].priority = 10 /\ rules[2].priority = 10
  BY DEF MaRsiRules, SoundStrategy
<1>2. ByPriority(rules) = rules
  <2>1. K \in [DOMAIN rules -> Int] /\ \A i \in 1..2 : K[i] = -10
    BY <1>1
  <2>2. ByPriority(rules) = SortedBy(rules, K)
    BY DEF ByPriority
  <2> HIDE DEF K, rules
  <2>3. \A i, j \in 1..Len(rules) : i < j => K[i] <= K[j]
    BY <1>1, <2>1
  <2> QED BY <1>1, <2>1, <2>2, <2>3, SortedByOfOrdered
<1>3. \A k \in DOMAIN ByPriority(rules) : SoundRule(ByPriority(rules)[k])
  BY SortedRules
<1>4. base \in D
  <2>1. Undecided(ctx) \in Outcomes(ctx)
    BY UndecidedIsOne
  <2>2. Undecided(ctx).ctx = ctx
    BY DEF Undecided
  <2> QED BY <2>1, <2>2 DEF AnyOutcomes
<1>5. \A o \in D : \A k \in DOMAIN ByPriority(rules) :
        Consider(scopes, o, ByPriority(rules)[k]) \in D
  BY <1>3, AnyConsider
<1> HIDE DEF D, rules, K
<1>6. PICK f : IsEvaluation(f, rules, ctx)
  BY <1>1, <1>2, <1>4, <1>5, RulesUnroll
<1>7. /\ f[0] = base /\ f[1] = Consider(scopes, f[0], rules[1])
      /\ f[2] = Consider(scopes, f[1], rules[2]) /\ EvaluateRules(rules, ctx) = f[2]
  <2>1. /\ f[0] = base
        /\ \A k \in 1..2 : f[k] = Consider(scopes, f[k - 1], rules[k])
        /\ EvaluateRules(rules, ctx) = f[2]
    BY <1>1, <1>2, <1>6 DEF IsEvaluation
  <2>2. 1 \in 1..2 /\ 2 \in 1..2 /\ 1 - 1 = 0 /\ 2 - 1 = 1
    OBVIOUS
  <2> HIDE DEF base, scopes
  <2> QED BY <2>1, <2>2
<1>8. base.ctx = ctx /\ base.signal = "HOLD" /\ base.decided = FALSE
  BY DEF Undecided
<1>9. CASE ctx.long
  <2>1. "long" \in scopes /\ "flat" \notin scopes
    BY <1>9 DEF Scopes
  <2>2. f[2] = f[1]
    BY <1>1, <1>7, <2>1 DEF Consider
  <2>3. f[1].signal = IF Holds(rules[1].when, ctx) THEN "SELL" ELSE "HOLD"
    <3> DEFINE rule == rules[1]
    <3>1. RunAction(ctx, rule.then) = [ctx |-> ctx, signal |-> "SELL"] /\ IsTerminal(rule.then)
      BY <1>1 DEF RunAction, IsTerminal
    <3>2. rule.scope \in scopes /\ f[1] = Consider(scopes, base, rule)
      BY <1>1, <1>7, <2>1
    <3> HIDE DEF rule, base, scopes
    <3>3. CASE Holds(rule.when, ctx)
      <4>1. Consider(scopes, base, rule) = [ctx |-> ctx, signal |-> "SELL", decided |-> TRUE]
        BY <1>8, <3>1, <3>2, <3>3 DEF Consider
      <4> QED BY <3>2, <3>3, <4>1 DEF rule
    <3>4. CASE ~Holds(rule.when, ctx)
      <4>1. Consider(scopes, base, rule) = base
        BY <1>8, <3>4 DEF Consider
      <4> QED BY <1>8, <3>2, <3>4, <4>1 DEF rule
    <3> QED BY <3>3, <3>4
  <2> QED BY <1>7, <1>9, <2>2, <2>3 DEF rules
<1>10. CASE ~ctx.long
  <2>1. "long" \notin scopes /\ "flat" \in scopes
    BY <1>10 DEF Scopes
  <2>2. f[1] = base
    BY <1>1, <1>7, <2>1 DEF Consider
  <2>3. f[2].signal = IF Holds(rules[2].when, ctx) THEN "BUY" ELSE "HOLD"
    <3> DEFINE rule == rules[2]
               c == NoteLevels(ctx, then)
    <3>1. RunAction(ctx, rule.then) = [ctx |-> c, signal |-> "BUY"] /\ IsTerminal(rule.then)
      BY <1>1 DEF RunAction, IsTerminal
    <3>2. rule.scope \in scopes /\ f[2] = Consider(scopes, base, rule)
      BY <1>1, <1>7, <2>1, <2>2
    <3> HIDE DEF rule, base, scopes, c
    <3>3. CASE Holds(rule.when, ctx)
      <4>1. Consider(scopes, base, rule) = [ctx |-> c, signal |-> "BUY", decided |-> TRUE]
        BY <1>8, <3>1, <3>2, <3>3 DEF Consider
      <4> QED BY <3>2, <3>3, <4>1 DEF rule
    <3>4. CASE ~Holds(rule.when, ctx)
      <4>1. Consider(scopes, base, rule) = base
        BY <1>8, <3>4 DEF Consider
      <4> QED BY <1>8, <3>2, <3>4, <4>1 DEF rule
    <3> QED BY <3>3, <3>4
  <2> QED BY <1>7, <1>10, <2>2, <2>3 DEF rules
<1> QED BY <1>9, <1>10

IsMaRsi(p) ==
  /\ \A name \in {"fast", "slow", "period", "buyMin", "overbought"} :
       name \in DOMAIN p /\ p[name] \in Nat
  /\ MaRsiAccepts(p)

LEMMA ParametersOfMaRsi ==
  ASSUME NEW p, IsMaRsi(p)
  PROVE  /\ p.fast \in Nat \ {0} /\ p.slow \in Nat \ {0} /\ p.period \in Nat \ {0}
         /\ p.fast < p.slow /\ p.buyMin \in Nat /\ p.overbought \in Nat
<1>1. /\ p.fast \in Nat /\ p.slow \in Nat /\ p.period \in Nat
      /\ p.buyMin \in Nat /\ p.overbought \in Nat
      /\ "fast" \in DOMAIN p /\ "slow" \in DOMAIN p /\ "period" \in DOMAIN p
  BY DEF IsMaRsi
<1>2. p.fast < p.slow /\ \A name \in DOMAIN p : p[name] >= LeastValue[name]
  BY DEF IsMaRsi, MaRsiAccepts, WithinSpecs
<1>3. p.fast >= 1 /\ p.slow >= 2 /\ p.period >= 2
  BY <1>1, <1>2 DEF LeastValue
<1> QED BY <1>1, <1>2, <1>3

\* What the series of the twin show at the last candle, and at the one before.
LEMMA TwinSeries ==
  ASSUME NEW p, IsMaRsi(p), NEW seen \in Seq(Int), p.slow < Len(seen), p.period < Len(seen)
  PROVE  LET series == Precompute(MaRsiNodes(p), seen)
             n == Len(seen)
         IN  /\ series["fast_ma"][n] = MeanOf(seen, p.fast, n)
             /\ series["slow_ma"][n] = MeanOf(seen, p.slow, n)
             /\ series["fast_ma"][n - 1] = MeanOf(seen, p.fast, n - 1)
             /\ series["slow_ma"][n - 1] = MeanOf(seen, p.slow, n - 1)
             /\ series["rsi"][n] = LastRsi(seen, p.period)
<1> DEFINE nodes == MaRsiNodes(p)
           series == Precompute(nodes, seen)
           n == Len(seen)
           price == Scaled(seen)
<1>1. /\ p.fast \in Nat \ {0} /\ p.slow \in Nat \ {0} /\ p.period \in Nat \ {0}
      /\ p.fast < p.slow /\ n \in Nat /\ p.slow < n /\ p.period < n
  BY ParametersOfMaRsi
<1>2. PriceOf(seen)["price"] = price
  BY DEF PriceOf, Scaled
<1>3. /\ DOMAIN nodes = {"fast_ma", "slow_ma", "rsi"}
      /\ nodes["fast_ma"] = [fn |-> "sma", source |-> "price", period |-> p.fast]
      /\ nodes["slow_ma"] = [fn |-> "sma", source |-> "price", period |-> p.slow]
      /\ nodes["rsi"] = [fn |-> "rsi", source |-> "price", period |-> p.period]
  BY DEF MaRsiNodes
<1>4. IsFiniteSet(DOMAIN nodes)
  <2>1. IsFiniteSet({"fast_ma"}) /\ IsFiniteSet({"slow_ma"}) /\ IsFiniteSet({"rsi"})
    BY FS_Singleton
  <2>2. IsFiniteSet({"fast_ma"} \cup {"slow_ma"})
    BY <2>1, FS_Union
  <2>3. IsFiniteSet(({"fast_ma"} \cup {"slow_ma"}) \cup {"rsi"})
    BY <2>1, <2>2, FS_Union
  <2>4. DOMAIN nodes = ({"fast_ma"} \cup {"slow_ma"}) \cup {"rsi"}
    BY <1>3
  <2> QED BY <2>3, <2>4
<1> HIDE DEF nodes
<1>5. \A id \in DOMAIN nodes :
        SoundNode(nodes[id]) /\ id # "price" /\ Inputs(nodes[id]) = {"price"}
  BY <1>1, <1>3 DEF SoundNode, Inputs
<1>6. \A id \in DOMAIN nodes : series[id] = Apply(nodes[id], PriceOf(seen))
  BY <1>4, <1>5, NodeOfPrice
<1> HIDE DEF series, price, n
<1>7. /\ series["fast_ma"] = Sma(price, p.fast)
      /\ series["slow_ma"] = Sma(price, p.slow)
      /\ series["rsi"] = Rsi(price, p.period)
  BY <1>2, <1>3, <1>6 DEF Apply
<1>8. /\ Sma(price, p.fast)[n] = MeanOf(seen, p.fast, n)
      /\ Sma(price, p.slow)[n] = MeanOf(seen, p.slow, n)
  <2>1. p.fast <= Len(seen) /\ p.slow <= Len(seen)
    BY <1>1 DEF n
  <2> QED BY <1>1, <2>1, MeanIsSma DEF n, price
<1>9. /\ Sma(price, p.fast)[n - 1] = MeanOf(seen, p.fast, n - 1)
      /\ Sma(price, p.slow)[n - 1] = MeanOf(seen, p.slow, n - 1)
  <2>1. p.fast < Len(seen) /\ p.slow < Len(seen)
    BY <1>1 DEF n
  <2> QED BY <1>1, <2>1, MeanWasSma DEF n, price
<1>10. Rsi(price, p.period)[n] = LastRsi(seen, p.period)
  <2>1. 1 < Len(seen)
    BY <1>1 DEF n
  <2> QED BY <1>1, <2>1, LastOfRsi DEF n, price
<1> QED BY <1>7, <1>8, <1>9, <1>10 DEF series, nodes, n

\* The conditions of its two rules.
Reaches(level) == [op |-> "gte", a |-> [series |-> "rsi"], b |-> [value |-> level]]
CrossesFrom(op) == [op |-> op, a |-> "fast_ma", b |-> "slow_ma"]

LEMMA TwinConditions ==
  ASSUME NEW p, NEW then
  PROVE  /\ MaRsiRules(p, then)[1].when =
              << [op |-> "any", of |-> {2, 3}], CrossesFrom("cross_below"),
                 Reaches(p.overbought) >>
         /\ MaRsiRules(p, then)[2].when =
              << [op |-> "all", of |-> {2, 3}], CrossesFrom("cross_above"),
                 Reaches(p.buyMin) >>
<1> DEFINE sells == << [op |-> "any", of |-> {2, 3}], CrossesFrom("cross_below"),
                       Reaches(p.overbought) >>
           buys == << [op |-> "all", of |-> {2, 3}], CrossesFrom("cross_above"),
                      Reaches(p.buyMin) >>
           exit == [priority |-> 10, scope |-> "long", when |-> sells,
                    then |-> [do |-> "sell"]]
           entry == [priority |-> 10, scope |-> "flat", when |-> buys, then |-> then]
<1>1. MaRsiRules(p, then) = << exit, entry >>
  BY Zenon DEF MaRsiRules, Reaches, CrossesFrom
<1> HIDE DEF sells, buys
<1>2. exit.when = sells /\ entry.when = buys
  OBVIOUS
<1> HIDE DEF exit, entry
<1>3. << exit, entry >>[1] = exit /\ << exit, entry >>[2] = entry
  OBVIOUS
<1> QED BY <1>1, <1>2, <1>3 DEF sells, buys

LEMMA TwinAnswers ==
  ASSUME NEW p, IsMaRsi(p), NEW seen \in Seq(Int), p.slow < Len(seen), p.period < Len(seen),
         NEW s, SoundStrategy(s), NEW then, then.do = "buy",
         s.rules = MaRsiRules(p, then),
         NEW ctx, ctx \in Contexts(ctx), ctx.long \in BOOLEAN, Price(ctx) \in Nat,
         ctx.closes = seen, ctx.series = Precompute(MaRsiNodes(p), seen)
  PROVE  EvaluateRules(s.rules, ctx).signal = MaRsi(p, seen, ctx.long)
<1> DEFINE n == Len(seen)
           rsi == LastRsi(seen, p.period)
           up == CrossedUp(p, seen, n)
           down == CrossedDown(p, seen, n)
           crossAbove == CrossesFrom("cross_above")
           crossBelow == CrossesFrom("cross_below")
<1>1. /\ p.slow \in Nat \ {0} /\ p.period \in Nat \ {0} /\ n \in Nat
      /\ p.slow < n /\ p.period < n
  BY ParametersOfMaRsi
<1>2. /\ Now(ctx, "fast_ma") = MeanOf(seen, p.fast, n)
      /\ Now(ctx, "slow_ma") = MeanOf(seen, p.slow, n)
      /\ Before(ctx, "fast_ma", 1) = MeanOf(seen, p.fast, n - 1)
      /\ Before(ctx, "slow_ma", 1) = MeanOf(seen, p.slow, n - 1)
      /\ Now(ctx, "rsi") = rsi
  BY TwinSeries DEF Now, Before
<1>3. Len(ctx.closes) > 1
  BY <1>1
<1>4. (Atom(crossAbove, ctx) <=> up) /\ (Atom(crossBelow, ctx) <=> down)
  <2>1. Atom(crossAbove, ctx) = Crosses(ctx, TRUE, "fast_ma", "slow_ma")
    BY DEF Atom, CrossesFrom
  <2>2. Atom(crossBelow, ctx) = Crosses(ctx, FALSE, "fast_ma", "slow_ma")
    BY DEF Atom, CrossesFrom
  <2> HIDE DEF n, crossAbove, crossBelow
  <2>3. Crosses(ctx, TRUE, "fast_ma", "slow_ma") <=> up
    BY <1>2, <1>3 DEF Crosses, CrossedUp
  <2>4. Crosses(ctx, FALSE, "fast_ma", "slow_ma") <=> down
    BY <1>2, <1>3 DEF Crosses, CrossedDown
  <2> HIDE DEF up, down
  <2> QED BY <2>1, <2>2, <2>3, <2>4
<1>5. ASSUME NEW level PROVE Atom(Reaches(level), ctx) <=> rsi >= level * Scale
  <2> DEFINE a == [series |-> "rsi"]
             b == [value |-> level]
             w == Reaches(level)
  <2>1. Operand(ctx, a) = rsi /\ Operand(ctx, b) = level * Scale
    BY <1>2 DEF Operand
  <2>2. w.op = "gte" /\ w.a = a /\ w.b = b
    BY DEF Reaches
  <2> HIDE DEF w, a, b, rsi
  <2>3. Atom(w, ctx) = Compare("gte", Operand(ctx, a), Operand(ctx, b))
    BY <2>2 DEF Atom
  <2>4. Compare("gte", rsi, level * Scale) <=> rsi >= level * Scale
    BY DEF Compare
  <2> QED BY <2>1, <2>3, <2>4 DEF w
<1>6. Holds(s.rules[1].when, ctx) <=> down \/ rsi >= p.overbought * Scale
  <2> DEFINE w == [op |-> "any", of |-> {2, 3}]
             b == Reaches(p.overbought)
  <2>1. s.rules[1].when = << w, crossBelow, b >>
    BY TwinConditions
  <2>2. /\ w.op = "any" /\ w.op \in {"any", "all"} /\ w.of = {2, 3}
        /\ crossBelow.op \notin {"all", "any", "not"} /\ b.op \notin {"all", "any", "not"}
    BY DEF CrossesFrom, Reaches
  <2>3. Atom(b, ctx) <=> rsi >= p.overbought * Scale
    BY <1>5
  <2> HIDE DEF w, b, crossBelow, rsi, down
  <2>4. Holds(<< w, crossBelow, b >>, ctx) <=> Atom(crossBelow, ctx) \/ Atom(b, ctx)
    BY <2>2, HoldsOfTwo
  <2> QED BY <1>4, <2>1, <2>3, <2>4
<1>7. Holds(s.rules[2].when, ctx) <=> up /\ rsi >= p.buyMin * Scale
  <2> DEFINE w == [op |-> "all", of |-> {2, 3}]
             b == Reaches(p.buyMin)
  <2>1. s.rules[2].when = << w, crossAbove, b >>
    BY TwinConditions
  <2>2. /\ w.op = "all" /\ w.op \in {"any", "all"} /\ w.of = {2, 3}
        /\ crossAbove.op \notin {"all", "any", "not"} /\ b.op \notin {"all", "any", "not"}
    BY DEF CrossesFrom, Reaches
  <2>3. Atom(b, ctx) <=> rsi >= p.buyMin * Scale
    BY <1>5
  <2> HIDE DEF w, b, crossAbove, rsi, up
  <2>4. Holds(<< w, crossAbove, b >>, ctx) <=> Atom(crossAbove, ctx) /\ Atom(b, ctx)
    BY <2>2, HoldsOfTwo
  <2> QED BY <1>4, <2>1, <2>3, <2>4
<1>8. EvaluateRules(s.rules, ctx).signal =
        IF ctx.long THEN (IF Holds(s.rules[1].when, ctx) THEN "SELL" ELSE "HOLD")
        ELSE (IF Holds(s.rules[2].when, ctx) THEN "BUY" ELSE "HOLD")
  BY TwoRules
<1>9. MaRsi(p, seen, ctx.long) =
        IF up /\ rsi >= p.buyMin * Scale /\ ~ctx.long THEN "BUY"
        ELSE IF ctx.long /\ (down \/ rsi >= p.overbought * Scale) THEN "SELL"
        ELSE "HOLD"
  <2>1. ~(n < Larger(p.slow + 1, p.period + 1))
    <3> HIDE DEF n
    <3>1. p.slow \in Nat /\ p.period \in Nat
      BY <1>1
    <3>2. n >= p.slow + 1 /\ n >= p.period + 1
      BY <1>1, <3>1
    <3>3. Larger(p.slow + 1, p.period + 1) \in {p.slow + 1, p.period + 1}
      BY Zenon DEF Larger
    <3> QED BY <1>1, <3>1, <3>2, <3>3
  <2> QED BY <2>1, Zenon DEF MaRsi
<1> HIDE DEF up, down, rsi
<1>10. CASE ctx.long = TRUE
  BY <1>6, <1>8, <1>9, <1>10
<1>11. CASE ctx.long = FALSE
  BY <1>7, <1>8, <1>9, <1>11
<1> QED BY <1>10, <1>11

\* ComposableAgreesWithBuiltIn: for all parameters the built-in ma_rsi accepts, its
\* composable definition gives the same signal at every candle from the one on for
\* which the built-in has the candles it waits for.
THEOREM TwinsAgree == BacktestSpec => []ComposableAgreesWithBuiltIn
<1>1. IInv /\ RunInv => ComposableAgreesWithBuiltIn
  <2> SUFFICES ASSUME IInv, RunInv, Composable, "twinOf" \in DOMAIN Chosen, ~done,
                      bar >= Larger(Catalogue[Chosen.twinOf].params.slow,
                                    Catalogue[Chosen.twinOf].params.period),
                      NEW close \in Closes, NEW answer \in Answers(close)
               PROVE  answer.signal =
                        MaRsi(Catalogue[Chosen.twinOf].params, Append(closes, close),
                              position > 0)
    BY DEF ComposableAgreesWithBuiltIn
  <2> DEFINE p == Catalogue[Chosen.twinOf].params
             seen == Append(closes, close)
             clock == Clock[bar + 1]
             view == View(close)
             ctx == Shown(Chosen, seen, clock, view, memory, effects)
  <2>1. /\ Chosen.kind = "composable" /\ strategy \in DOMAIN Catalogue
        /\ Fed /\ Remembered
    BY DEF RunInv, Composable
  <2>2. SoundStrategy(Chosen) /\ IsTwin(Chosen, Catalogue[Chosen.twinOf])
    BY <2>1, BacktestAssumption DEF Chosen
  <2>3. IsMaRsi(p) /\ Chosen.nodes = MaRsiNodes(p)
    BY <2>2 DEF IsTwin, IsMaRsi
  <2>4. PICK then : then.do = "buy" /\ Chosen.rules = MaRsiRules(p, then)
    BY <2>2 DEF IsTwin
  <2>5. /\ position \in Nat /\ cash \in Nat /\ bar \in Nat /\ close \in Nat
    BY EngineAssumption DEF IInv, Types
  <2>6. /\ seen \in Seq(Int) /\ Len(seen) = bar + 1 /\ seen[Len(seen)] = close
    <3>1. closes \in Seq(Closes) /\ Len(closes) = bar
      BY <2>1 DEF Fed
    <3>2. \A c \in Closes : c \in Int
      BY EngineAssumption
    <3>3. closes \in Seq(Int)
      BY <3>1, <3>2
    <3> QED BY <2>5, <3>1, <3>3
  <2>7. p.slow < Len(seen) /\ p.period < Len(seen)
    <3>1. p.slow \in Nat /\ p.period \in Nat
      BY <2>3, ParametersOfMaRsi
    <3> HIDE DEF p, seen
    <3>2. bar >= Larger(p.slow, p.period)
      BY DEF p
    <3> QED BY <2>5, <2>6, <3>1, <3>2 DEF Larger
  <2>8. view.long = (position > 0) /\ view.long \in BOOLEAN /\ view.equity \in Int
    <3>1. (position * close) \div Unit \in Nat
      BY <2>5, ProductIsNat, QuotientIsNat, EngineAssumption
    <3>2. cash + (position * close) \div Unit \in Int
      BY <2>5, <3>1
    <3> QED BY <3>2 DEF View
  <2>9. memory \in Memories /\ effects \in Seq(Effects)
    BY <2>1 DEF Remembered
  <2>10. /\ ctx \in Contexts(ctx) /\ ctx.closes = seen /\ ctx.long = view.long
         /\ Price(ctx) = close
    <3>1. seen[Len(seen)] \in Nat
      BY <2>5, <2>6
    <3>1a. view.long \in BOOLEAN /\ view.equity \in Int
      BY <2>8
    <3> HIDE DEF seen, view, clock, ctx
    <3>2. /\ Shown(Chosen, seen, clock, view, memory, effects)
               \in Contexts(Shown(Chosen, seen, clock, view, memory, effects))
          /\ Shown(Chosen, seen, clock, view, memory, effects).closes = seen
          /\ Shown(Chosen, seen, clock, view, memory, effects).long = view.long
          /\ Price(Shown(Chosen, seen, clock, view, memory, effects)) = seen[Len(seen)]
          /\ Shown(Chosen, seen, clock, view, memory, effects).memory =
               Remember(memory, view.long, seen[Len(seen)], view.equity)
          /\ Shown(Chosen, seen, clock, view, memory, effects).effects =
               IF memory.wasLong /\ ~view.long THEN <<>> ELSE effects
      BY <2>9, <3>1, <3>1a, ShownProperties
    <3> QED BY <2>6, <3>2 DEF ctx
  <2>11. ctx.series = Precompute(MaRsiNodes(p), seen)
    BY <2>3 DEF Shown
  <2>12. answer.signal = EvaluateRules(Chosen.rules, ctx).signal
    <3>1. answer = OnCandle(Chosen, seen, clock, view, memory, effects)
      BY <2>1 DEF Answers
    <3> HIDE DEF seen, view, clock
    <3>2. OnCandle(Chosen, seen, clock, view, memory, effects).signal =
            EvaluateRules(Chosen.rules,
                          Shown(Chosen, seen, clock, view, memory, effects)).signal
      BY DEF OnCandle, Shown
    <3> QED BY <3>1, <3>2
  <2> HIDE DEF ctx, seen, view, p
  <2>13. EvaluateRules(Chosen.rules, ctx).signal = MaRsi(p, seen, ctx.long)
    <3> DEFINE s == Chosen
    <3>1. /\ SoundStrategy(s) /\ IsMaRsi(p) /\ s.rules = MaRsiRules(p, then)
          /\ then.do = "buy" /\ seen \in Seq(Int)
          /\ p.slow < Len(seen) /\ p.period < Len(seen)
          /\ ctx \in Contexts(ctx) /\ ctx.long \in BOOLEAN /\ Price(ctx) \in Nat
          /\ ctx.closes = seen /\ ctx.series = Precompute(MaRsiNodes(p), seen)
      BY <2>2, <2>3, <2>4, <2>5, <2>6, <2>7, <2>8, <2>10, <2>11
    <3> HIDE DEF s
    <3>2. EvaluateRules(s.rules, ctx).signal = MaRsi(p, seen, ctx.long)
      BY <3>1, TwinAnswers
    <3> QED BY <3>2 DEF s
  <2> QED BY <2>8, <2>10, <2>12, <2>13 DEF p, seen
<1> QED BY <1>1, RunIsFollowed, RunsOfEngine, Accounting, PTL

=============================================================================
