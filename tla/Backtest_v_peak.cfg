SPECIFICATION BacktestSpec
CONSTANTS
  InitialCapital = 10000
  CommissionPct = 1
  SlippagePct = 2
  Closes <- MCCloses
  Unit = 1000
  MaxCandles = 5
  Deposit <- MCDeposit
  PeriodSlices = 3
  MaxChartPoints = 3
  Catalogue <- MCCatalogue
  Clock <- MCClock
INVARIANTS
  PeakSinceEntry
CHECK_DEADLOCK FALSE
