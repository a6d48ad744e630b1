# BackTestBench: a verification development

BackTestBench back-tests trading strategies on broker candles. A Next.js interface
(`frontend/`) spawns `main.py` as a separate process for every command; the processes
share nothing but files: the coordination files, the dashboard and the configuration in
`data/` and `config/`, and one SQLite database of candles. There are no locks besides one
lock file for the Live refresh. This directory holds TLA+ models of the parts whose
correctness depends on order, on interleaving or on arithmetic, TLC runs of small
instances, and TLAPS proofs for every instance.

Line numbers below are those of the modelled commit. `PROJECT.json` maps every definition
that models code to its lines, lists the hazards, the runs, the mutants and the theorems.

## 1. Inventory

| Component | State | Operations | Module |
|---|---|---|---|
| Execution engine (`src/engine/execution_engine.py`, `order_executor.py`, `portfolio.py`) | cash, position, entry price, cost basis, equity, trade log, equity curve | one candle (BUY, SELL, HOLD), forced close, report | `ExecutionEngine`, `PositionLedger` |
| Run control (`main.py` 100-440, 1174-1295; `frontend/app/api/bootstrap`, `stop`, `live-run`) | `backtest.stop`, `.pending`, `.pid`, `live-run.json`, `live-run.tick.lock` | prepare-bootstrap, bootstrap, stop, live-run-start, -tick, -status, -stop | `RunControl` |
| Candle cache (`src/data_loader/backtest_fetch.py`, `loader.py`) | SQLite candles by (instrument, timeframe), `market-data-meta.json` | `ensure_backtest_candles`: clear, bounds, gaps, fetch by window, load | `CandleStore` |
| Dashboard file (`main.py` 538-660, 1174-1330; stop route) | `runtime-dashboard.json` and its `.tmp` | every command's load, change, save; the stop route's patch | `Dashboard` |
| Composition of a back-test (`execution_engine.py` with a strategy) | the above, the strategy's memory, the portfolio's effects | one candle, report | `Backtest` |
| Built-in and composable strategies (`src/strategy`) | closes seen; peak, stop level, candles in the trade | signal of a candle | `Strategies` |
| Metrics (`analytics/metrics.py`, `strategy_verdict.py`, the chart of `main.py` and of the page) | none | figures of a report, verdict, chart | `Metrics` |
| Parameter search (`optimization_engine.py`, `main.py` 894-1060, 1214-1290) | combinations left, iterations, best, entries, saved parameters | next combination, end of a search, next strategy, stop, Live tick | `ParameterSearch` |
| Ranking (`analytics/ranking.py`, `optimizer.py`, `validation.py`) | stored validations | top N, moves, review | `Ranking` |
| Broker adapters (`src/broker_adapter`), validation, `ensure_candles_loaded` | page cursor, session, cache of the loader | connect, page, deliver, store, serve | `Feeds` |
| Configuration file, strategies, tokens (`config/dashboard.json`, `config/strategies`, `.env`) | the files, one copy per process | settings, toggles, best parameters, add, delete, tokens | `Settings`, `Catalogue` |
| Trading bot (`src/engine/trading_bot.py`) | none of its own | load, back-test, paper order | in `Feeds` and `Backtest` |
| Progress file | percentage | start and end of a strategy | in `ParameterSearch` |
| Browser interface (`frontend/app/page.tsx`) | React state | two decisions only | in `Metrics` and `ParameterSearch` |
| In-memory `CandleCache` | dictionary without the window in its key | get, set, clear | one key, in `Feeds`: off on every path of `main.py` |
| Database session, empty packages, generated code | see `PROJECT.json` | | not modelled, reasons in `PROJECT.json` |

How they interact. The interface posts to a route, the route spawns `main.py <command>`.
`bootstrap` loads candles through the candle cache, runs the engine (under the parameter
search) for each enabled strategy, and writes the dashboard after each step. A Live tick
does the same for one strategy. Both ask the files of run control who may run. The stop
route writes the stop file, signals the pid in the pid file, and patches the dashboard.

What is hard here, and what makes each part correct:

* **Interleaving of processes on files.** Each test, write and unlink is a step of its own.
  No Live refresh may join a back-test; the pid file must name the run that works; two
  ticks must not refresh together; a stop must end the run.
* **Crashes and restarts.** The container is restarted with its `data/` mounted, and the
  stop route itself kills with SIGTERM, for which `main.py` has no handler, so that `finally`
  clauses do not run. What is left behind must not confuse the next run.
* **Load, change, save.** Every process keeps a dashboard of its own in memory and saves all of
  it, through one temporary file that they share. Whatever copies cross, the ranking must fit the
  results, a finished run must leave nothing "running", and a reader should find a whole file.
* **Partial failure.** Candles are fetched in windows and committed one by one, and later
  loads look at the table's bounds only. A table must not keep holes.
* **Accounting.** The report must add up: the metrics raise `DataIntegrityError` when the
  profits of the trades are not the change of the capital. Positions are all-in, the last
  one is closed by force, and fees and slippage must not be lost or counted twice. The figures
  are quotients of what may be zero, over slices and thinned-out charts.
* **State beside the account.** A composable strategy learns of its own fills a candle late and
  keeps peak, stop level and candles in the trade by itself. What belongs to a trade must end with it.
* **Following from what was run.** The best parameters, the table of a search, the entry, the
  configuration, the ranking and the parameters Live starts with are written apart from each
  other, and a stop may come between any two.
* **Unreliable sources.** Exchanges refuse, ignore a cursor, or revise the bar that is still
  open. A load must end, deliver each candle of the window once, and serve nothing inconsistent.

Every hazard of this kind is listed in `PROJECT.json` with its line and the properties that
would catch it, or the reason why none does yet.

## 2. Modules and how they correspond to the code

### ExecutionEngine, PositionLedger

Variables are the fields of `Portfolio` (`cash`, `position`, `entryPrice`, `costBasis`,
`openedAt`, `equity`), the lists `run` returns (`tradeLog`, `curve`), `bar` (the candles
processed) and `realized`, the sum of the profits in `tradeLog`. `BuyBar`, `SellBar` and
`HoldBar` are one pass of the candle loop with that signal (`execution_engine.py` 31-52:
`OrderExecutor.execute`, `Portfolio.update_equity`, the point of the curve); `Finish` is the
forced close and the return (53-75). The strategy is left free: any signal at any bar.

Money is in whole cents, a quantity in 1/`Unit`, divisions round down where binary64 rounds
to nearest. What is abstracted is therefore the rounding error, not the order of the
operations: the properties are exact on integers, where the code allows a tolerance.
`MaxCandles` bounds the list. Assumptions: commission 0..10 % and slippage 0..5 % are the ranges
`backtest_config.py` accepts; `Unit` is at least every fill price, so that a fill never
rounds to a quantity of nothing.

`PositionLedger` is the abstract specification: `holding`, `capital`, `realized`, and two
actions, `Open` and `Close`. `ExecutionEngine` implements it with the capital being the
cost basis of an open position, or else the cash (`ImplementsLedger`).

### RunControl

`stop`, `pending`, `pid`, `live` and `lock` are the five files; `writers` are the clients whose
open handle is on the present `live-run.json` (a save truncates first and writes at close,
and writes to nowhere if the file was unlinked meanwhile: `Torn`). `run` is where each
request of POST `/api/bootstrap` is, from `prepare-bootstrap` through the detached process to its
`finally`; `pc`, `stage`, `arg`, `tries` are a process serving live-run commands; `stopper`,
`target` the stop route. `asked` and `inflight` are history variables for the properties.

| Actions | Code |
|---|---|
| `Request`, `RunClearLive`, `RunClearLock`, `PrepareMark`, `Spawn` | `bootstrap/route.ts`, `prepare_bootstrap_command`, `clear_live_run` |
| `BootMark`, `BootClearStop`, `BootWritePid`, `LoadCandles`, `LoopTop`, `WorkEnds`, `FinallyPid`, `FinallyPending`, `FinallyStop` | `bootstrap_all` |
| `StopWrite`, `StopReadPid`, `StopKill` | `stop/route.ts` |
| `Call` | the live-run routes |
| `GatePending`, `GatePid`, `GateUnlink` | `is_backtest_active`, `is_backtest_running` |
| `Load`, `LoadOpen`, `LoadUnlink` | `load_live_run`: the test, the open with the parse, and the unlink of what is there by then; each goes on with the decision of its caller (`FoundForStart`, `FoundForTick`, `FoundForStatus`, `FoundForStop`) |
| `Acquire`, `LockBusy`, `LockGivenUp`, `Reload`, `ReloadOpen`, `ReloadUnlink`, `Compute`, `Unlock` | `live_run_tick_command`, with the second `load_live_run` under the lock |
| `SaveOpen`, `SaveWrite`, `ClearLive`, `ClearLock` | `save_live_run`, `clear_live_run` |
| `RunDies`, `ClientDies` | a killed process or a failed spawn |

The dashboard writes of the same processes are not part of this module, but that they may raise is: such an exception in
the strategy loop leaves it for the `finally` clause (`WorkEnds`).

### Dashboard

A dashboard is a status for each strategy and the set of those it ranks; `live` is a
completed entry with `live_active`. `file` and `tmp` are `runtime-dashboard.json` and its `.tmp`, `hand`
says on which of them a process has an open handle (a rename moves the handle along, and an
unlinked file keeps its writer), `mixed` whether two processes have opened the same inode.
`copy` is what a process has in memory, `todo` the strategies a run has not begun.
A process serves one command, or is one run, or one stop request.

| Actions | Code |
|---|---|
| `LoadDashboard` | `load_dashboard`: the default for a missing or unreadable file, and the save inside it when results are not ranked |
| `ConfigFails` | the rest of `load_dashboard`, when the configuration is being written by another process: the default dashboard whatever the file holds, or, as that needs the configuration too, an exception |
| `SaveOpen`, `SaveWrite`, `SaveReplace`, `SaveFails` | `save_dashboard`, with what follows it (`AfterSave`), or its exception when another process has moved the temporary file |
| `Call`, `Repair`, `ClearLive`, `RefreshRanking`, `SetEnabled`, `Tick` | `main`, `repair_runtime_dashboard` and the commands |
| `Bootstrap`, `Start`, `Begin`, `Candles`, `Loop`, `Work`, `End` | `bootstrap_all`, from its load to its `finally` |
| `StopRequest`, `StopKill`, `StopRead`, `StopOpen`, `StopWrite`, `StopDies` | `stop/route.ts` |
| `Die` | a process that is killed |

`damaged` and `current` are history variables: whether two saves have crossed or a patch was cut
short since the last save that nobody crossed, and whose copy is of the present file. The set of
strategies does not change: what `add-strategy`, `delete-strategy` and `sync_dashboard_strategies` do to
this file is left out, as are the parameters of an entry (`ParameterSearch`). What load and save do to a file is POSIX's: on
Windows `os.replace` fails while another process has the file open.

### CandleStore

A table is the rows of one (instrument, timeframe); `rows` is the database, `meta` the table
that `market-data-meta.json` names. A loader is a process inside `ensure_backtest_candles`:
`Call` (read meta, decide whether a timeframe is replaced), `ClearCandles`, `SaveMetaOpen`
and `SaveMetaWrite` (the file is rewritten in place), `ReadEarliest` and `ReadLatest` or
`ReadNoBounds` (two separate queries, then `coverage_gaps`), `FetchHead`, `FetchTail` (one
window of `chunk_windows`, with its commit), `FetchNothing` (an empty answer is an
error), `LoadCandles`, and `Fail` anywhere. `head` and `tail` are what is left of the two gaps;
the cursor of a gap is its `from`. `torn` is a history variable: the tables that a broken-off head
gap, a clear under a load, or two first loads at once have damaged.

A broker answers a window with all the candles the market has in it: `Feeds` is about
the adapters, and its `DeliveryIsExact` says when they do. An answer and its commit are one step because nothing that another
process can change is read between them. Candles carry only their time, not whether their
bar was over.

### Backtest, Strategies, Metrics

`Backtest` extends `ExecutionEngine`: a candle (`Candle`) is one of its bars whose signal is the answer of
the chosen strategy, and `Report` its `Finish`. `strategy`, `closes` and `memory` (`StrategyState`) are the
strategy's, `effects` is `Portfolio.effects`. `View` is what `on_candle` is shown: the engine values the
portfolio only after the candle. The strategy `free` answers anything, so that the engine's properties
are still checked against every signal; strategies that `create_strategy` refuses are not started. What it refuses of a
composable one is what `compile_strategy` checks: that there are rules and that the series they name are defined (`Compiles`).
Whether the series can be computed is only seen by `topological_order` at the first candle, which then raises
(`Computes`, `StrategyRaises`): the run ends without a report.

`Strategies` has the three built-in strategies and the interpreter of composable ones: the series (price, `sma`,
`ema`, `rsi`, `shift`, `diff`; `Precompute` in the order of their dependencies), the predicates (`Holds`), the
rules by priority and scope, the actions, and `Remember`, by which the memory follows the position. A value is in
1/`Scale` where binary64 is exact enough not to matter; a value that does not exist yet is none. `SmaNext`, `EmaNext`
and `Round` are the bodies of the loops of `sma`, `ema` and `precompute`. A condition is the list of its nodes, the first being the
whole, so that `Holds` is a function of the places and not a recursive operator; `Atom` is a node without conditions below
it, `Consider` one rule in the loop of `evaluate_rules`. `MaRsiNodes` and `MaRsiRules` are
`config/strategies/ma_rsi_composable.yaml` without the two rules that sell at a loss or a profit, which
`ma_rsi` does not have.

`Metrics` has the figures of a report as integers and pairs (numerator, denominator), so that a comparison is
exact; where the code takes a root or a power (Sharpe, Calmar) the model keeps the sign. `ChartSeries` thins a
chart as `main.py` does, `InPosition` shades it as the page does.

### Listing

What the code does with `sorted`, with comprehensions and with `dict.update`: `Sorted` and `SortedBy` (an element's place is
the number of those before it), `Kept`, `Ascending`, `Total`, `Over`. They replace `SortSeq`, `SelectSeq` and `@@`, whose operator
arguments and CHOOSEs tell the prover nothing; `Listing_proofs` states once what they return.

### ParameterSearch, Ranking

One run over its strategies once the candles are there. `TakeUp`, `Leave`, `Iterate` (`Invalid`, `Skipped`,
`Evaluated`), `EndSearch`, `Decide`, `Complete`, `Single`, `StrategyFails` and `Rank` are the loop of `bootstrap_all` with
`run_strategy_backtest` and `run_optimization`. `Decide` writes the best parameters to the configuration, `Complete` makes and
saves the result: an exception (`StrategyFails`), a signal or a failing save (`BreakOff`) may come between. `Tick` and `RefreshRanking` what Live and the page do
afterwards; `StopRequest` may come at any moment and is only looked at where the code looks. The back-test of a
combination yields any of a few reports, which is what `Backtest` justifies. A report of an iteration lacks the figures that need the chart
(`WithoutChart`); the one of the best combination is made again with it. `Ranking` sorts by the keys of
`_ranking_key` and of the iterations, stably, as Python's `sorted` does; `Best` is the first of a list with the greatest key.

### Feeds

One load of `ensure_candles_loaded` (`Call`, `ReadRows`, `ServeStored`, `Connect`, a page or an answer of one of the four sources,
`RequestFails`, `StoreCandles`, `Reload`, `DatabaseFails`), or one `get_candles` with a limit (`CallAdapter`). Time is counted
in bars, the cursor of Binance and Bybit in milliseconds. `market` has a version of each bar: `BarOpens` and
`BarIsRevised` change it while pages are asked for, and another process stores (`PeerStores`, also what it
has seen a while ago) or clears. An exchange may ignore the cursor of a request. The rows of a query are objects of an ORM
session that the commit after it expires (`session.py` 69 leaves `expire_on_commit` on): their values are read again when
they are asked for (`Reread`), be it at once or, in the except clause, after the request. A row has then the values that are stored of its
bar; when a peer has cleared the table in between, its id is gone, which raises, or has been given to any other bar. `honest`, `atStart`,
`disturbed` and `cleared` are history variables. HTTP and gRPC messages are left out: a request ends as one of `Outcomes`.

### Settings, Catalogue

`Settings` is `backtest_config.py`. In `Catalogue` a process serves a command: `Start` (with the import that registers strategies),
`SanitizeLoad`, `LoadConfig`, `SaveOpen` (truncates), `SaveWrite`; `AddCheck`, `AddOpen`, `AddWrite`, `DeleteUnlink` for the YAML files;
`RunSearch` for the parameters a run finds; `VerifyTokens`, `EnvRead`, `EnvOpen`, `EnvWrite` for `.env`; `Fail` anywhere.
A YAML file is one of a few texts (`Texts`), with the choices of its parameters; a text that is written to a file somebody has deleted
since it was opened is gone with it (`linked`). `NormalSettings` is what `validate_runtime_settings` makes of names in another case, with
blanks around them, and of numbers given as text (`Normals`, a constant). `saved` and `savedEnv` are what the files would
be if every save were atomic, `stale`, `lost` and `orphaned` what a crossing has done to that: history variables.
The set of commands of a run is its `agenda`.

## 3. Runs

| Run | Instance | Question |
|---|---|---|
| `engine` | twelve strategies (three built-in, eight composable, one that answers anything) of seventeen, five being refused; up to 5 candles, closes {0, 80, 100, 130}, commission 1 %, slippage 2 %, charts of 3 points, 3 slices | Do account, report, figures, chart and the strategy's memory fit each other, and is every fill a step of the ledger? |
| `runs` | 2 consecutive runs with 2 strategies, 1 client, crashes | Does a run own its files, whatever the one before left behind, and does no refresh begin beside it? |
| `lock` | 3 clients, 2 lock attempts, crashes, no back-test and no stop command | Does the tick lock exclude? |
| `fair` | 1 run, 1 client, crashes, fairness | Do commands return and runs end? |
| `races` | 2 loaders, 2 timeframes, 2 windows of 12 s, a market that is closed for two of them, requests of one bar | Are holes temporary, and loads complete, in every interleaving with failures? |
| `saves` | 1 run, 1 command, 1 stop request, deaths; 2 strategies, one of them enabled; no dashboard yet, a finished one, or one of a run that died | Does the dashboard stay sound whatever loads and saves cross? |
| `search` | 2 strategies, one with 3 x 2 combinations and 2 constraints; 5 reports; grid, and samples of 2; a stop, a failure or a death anywhere; afterwards 3 in all of strategies that go live and validations (`MaxLater`) | Do best result, saved parameters, table and ranking follow from what was run? |
| `feeds` | 4 sources, a window of four bars of which the market has two and opens a third, pages of 1 (Binance) and 2 (Bybit), a cap of 3, a limit of 2, 2 versions of a bar, one of them inconsistent; fairness of the load | Is what is delivered and served right, and does every load end? |
| `catalogue` | 2 processes, 2 strategies, 4 texts, 6 agendas, deaths | Do saves survive, settings stay valid and overrides fit? |
| `v_autostop`, `v_hole` | 1 run and 1 client; 1 loader | violations, see section 6 |
| `v_peak` | as `engine` | violations, see section 6 |

Why these bounds are enough to be interesting. Three candles open, close and open a position
again, five let two trades complete and the forced close end a third; the prices contain a
fall, a rise and the non-positive price the guards are for; five candles make six points of a curve, more than a
chart of three keeps, and four chart values, which three slices share unevenly (one, one and two), and are twice the longest window
of a series, so that warm-up, crossings and a trailing stop over several candles occur. Two runs are needed for what
one leaves to the next, and a third adds no other kind of predecessor: a run is over or dead.
Three clients are a holder of the lock, one that waits and one that removes. One or two lock
attempts stand for 300: what matters is whether there is another one. In `races` the window
has up to six bars and a request covers one bar, so that gaps are broken off in the middle, a
second lookback is shorter than the first, and two timeframes of one instrument clear each other.
In `saves` a run, a command and a stop are one process of each kind that writes the dashboard: the run
saves six times or more, so that the command crosses it at each of its points, and the two saves of the pair are what a
third would repeat; one strategy is worked on and one is kept from before.
In `search` the grid has combinations that are invalid, that a constraint refuses, and that run; the five reports contain
equal profits with different verdicts. In `feeds` every bar is a full page of Binance, and the bars of a page of Bybit may be all there are, so
that an empty page follows full ones, and a bar that opens comes as the last. In `catalogue`
every pair of commands that write one file is in an agenda, also a deletion and a second text of the same strategy.
The `runs` run uses one strategy identifier and one lock attempt to stay small; `lock` has the rest.

Deadlock is not checked for the engine and the search (they return), for run control and for the dashboard
(all processes may be over); it is checked for the candle cache, the feeds and the catalogue.

Each property of a passing run has a mutant in `PROJECT.json`: a change of one definition,
such as a bug would make, under which the run finds the property violated.

**Fairness.** `FairSpec` has weak fairness on the steps of a process that has been started
(`RunStep`, `ClientStep`, `StopStep`): the operating system schedules it, and none of the loops of the
code blocks on another process for ever (the lock loop is counted). There is none on
requests, calls, stops or deaths. `FeedsSpec` has weak fairness on the steps of a load that has begun: every request
has a time-out (`API_TIMEOUT` for T-Bank, `tbank.py` 132, aiohttp's default of five minutes for the others), so that it ends in one of its outcomes. Nobody has to
call, and the world owes nothing: `LoadEnds` must hold against an exchange that always answers full pages.

**Instance parameters.** `AllowCrashes` lets processes die by themselves. `AllowOverlap` lets
a second run be requested before the first one ended. Where it is FALSE, and in `Dashboard`, the button of
the interface is relied on, which is disabled during a run: POST `/api/bootstrap` does not test. The button is enabled
again as soon as the dashboard shows no strategy running, that is right after the answer of a stop and between the
last save of a run and its `finally` clause, so that this is an assumption about time: nobody starts
the next run in these moments. With `AllowOverlap` TRUE `PendingCoversRun` fails: the
finally clause of the first run unlinks the pending file of the second.

## 4. What is proved

All theorems hold for every value of the constants that satisfies the module's assumption, and
are checked by TLAPS. (`*_proofs.tla`.)

* **Listing.** What sorting returns: a sequence with the same elements, each once, in the order of the keys, equals in
  the order they had (`SortedByOfOrdered`: a list that is in order stays as it is); what filtering returns; what a sum
  over a sequence is, and that it does not depend on the order. A fold and a recursive function are followed through
  their values, one place after the other: a set of the places for which a fact holds that has 0 and with each place the next
  one has all (`PrefixInduction`, by the least place that would be missing). That form needs no operator parameter.
* **The engine** (`Backtest_proofs`). `TypeCorrect`, `Integrity` (`PnlIntegrity`), `AllIn`, `Reports`
  (`TradesInOrder`, `CurveMatchesReport`), `CostsAreCosts` (`CostsNeverPay`) and `Refinement` (`ImplementsLedger`). The invariant
  `IInv` adds to the properties what makes them inductive: the books, that
  `realized` is the money at work (cash, or the cost basis) minus the initial capital, at every
  bar and not only at the end, and that a flat account has cleared its fields. The arithmetic is in lemmas about
  division (`FeeBound`: a fee never exceeds the value it is taken from; `BuyFills`: a fill has a
  positive quantity, where the assumption on `Unit` is needed). `CostsAreCosts` adds `Bought`: an open
  position is worth no more at its entry price than was paid for it, so that no rounding favours the trader.
* **Backtest** (`Backtest_proofs`). `RunsOfEngine`: a back-test with any strategy is a behaviour of the engine, so that
  what is proved of the engine holds of it. On top of that, for any catalogue of strategies:
  * `MemoryOfTheTrade` (`MemoryFollowsPosition`) from `RunInv`: the strategy has seen the closes of the bars so
    far, and its memory is that of the trade. A fill is learned of a candle late, hence the clause that an open position
    is in the memory exactly from the bar after the fill (`wasLong <=> bar > openedAt`). That nothing of a trade is left, and that there is one
    stop-loss effect at most, is proved of rules that buy when flat and move the stop when long (`KeepsToTrades`), as those in `config/strategies`
    do; `compile_rules` does not ask for it, and a rule without a scope does neither. One stop-loss effect also needs that every order could be
    filled (`OrdersFill`), since a refused order leaves its effect behind.
  * `StopsFollowTrades` (`TrailingStopFollowsTrade`), for strategies whose first rules move the stop and sell at it (`Trails`, read off the rules): while
    a position is open the stop is the fraction of the peak it should be, because the rule that moves it is asked on each
    candle before one that ends the evaluation.
  * `VerdictsFollowProfits` (`VerdictFollowsProfit`) from `ProfitsAreBooked`: the profits in the log add up to `realized`,
    and the gross profit and loss are the sums of the positive and the negative ones.
  * `DrawdownsAreWorstFalls` (`DrawdownIsWorstFall`): the running maximum of falls from a running peak is the greatest
    fall between any two points. Falls are ratios, so that the proof rests on the order of ratios being transitive.
  * `PeriodsSplit` (`PeriodsSplitTheRun`): the slices are cut at quotients of sums, and cover each point once.
  * `ChartShows` (`ChartShowsPosition`): the events of the log alternate and are in order, so that sorting leaves
    them as they are and the last BUY before a point is the trade that is open there.
  * `SeriesSeeNoFuture` (`SeriesAreCausal`), for any nodes: each series function extends its result when its source is
    extended (`Extends`), and a round of `precompute` keeps that for all the series known so far (`Grows`).
  * `TwinsAgree` (`ComposableAgreesWithBuiltIn`), for all parameters `ma_rsi` accepts and all closes: a running sum is the total of its window
    (`IsWindow`), the mean and the index are those of the built-in, which computes them from the last closes in another
    unit (`TotalScaled`, `RsiOfScaled`), and of the two rules of equal priority the scope decides.
* **RunControl.** `TypeCorrect` without restrictions. `RunsAreCovered` and `HeardStopsEndRuns`
  for runs that do not overlap, from `RunInv`: at most one run is not over, its pending file is
  there while it is marked, nobody but the run itself unlinks the pending or the stop file
  between, and each refresh that is past its last check is in `inflight`. `TicksExclude` for any number
  of clients that crash and retry, while nobody calls `clear_live_run` (no back-test, no stop
  command), from `TickInv`: a client in the section owns the lock file.
* **CandleStore.** `TypeCorrect`, `HolesAreTemporary` (`HolesAreBeingFilled`) and
  `LoadsComplete` (`LoadsAreCovered`), for any number of processes, tables, markets, windows
  and request sizes. The invariant `CacheInv` says of each load of an undamaged table what it may rely on at each
  point: the rows it saw as the bounds are still there (`Anchored`), what lies before the
  cursor of a gap is stored (`HeadDone`, `TailDone`, `FillDone`), and at most one load fills an
  empty table (`FillsAlone`). A hole between stored rows then lies ahead of somebody's cursor. `LoadsAreCovered` follows: a row of the
  window that is missing would be such a hole, or outside bounds that the load saw.

* **Dashboard.** `TypeCorrect`, `InductiveInvariant`, `RankingIsSound` (`RankedAreCompleted`), `DashboardIsWhole`
  (`FileIsWhole`), `RunsFinish` (`NothingLeftRunning`) and `CommandsKeepResults` (`ResultsAreKept`), for
  any number of strategies, runs, commands and stop requests. `IInv` has a part for the files (`Rank`: they
  rank only what is completed), for each process (`Sound`: its copy does, too, and the strategies
  that a run shows running are those in `todo` and at most one more), for the saves (`Whole`: unless two have crossed, one process
  saves at a time, its handle is on a temporary file of its own, and what it is about to
  move is its copy) and for the commands (`Kept`: a copy of the present file has all its results). The files
  alone are not inductive: what is written is somebody's copy, of whatever age. For the ranking that does no harm,
  for the results it does, hence `current`.

* **Catalogue.** `SettingsAreValid` (`SettingsStayValid`), `SavesAreKept` (`SavesSurvive`) and `OverridesAreOfTheText`
  (`OverridesFit`), for any number of
  processes, strategies, keys and settings. The configuration file alone is not inductive here either: what is written is a
  copy of any age, changed by updates that were checked against that very copy, hence `Copies`. For
  `SavedInv`, a copy agrees with what was saved on each key, except those another process has saved since it was read
  (`stale`) and those an older copy has undone (`lost`). `TextsInv` says of each process that what it is about to save
  fits the text it has read, unless that was deleted or replaced since (`orphaned`).
  Looking for it showed a case of `orphaned` that takes three processes, and that the run with two cannot reach.
* **ParameterSearch.** `BestIsFound` (`SearchFindsBest`), `GridsAreExhausted` (`GridIsExhaustive`), `ConfigFollows`
  (`ConfigFollowsResult`) and `RankingsAreFair` (`RankingIsFair`), for any
  strategies, choices, constraints, reports and orders of the combinations. The properties of a search speak of its
  end; `SearchInv` says what holds on the way: every combination that can be run has been tried or is still on the
  list, and the best so far is the first of the iterations that earned the most. `EntriesInv` ties each entry to
  the configuration: a strategy that was not left yet has its configured parameters and no result, unless its best ones have just been
  written, and one that was left has the parameters its result was found with, or none was found, or making the result failed. `RankingInv` is about the list: the keys of the ranking are ordered lexicographically,
  a grade weighs most; the moves are the differences of two orders of the same strategies, whose sums are
  equal, hence they add up to nothing; a review shows the latest stored validation. `ListAssumption` says that the combinations are
  finitely many, which the proof uses where TLC computes the list.
* **Feeds.** `DeliveriesAreExact` (`DeliveryIsExact`) and `LoadsServeGoodRows` (`ServedRowsAreGood`), for any market,
  window, page size, cap and limit, from `FeedsInv`: the pages so far are the bars of the window up to (or, for the exchanges that page backwards, from) the cursor
  (`PagesSoFar`), a bar that is delivered is a version the market has had and is the present one unless it was revised under the load
  (`MarketGrows`, `Delivering`), the table holds sane rows whoever stored them, and between its commit and its second read it holds what the load
  has delivered, unless somebody else stored or cleared (`Committed`). Rows that are read again are sane whatever they have become, and
  of the window in its order as long as nobody has cleared the table (`RereadIsGood`).

The type invariant of `Dashboard` is not in the configuration of its run: what `TypeCorrect` proves needs no instance.

What the proofs assume of the constants is in the ASSUMEs of the modules. `BacktestAssumption` gives the values of a composable definition
their types (`SoundStrategy`, `SoundNode`, `SoundRule`): periods and lags are natural numbers, periods not 0, scopes and actions those there are, the percentages of
a stop-loss are integers. Three of these the code checks only when a candle needs them, or not at all: a period of 0 or a negative one,
a trailing percentage outside 0..100, and a `move_stop` without one (`actions.py`) are outside of what is modelled. It is not assumed that a rule has a
particular scope, that series can be put in order, or anything of the strategy as a whole. One that is said to be the twin of `ma_rsi`
(`IsTwin`) has the nodes and rules of the definition with parameters `ma_rsi` accepts. `CatalogueAssumption`: a text's defaults and the order sizes it
offers fit its own specifications, and the files fit at the beginning. `SearchAssumption`: the strategies of a run differ, and a report has the
fields of one. `FeedsAssumption`: windows, pages, caps are not empty. `MetricsAssumption`: deposits and slices are
numbers. TLC evaluates each of them on the instance of its run.

Only model-checked: `CommandsReturn`, `GateReopens` and `LoadEnds`, which are liveness under fairness and beyond the
prover; and the violations. Every invariant and every action property of the passing runs is stated by a theorem, five of
them under a condition: `NoWorkAfterStop`, `NoLateRefresh`, `PendingCoversRun` and `PidNamesTheRun` for runs that do not overlap, `AtMostOneTick`
while nobody calls `clear_live_run`.

## 5. Assumptions worth knowing

* A file is created exclusively (`O_CREAT | O_EXCL`), unlinked and replaced atomically, as POSIX has it.
* A commit of SQLite is atomic and durable.
* Pids are not reused: `kill(pid, 0)` succeeds only for the process that wrote the pid.
* The pid and the stop file are written in one step; their content is one small write.
* The rows of one query are read again at one moment, and the ids of a cleared table go to rows of the same series.
* A query for candles whose answer is empty raises (`main.py` 740), for every source.

## 6. Disagreements between the documents and the code

Three are runs that TLC refutes:

* `v_autostop`: "One strategy at a time. Auto-stops when bootstrap starts."
  (`docs/api_description.md` 40). A tick that has passed its checks and computes while the run starts saves the state it
  had loaded, and Live is on again.
* `v_hole`: an empty list of gaps means "DB is enough" (`backtest_fetch.py` 81). A head gap that is broken
  off leaves a hole behind the new earliest candle that no later load of the window sees.
* `v_peak`: `peak_price` is the "highest price seen since entry" (`composable/context.py` 17). The strategy learns of its
  fill a candle late and starts the peak there (`strategy.py` 83), without the close it was entered at: entered at 100,
  with 80 next, its stop is set from 80.

The others were met while modelling. The models have these behaviours, and the properties exclude them in words,
unless a line says that they are below the level of the model.

Runs and Live:

* "Stop file + terminate bootstrap subprocess" (`docs/api_description.md` 25): a stop between
  `prepare-bootstrap` and the pid file finds no pid, and `clear_stop_request` of the run it was meant
  for removes its stop file (`main.py` 1179).
* The stop route's SIGTERM (`stop/route.ts` 36) skips the `finally` clause; `backtest.pending` stays, and Live is
  refused with "Stop the running backtest" (`main.py` 293) though none is running.
* `clear_live_run` removes the lock of a tick that is still running; a reader of a truncated `live-run.json`
  deletes it; POST `/api/bootstrap` does not test for a running back-test.

Dashboard:

* "Writes use a temporary file followed by `os.replace`. This is atomic at file level"
  (`docs/analytics_data_model_specification.md` 177). The temporary file has one name for all processes
  (`main.py` 597): a command that saves during a run, such as the ranking refresh that
  `page.tsx` 1463 posts by itself, can be moved to the dashboard half written, and the other process then finds its
  temporary file gone. A reader of half a file shows, and `load_dashboard` loads, an empty dashboard.
* A run saves the copy it loaded at its start, so that a Live result or a toggle saved meanwhile
  disappears; a strategy that is disabled after a run died on it is shown running by every later run.

Candles:

* `_fetch_gaps` passes over an empty window (`backtest_fetch.py` 146), but the fetch function raises (`main.py` 740): a window that begins or
  ends in closed hours loads once and fails ever after.
* The upsert lets the last writer win, also with an older version of a bar; `_rows_cover_window` counts
  rows and does not look at how recent they are.
* With `limit`, three adapters keep the oldest bars of a window and Twelve Data the newest.
* The rows that `ensure_candles_loaded` serves were expired by its commit and are read one by one: after another process has cleared the table
  the load ends with `ObjectDeletedError`, or serves candles that have been given their ids. The comment in `loader.py` 292 is about the lock only.
* A `CandleCache` key has no window, so that a second, wider load on one loader would be cut short; no command does that.
* T-Bank's `connect` leaves its session open when it fails. Twelve Data's `connect` accepts every error but that of the key, and
  T-Bank's looks at the gRPC status only: a token may be shown as verified without having been accepted.

Back-test:

* `compile_strategy` says that anything structurally wrong raises "at load time, rather than failing partway through a
  backtest" (`compile.py` 11). Series that need each other, or one that is not there, are not looked for until `precompute` puts them in
  order (`series.py` 171), at the first candle: `create_strategy` accepts such a definition and every back-test and tick of it raises.
  `engine` runs two of them (`Cyclic` and `Unfed` in `MCBacktest`).
* `calculate_profit_factor` "Returns 0 when there are no losses" (`metrics.py` 63), but it returns the gross profit then, an amount of money, which
  the verdict compares with factors and the ranking sorts by. `VerdictFollowsProfit` is about reports with losses.
* The engine takes a strategy's stop-loss and take-profit effects and does nothing with them (`composable/actions.py` 8-18 says that the engine can, and does, enforce
  them); `Signal.size` is ignored likewise, and a `move_stop` may lower the level that is shown.
* `on_candle` "must not mutate the context or its portfolio" (`strategy/base.py` 34-36); composable strategies write effects to it.
* `vs_buy_hold` takes an index of 0 for 100 (`or 100.0`, `metrics.py` 178-181), and an exit price of 0 is shown as the entry price.
* Composable strategies have no warm-up: they act as soon as their predicates hold.

Search:

* The best result is the first with the highest profit, the table is ordered by the ranking's keys, and Live starts from
  the first row of the table: these may be different parameters.
* A run starts with an empty ranking, so that moves (`previous_rank`) never appear after it.
* `exhaustive` is set for every grid (`main.py` 869), also when combinations failed or were cut off by a stop.
* The best parameters are saved before there is a result (`main.py` 1014): a run that dies or fails there leaves them with an entry that is
  running or in error.
* Reports of iterations lack the figures that need a chart; the branch of `run_optimization` for a single run is not reachable.

Configuration, strategies, tokens:

* `config/dashboard.json` and `.env` are truncated and rewritten. A crash in between leaves a configuration that every later command
  fails to read (`load_dashboard`, meeting it during a save, takes the default dashboard), or an `.env` without `DATABASE_URL`; two saves of tokens
  at once can lose a key as well.
* A crash in `add-strategy` leaves an empty YAML file that blocks the identifier and is not listed.
* A YAML file with the identifier of a built-in strategy is passed over without a word; one that validates may still
  not compile; a process that started before the file was added does not know it.
* A run writes overrides for a strategy that was deleted under it (`main.py` 508).
* `set-strategy-enabled` saves the configuration and the dashboard one after the other.
* `Payload` passes None for a missing key, so that the defaults of `validate` never apply; NaN passes the range checks.
* The environment of the process wins over `.env` for the adapters, and loses to it in `token-status`. `save-tokens` reports every token as valid.

## 7. Not modelled, and what is left of the plan

Not modelled: the SQLite session and its pragmas (`init_db` deletes the journals of other processes, which is below the level
at which a commit is atomic); empty packages and generated protobuf stubs; the stored and plug-in strategies of `store.py`,
`config.py` and `loader.py`, which no command uses; React state and polling; order placement and portfolios
of the adapters, which raise `NotImplementedError`.

Left of the plan:

1. `Workflow`: the page of the interface (its request flag, its polling, its time-out after 180 s) over an
   abstract run, to put the assumption that runs do not overlap to the test.
2. `add-strategy`, `delete-strategy` and `sync_dashboard_strategies` in `Dashboard`, composed with `Catalogue`.
3. The data source in the rows of `CandleStore`, and whether a bar was over when it was stored.
4. Theorems: `RunControl`'s for overlapping runs as far as they hold, and `AtMostOneTick` with the calls of
   `clear_live_run` that leave the lock alone.
