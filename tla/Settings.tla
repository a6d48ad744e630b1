------------------------------- MODULE Settings -------------------------------
(***************************************************************************)
(* The runtime settings of the dashboard and when they are accepted        *)
(* (src/backtest_config.py).  A percentage is in hundredths of a percent,  *)
(* a value that is missing or of the wrong type is Absent.                 *)
(***************************************************************************)
EXTENDS Integers

CONSTANTS
  Instruments,         \* INSTRUMENTS_BY_SOURCE
  Timeframes,          \* TIMEFRAMES
  Normals,             \* per key: what strip, lower, upper, int or float make of a value
                       \* that is given in another form
  Absent

SupportedSources == DOMAIN Instruments
OptimizationModes == {"grid", "sample"}

RuntimeSettingKeys ==
  {"data_source", "instrument", "timeframe", "lookback_days", "initial_capital",
   "optimization_mode", "optimization_iterations", "optimization_seed",
   "commission_pct", "slippage_pct"}

ValidDataSource(value) == value \in SupportedSources
ValidInstrument(source, instrument) == instrument \in Instruments[source]
ValidTimeframe(value) == value \in Timeframes
ValidLookbackDays(days) == days # Absent /\ days \in 1..365000
ValidInitialCapital(capital) == capital # Absent /\ capital \in 1..1000000000
ValidOptimizationMode(mode) == mode \in OptimizationModes
ValidOptimizationIterations(mode, iterations) ==
  iterations # Absent /\ iterations > 0 /\ (mode = "sample" => iterations <= 10000)
ValidOptimizationSeed(seed) == seed # Absent
ValidCommissionPct(pct) == pct # Absent /\ pct \in 0..1000
ValidSlippagePct(pct) == pct # Absent /\ pct \in 0..500

\* validate_runtime_settings, of values in their normal form
ValidRuntimeSettings(raw) ==
  /\ ValidDataSource(raw["data_source"])
  /\ ValidInstrument(raw["data_source"], raw["instrument"])
  /\ ValidTimeframe(raw["timeframe"])
  /\ ValidLookbackDays(raw["lookback_days"])
  /\ ValidInitialCapital(raw["initial_capital"])
  /\ ValidOptimizationMode(raw["optimization_mode"])
  /\ ValidOptimizationIterations(raw["optimization_mode"], raw["optimization_iterations"])
  /\ ValidOptimizationSeed(raw["optimization_seed"])
  /\ ValidCommissionPct(raw["commission_pct"])
  /\ ValidSlippagePct(raw["slippage_pct"])

\* The payload of save_runtime_settings: what is not given is as configured.
Payload(updates, settings) ==
  [key \in RuntimeSettingKeys |->
     IF key \in DOMAIN updates THEN updates[key]
     ELSE IF key \in DOMAIN settings THEN settings[key] ELSE Absent]

\* What validate_runtime_settings returns: every value in its normal form.
NormalSettings(raw) ==
  [key \in RuntimeSettingKeys |->
     IF key \in DOMAIN Normals /\ raw[key] \in DOMAIN Normals[key]
     THEN Normals[key][raw[key]] ELSE raw[key]]

\* The defaults that the interface shows; they are valid settings.
Defaults(source, instrument) ==
  [data_source |-> source, instrument |-> instrument, timeframe |-> "1h",
   lookback_days |-> 30, initial_capital |-> 100000, optimization_mode |-> "grid",
   optimization_iterations |-> 16, optimization_seed |-> 42,
   commission_pct |-> 5, slippage_pct |-> 1]

ASSUME DefaultsAreValid ==
  "1h" \in Timeframes =>
    \A source \in SupportedSources : \A instrument \in Instruments[source] :
      ValidRuntimeSettings(Defaults(source, instrument))

=============================================================================
