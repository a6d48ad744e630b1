SPECIFICATION SearchSpec
CONSTANTS
  Deposit <- MCDeposit
  PeriodSlices = 4
  MaxChartPoints = 3
  Strategies <- MCStrategies
  Definitions <- MCDefinitions
  Configured <- MCConfigured
  Reports <- MCReports
  Modes = {"grid", "sample"}
  Iterations = 2
  MaxChoices = 3
  MaxLater = 3
INVARIANTS
  SearchFindsBest
  GridIsExhaustive
  ConfigFollowsResult
  RankingIsFair
CHECK_DEADLOCK FALSE
