SPECIFICATION FeedsSpec
CONSTANTS
  None = None
  MaxTime = 5
  Markets <- MCMarkets
  MaxVersion = 2
  Flawed <- MCFlawed
  Windows <- MCWindows
  PageSize <- MCPageSize
  Cap = 3
  Limits = {2}
  MinRows = 2
INVARIANTS
  DeliveryIsExact
  ServedRowsAreGood
PROPERTY
  LoadEnds
