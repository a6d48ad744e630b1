SPECIFICATION FairSpec
CONSTANTS
  Runs = {r1}
  Clients = {c1}
  Strategies = {s1}
  Commands <- AllCommands
  None = None
  Torn = Torn
  Enabled = 2
  LockTries = 2
  AllowOverlap = FALSE
  AllowCrashes = TRUE
PROPERTIES
  CommandsReturn
  GateReopens
CHECK_DEADLOCK FALSE
