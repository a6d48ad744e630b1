SPECIFICATION Spec
CONSTANTS
  Runs = {r1}
  Clients = {c1}
  Strategies = {s1}
  Commands <- AllCommands
  None = None
  Torn = Torn
  Enabled = 2
  LockTries = 1
  AllowOverlap = FALSE
  AllowCrashes = FALSE
SYMMETRY Symmetric
INVARIANTS
  LiveAutoStops
CHECK_DEADLOCK FALSE
