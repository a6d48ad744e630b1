SPECIFICATION Spec
CONSTANTS
  Runs = {r1, r2}
  Clients = {c1}
  Strategies = {s1}
  Commands <- AllCommands
  None = None
  Torn = Torn
  Enabled = 2
  LockTries = 1
  AllowOverlap = FALSE
  AllowCrashes = TRUE
SYMMETRY Symmetric
INVARIANTS
  TypeOK
  PendingCoversRun
  PidNamesTheRun
  NoLateRefresh
PROPERTIES
  NoWorkAfterStop
CHECK_DEADLOCK FALSE
