SPECIFICATION Spec
CONSTANTS
  Runs = {}
  Clients = {c1, c2, c3}
  Strategies = {s1, s2}
  Commands <- NoStop
  None = None
  Torn = Torn
  Enabled = 2
  LockTries = 2
  AllowOverlap = FALSE
  AllowCrashes = TRUE
SYMMETRY Symmetric
INVARIANTS
  AtMostOneTick
CHECK_DEADLOCK FALSE
