SPECIFICATION Spec
CONSTANTS
  s1 = s1
  s2 = s2
  Strategies = {s1, s2}
  Enabled = {s1}
  Oversized = {s1}
  Runs = {r1}
  Savers = {p1}
  Stops = {q1}
  Earlier <- MCEarlier
  None = None
  Torn = Torn
INVARIANTS
  RankedAreCompleted
  FileIsWhole
  NothingLeftRunning
PROPERTIES
  ResultsAreKept
CHECK_DEADLOCK FALSE
