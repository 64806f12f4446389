CONSTANTS
  Requests = {r1, r2}
  App = App
  Entries = {e1, e2}
  Conns = {c1, c2}
  None = None
  Overlapping = FALSE
  MaxFaults = 2
  MaxLosses = 1
  MaxRestarts = 2
SPECIFICATION FairSpec
INVARIANTS
  HandedOver
  CrashIsRepaired
PROPERTIES
  RestoredAtLast
CHECK_DEADLOCK FALSE
