SPECIFICATION Spec
CONSTANTS
  Requests = {r1, r2, r3, r4, r5}
  Players = {p1, p2}
  Timers = {t1, t2, t3}
  Retention = 4
  Interval = 2
  MaxBatch = 3
  MaxSequence = 8
SYMMETRY Symmetry
INVARIANTS
  CoreAlwaysLoads
  EveryoneReachesHead
PROPERTIES
  TrimIsCovered
  ImplementsActionLog
CHECK_DEADLOCK FALSE
