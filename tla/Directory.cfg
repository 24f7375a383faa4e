SPECIFICATION FairDirectorySpec
CONSTANTS
  Rooms = {r1, r2}
  Requests = {q1, q2}
  Capacity = 2
  QuickPlayAttempts = 2
  MaxMoves = 1
  MaxFaults = 1
  NoRow = NoRow
INVARIANTS
  SeatsAreAccountedFor
PROPERTIES
  IndexCatchesUp
CHECK_DEADLOCK FALSE
