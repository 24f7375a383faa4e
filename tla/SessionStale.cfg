SPECIFICATION SessionSpec
CONSTANTS
  Clients = {c1, c2}
  Scripted = FALSE
  Retention = 3
  MaxAttempts = 2
  MaxLog = 3
  MaxDrops = 1
  None = None
SYMMETRY Symmetry
INVARIANTS
  QuietClientsAreCurrent
CHECK_DEADLOCK FALSE
