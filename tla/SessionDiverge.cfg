SPECIFICATION SessionSpec
CONSTANTS
  Clients = {c1, c2}
  Scripted = FALSE
  Retention = 2
  MaxAttempts = 2
  MaxLog = 3
  MaxDrops = 1
  None = None
SYMMETRY Symmetry
INVARIANTS
  HealthyClientsConverge
CHECK_DEADLOCK FALSE
