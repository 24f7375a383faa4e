SPECIFICATION FairBrowserSpec
CONSTANTS
  Clients = {c1, c2}
  Scripted = FALSE
  Retention = 2
  MaxAttempts = 4
  MaxLog = 4
  MaxDrops = 1
  None = None
  MaxHistory = 2
  MaxActs = 3
  Styles = {s1, s2}
  Blank = Blank
  MaxCalls = 3
  MaxReleases = 2
INVARIANTS
  ReplicasFollow
  DraftsAreSound
PROPERTIES
  ReconnectSucceeds
  DraftsKeepTheGame
CHECK_DEADLOCK FALSE
