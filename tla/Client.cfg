SPECIFICATION ClientSpec
CONSTANTS
  Clients = {f, g}
  Scripted = TRUE
  Retention = 1
  MaxAttempts = 1
  MaxLog = 2
  MaxDrops = 1
  None = None
  Entities = {e1}
  Me = me
  Others = {other}
  MaxRequests = 3
  MaxSequenced = 3
  NoOne = NoOne
  Pieces = {a, b}
  Fingers = {f, g}
  Mouse = mouse
  Nothing = Nothing
  MaxInputs = 4
  MaxChanges = 2
  MaxViews = 2
  MaxEdits = 3
  Blank = Blank
  MinPlayers = 1
  MaxPlayers = 2
  ActionLimit = 4
  CandidateLimit = 5
  Parts = 2
  MaxDelay = 1
  MaxQuestions = 1
  MaxFuses = 2
SYMMETRY Symmetry
INVARIANTS
  ReplicasFollow LedgerIsSound HandsHoldWhatTheyDrag RenderersAreRetired BundlesStayWhole TrialIsSound
PROPERTIES
  PredictionsAreHonest TimersFireInOrder
CHECK_DEADLOCK FALSE
