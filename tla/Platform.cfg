SPECIFICATION PlatformSpec
CONSTANTS
  Tokens = {t1}
  Visits = {v1, v2}
  LinkTtl = 2
  SessionTtl = 2
  MaxClock = 3
  NoTime = NoTime
  Guests = {g1, g2, g3}
  Flushers = {f1, f2}
  Games = {game}
  Uploads = {u1, u2, u3, u4}
  Prints = {x, y}
  NoGame = NoGame
  Saves = {s1, s2}
  Resumers = {q1}
  SaveLimit = 1
  MaxTurns = 3
  NoTurn = NoTurn
  Veterans = {w1, w2}
  Joiners = {p1, p2, p3, p4}
  SavedSeats = 3
  RoomSize = 4
  MaxResumes = 3
  MaxTurned = 2
  Nobody = Nobody
  Jobs = {j1, j2, j3}
  Isolates = {i1, i2}
  Cap = 3
  Attempts = 2
  Rounds = 2
  Tries = 1
  MaxErrors = 2
  NoPicture = NoPicture
SYMMETRY Symmetry
INVARIANTS
  PlaysCountedOnce
  SavesAreWhole
  SeatsAreSound
  StudioIsSound
PROPERTIES
  SessionsAreSound
  CatalogIsSound
  BestDraftIsKept
  TurnsSurvive
CHECK_DEADLOCK FALSE
