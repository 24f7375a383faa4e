SPECIFICATION ResumeSpec
CONSTANTS
  Veterans = {v1, v2}
  Joiners = {p1, p2, p3, p4, p5}
  SavedSeats = 3
  RoomSize = 4
  MaxResumes = 3
  Nobody = Nobody
INVARIANTS
  EveryoneBackResumesPlay
CHECK_DEADLOCK FALSE
