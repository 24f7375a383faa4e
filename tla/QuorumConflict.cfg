SPECIFICATION QuorumSpec
CONSTANTS
  Voters = {p1, p2}
  VoterTabs = {1}
  Hashes = {h1, h2}
  Retention = 3
  Interval = 2
  SoloGrace = 2
  MaxLast = 5
  MaxClock = 3
  Null = Null
SYMMETRY Symmetry
PROPERTIES
  ConflictIsPermanent
CHECK_DEADLOCK FALSE
