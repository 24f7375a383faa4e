SPECIFICATION LifeSpec
CONSTANTS
  Players = {a, b}
  Tabs = {c, d}
  Ttl = 2
  Heartbeat = 1
  None = None
  Timers = {c, d}
  Delays = {1, 3}
  Grace = 1
  MaxWaiting = 2
  MaxTime = 4
  NoTime = NoTime
  Voters = {a, b}
  VoterTabs = {1, 2}
  Hashes = {c, d}
  Retention = 2
  Interval = 2
  SoloGrace = 2
  MaxLast = 4
  MaxClock = 2
  Null = Null
  MaxActions = 1
  MaxHellos = 1
SYMMETRY Symmetry
INVARIANTS
  PresenceIsSound PauseConsumesNothing AlarmCoversTimers FramesAreSound
PROPERTIES
  PresentLoseNothing TimersKeepTheirTime CheckpointsAreEarned
CHECK_DEADLOCK FALSE
