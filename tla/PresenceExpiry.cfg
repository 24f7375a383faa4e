SPECIFICATION FairPresenceSpec
CONSTANTS
  Players = {p1}
  Tabs = {t1}
  Ttl = 2
  Heartbeat = 1
  None = None
PROPERTIES
  EmptyRoomExpires
CHECK_DEADLOCK FALSE
