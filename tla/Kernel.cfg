SPECIFICATION KernelSpec
CONSTANTS
  deck = deck
  hand = hand
  snap = snap
  peg = peg
  c = c
  zone = zone
  here = here
  there = there
  Pieces = {a, b, c}
  Stackable = {a, b, c}
  Boxes = {deck, hand}
  Decks = {deck}
  Lockable = {c}
  SnapPoints = {snap, peg}
  Zones = {zone}
  Places = {here, there}
  Players = {p1, p2}
  Capacity <- MCCapacity
  Reach <- MCReach
  SnapTakes <- MCSnapTakes
  Area <- MCArea
  ZoneTakes <- MCZoneTakes
  World = World
  None = None
  Replicas = {r1, r2}
  Programs <- MCPrograms
  MaxCommands = 5
  MaxCount = 2
  MaxLog = 4
  MaxSafe <- MCMaxSafe
  Names <- MCNames
  Texts <- MCTexts
  Kept <- MCKept
  Assigned <- MCAssigned
  MaxGeneration = 3
  MaxOperations = 2
  MaxTimers = 2
SYMMETRY KernelSymmetry
INVARIANTS
  PlacesAreSound
  ScriptsAreSound
  PlaytestIsolated
PROPERTIES
  ZonesFollow StacksStayTogether
  TransactionsAreWhole
  ValuesSurvive
CHECK_DEADLOCK FALSE
