\* A relay that goes down, comes up and has its buffer cleared; B is one hop too
\* many for packets to C.
SPECIFICATION VSpec
CONSTANTS
  BATCH_MAX_DELAY = 2
  Nodes <- RelayNodes
  Links <- RelayLinks
  Source <- RelaySource
  Target <- RelayTarget
  Routes <- RelayRoutes
  Capacity <- RelayCapacity
  Delay <- RelayDelay
  ExtraDelays <- RelayJitter
  CongestedLinks = {}
  LossyNodes = {"A"}
  DuplicatingNodes = {"R"}
  MayStartDown = {}
  LinkEvents <- Redelayed
  NodeEvents <- RelayEvents
  Flows <- AtoBandC
  DEFAULT_TTL = 3
  TicksPerByte = 1
  TimeWarp = TRUE
  MaxPackets = 3
  MaxEvents = 2
  Horizon = 2
  MaxTime = 5
INVARIANTS TypeOK BufferAccounting ReplayAgrees RulesKept DropsCounted
PROPERTIES BreachesReported
CHECK_DEADLOCK FALSE
