\* The capacity of packets dropped by a buffer-clear event.
SPECIFICATION Spec
CONSTANTS
  BATCH_MAX_DELAY = 2
  Nodes <- RelayNodes
  Links <- RelayLinks
  Source <- RelaySource
  Target <- RelayTarget
  Routes <- RelayRoutes
  Capacity <- RelayCapacity
  Delay <- RelayDelay
  ExtraDelays <- RelayExtra
  CongestedLinks = {}
  LossyNodes = {}
  DuplicatingNodes = {}
  MayStartDown = {"l2"}
  LinkEvents <- LastLinkFlaps
  NodeEvents <- RClears
  Flows <- AtoB
  DEFAULT_TTL = 3
  TicksPerByte = 1
  TimeWarp = TRUE
  MaxPackets = 2
  MaxEvents = 2
  Horizon = 2
  MaxTime = 5
INVARIANTS UnusedCapacityIsAvailable
CHECK_DEADLOCK FALSE
