\* A routing loop whose links and node flap.
SPECIFICATION FairSpec
CONSTANTS
  BATCH_MAX_DELAY = 2
  Nodes <- LoopNodes
  Links <- LoopLinks
  Source <- LoopSource
  Target <- LoopTarget
  Routes <- LoopRoutes
  Capacity <- LoopCapacity
  Delay <- LoopDelay
  ExtraDelays <- LoopExtra
  CongestedLinks = {}
  LossyNodes = {}
  DuplicatingNodes = {"R"}
  MayStartDown = {"l2"}
  LinkEvents <- TwoLinksFlap
  NodeEvents <- AFlaps
  Flows <- AtoB
  DEFAULT_TTL = 3
  TicksPerByte = 1
  TimeWarp = TRUE
  MaxPackets = 2
  MaxEvents = 2
  Horizon = 1
  MaxTime = 6
PROPERTIES LeavesThroughAvailableLink EveryPacketEnds JourneysRefined
CHECK_DEADLOCK FALSE
