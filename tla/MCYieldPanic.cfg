\* A link goes down while it gives way to a cheaper one.
SPECIFICATION Spec
CONSTANTS
  BATCH_MAX_DELAY = 2
  Nodes <- ParallelNodes
  Links <- ParallelLinks
  Source <- ParallelSource
  Target <- ParallelTarget
  Routes <- ParallelRoutes
  Capacity <- ParallelCapacity
  Delay <- ParallelDelay
  ExtraDelays <- ParallelExtra
  CongestedLinks = {}
  LossyNodes = {}
  DuplicatingNodes = {}
  MayStartDown = {}
  LinkEvents <- AllLinksFlap
  NodeEvents <- NoEvents
  Flows <- AtoB
  DEFAULT_TTL = 3
  TicksPerByte = 1
  TimeWarp = TRUE
  MaxPackets = 2
  MaxEvents = 2
  Horizon = 2
  MaxTime = 4
INVARIANTS NoLinkTaskPanics
CHECK_DEADLOCK FALSE
