\* Two links from A to B that go up and down at any time, in real time, and tasks
\* that crash: no route back, marked packets without ECN, racing assertions.
SPECIFICATION VSpec
CONSTANTS
  BATCH_MAX_DELAY = 2
  Nodes <- ParallelNodes
  Links <- ParallelLinks
  Source <- ParallelSource
  Target <- ParallelTarget
  Routes <- RepeatedRoutes
  Capacity <- ParallelCapacity
  Delay <- ParallelDelay
  ExtraDelays <- ParallelExtra
  CongestedLinks = {"l2"}
  LossyNodes = {}
  DuplicatingNodes = {}
  MayStartDown = {}
  LinkEvents <- AllLinksFlap
  NodeEvents <- NoEvents
  Flows <- BothWays
  DEFAULT_TTL = 3
  TicksPerByte = 1
  TimeWarp = FALSE
  MaxPackets = 2
  MaxEvents = 2
  Horizon = 1
  MaxTime = 3
INVARIANTS OneCopy PacerGrantKept LossVerdictSound LossVerdictComplete ReplayCompletes
CHECK_DEADLOCK FALSE
