SPECIFICATION ThroughputSpec
CONSTANTS
  SendBps = 480
  max_bytes_per_transmit = 2
  IntervalsPerSecond = 20
  SendInterval = 2
  WindowDuration = 2
  Duration = 4
  MAX_READ = 2
  MaxTime = 6
INVARIANTS
  WindowIsExact
PROPERTIES
  CommandEnds
CHECK_DEADLOCK FALSE
