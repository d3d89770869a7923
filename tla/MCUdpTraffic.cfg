SPECIFICATION UdpFairSpec
CONSTANTS
  StartAt = 1
  Interval = 1
  Duration = 2
  Deadline = 2
  UdpStartAt = 0
  UdpInterval = 2
  UdpDuration = 5
  Payload = 4
  PAYLOAD_CHUNK_SIZE_BYTES = 2
  MaxDuplicates = 2
  MaxPings = 3
  MaxTime = 9
INVARIANTS
  OneVerdict
  LostMeansLate
  ReceivedInTime
  TrafficOnSchedule
PROPERTIES
  SimulationEnds
CHECK_DEADLOCK FALSE
