\* A second of 5 ticks; packets that fit a batch, that fill one, and that take
\* a large part of the second.
SPECIFICATION ReplaySpec
CONSTANTS
  BATCH_MAX_DELAY = 3
  PacketDelays = {1, 2, 4}
  MaxPacketDelay = 4
  MaxTime = 9
  Window = 5
INVARIANTS GrantHolds WithinBandwidth BoundedWait AlarmWithinBurst
CHECK_DEADLOCK FALSE
