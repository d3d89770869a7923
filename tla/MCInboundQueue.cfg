\* Delays of 1 to 3 ticks, reads of at most two packets.
SPECIFICATION FairSpec
CONSTANTS
  Numbers = {1, 2, 3, 4}
  MinDelay = 1
  MaxDelay = 3
  max_transmits = 2
  Horizon = 3
  MaxTime = 8
INVARIANTS NoLostWakeup BoundedLateness
PROPERTIES SameDelayFifo EventuallyDelivered
CHECK_DEADLOCK FALSE
