SPECIFICATION Spec
CONSTANTS
  Buffers = {b1, b2}
  Dropped = dropped
  NumFramePackets = 2
  MaxArrivals = 5

PROPERTY IdleDetected
CHECK_DEADLOCK FALSE
