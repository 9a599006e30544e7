SPECIFICATION FairSpec
CONSTANTS
  Buffers = {b1, b2}
  Dropped = dropped
  NumFramePackets = 2
  MaxArrivals = 5
INVARIANTS TypeOK BufferOwnership OpenFrameHasRoom LostIdle FrameNumbersFresh
PROPERTIES DownstreamStable StreamSpec TakenIsDelivered
CHECK_DEADLOCK FALSE
