\* Blocks of two wraps of two slices; four packets, in frames of one or two.
SPECIFICATION Spec
CONSTANTS
  NumBuffers = 2
  WriteSize = 2
  FrameQty = 3
  Processes = 2
  Rank = 1
  Word = 64
  Contents <- EventPackets
  MaxWrap = 4
  MaxPackets = 4
  MaxPerFrame = 2
  Lateness = {0, 1, 3}
INVARIANTS TypeOK CountsMatchStream StreamOrdered NothingLost FramesInterleave AcquisitionComplete BlocksInOrder
PROPERTY FlushedStaysFlushed
CHECK_DEADLOCK FALSE
