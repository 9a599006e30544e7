\* Packets up to two wraps late: a flushed wrap is opened again.
SPECIFICATION Spec
CONSTANTS
  NumBuffers = 1
  WriteSize = 2
  FrameQty = 3
  Processes = 2
  Rank = 0
  Word = 64
  Contents <- OnePacket
  MaxWrap = 3
  MaxPackets = 4
  MaxPerFrame = 1
  Lateness = {0, 1, 2}
PROPERTY FlushedStaysFlushed
CHECK_DEADLOCK FALSE
