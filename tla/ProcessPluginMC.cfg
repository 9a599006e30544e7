\* Packets late by any number of wraps; a mode changed at any time.
SPECIFICATION PluginSpec
CONSTANTS
  NumBuffers = 2
  WriteSize = 1
  FrameQty = 3
  Processes = 2
  Rank = 1
  Word = 4
  Contents <- EventPackets
  MaxWrap = 2
  MaxPackets = 4
  MaxPerFrame = 1
  Lateness = {0, 1, 2}
  LastPacket <- TwoImages
  Blank <- BlankEnd
  MaxCopies = 2
  MaxFrames = 4
INVARIANTS CountsInArray ImagesWhole PacketsKept
PROPERTY EndNotified
CHECK_DEADLOCK FALSE
