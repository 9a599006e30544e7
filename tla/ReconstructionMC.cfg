SPECIFICATION ReconstructionSpec
CONSTANTS
  FpsPerModule <- TwoByTwo
  BlockSize = 2
  NumBlocks = 2
  MaxCount = 2
  FrameQty = 2
  Ticks = 3
  NexusFiles = 2
  SliceSizes = {2, 3}
  Chunk = 2
  VdsBlock = 7
  Samples = 14
  MaxStack = 1
INVARIANTS VdsComplete TesterPasses VdsMatchesRaw
PROPERTIES MonitorEnds
CHECK_DEADLOCK FALSE
