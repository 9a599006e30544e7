SPECIFICATION FairSpec
CONSTANTS
  Quarter = 4
  Unit = 2
  Words = 3
  TimepixWords = 3
  TimepixSlice = 2
  MaxStream = 6
  Ports = 3
  NumIdle = 1
  SlicePackets <- OneOrTwo
  MaxSlices = 3
  MaxCapture = 4
  MaxErrors = 1
INVARIANTS SentInTurn CountsSent DecodedTimes
PROPERTIES IdleEnds
CHECK_DEADLOCK FALSE
