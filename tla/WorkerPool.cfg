\* Three packets on two workers; two frames, so that job objects are used again.
SPECIFICATION FairSpec
CONSTANTS
  NumPackets = 3
  InitialJobs = 2
  Workers = {w1, w2}
  MaxFrames = 2
INVARIANTS TypeOK OneUser PacketsInPlace FrameNotRead
PROPERTY FrameGathered
CHECK_DEADLOCK FALSE
