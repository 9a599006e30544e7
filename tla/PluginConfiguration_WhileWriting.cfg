\* The configuration of one message, at any time.
SPECIFICATION Spec
CONSTANTS
  FrameQty = 3
  Sizes = {0, 2, 3}
  Places <- TwoPlaces
  MaxJobs = 3
  MaxMessages = 1
PROPERTY NotAppliedWhileWriting
CHECK_DEADLOCK FALSE
