SPECIFICATION FairSpec
CONSTANTS
  Capacity = 2
  Ids = {1, 2, 3, 4, 5, 6, 7}
  Commands = {"stop"}
  ConfigPaths <- SmallPaths
  Values <- SmallValues
  InitialParam <- SmallStore
  InitialStore <- SmallStore
  MaxPolls = 1
  PacketsToSend = 1
  MaxEvents = 2
  Faults = TRUE
INVARIANTS TypeOK OkMeansRan
PROPERTIES RepliesMatched NotCompleteEarly PutAnswered ViewConverges RunEnds
CHECK_DEADLOCK FALSE
