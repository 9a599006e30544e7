SPECIFICATION Spec
CONSTANTS
  Capacity = 2
  Ids = {1, 2, 3, 4, 5, 6, 7}
  Commands = {"arm"}
  ConfigPaths = {}
  Values = {}
  InitialParam <- SmallStore
  InitialStore <- SmallStore
  MaxPolls = 1
  PacketsToSend = 1
  MaxEvents = 2
  Faults = FALSE
PROPERTIES RunWhenArmed
CHECK_DEADLOCK FALSE
