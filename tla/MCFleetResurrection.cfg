CONSTANTS
  NodeIDs = {1, 2, 3}
  URLs = {1, 2, 3}
  Versions = {1}
  ToolLists = {1}
  Host <- MCHost
  BootstrapURL <- MCStar
  DeadAfter = 3
  StreamCap = 9
  LocalCap = 9
  Timely = TRUE
  FaultKinds = {"break"}
  MaxFaults = 1
  MaxNow = 5
  MaxBeat = 5
SPECIFICATION FairStaleSpec
PROPERTY DeadForgotten
CHECK_DEADLOCK FALSE
