CONSTANTS
  NodeIDs = {1, 2, 3}
  URLs = {1, 2, 3}
  Versions = {1}
  ToolLists = {1}
  Host <- MCHost
  BootstrapURL <- MCStar
  DeadAfter = 3
  StreamCap = 9
  LocalCap = 9
  Timely = TRUE
  FaultKinds = {"crash"}
  MaxFaults = 1
  MaxNow = 6
  MaxBeat = 6
SPECIFICATION FairMeshSpec
PROPERTY DeadForgotten
PROPERTY OnlySilentEvicted
CHECK_DEADLOCK FALSE
