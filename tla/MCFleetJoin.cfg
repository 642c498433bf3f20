CONSTANTS
  NodeIDs = {1, 2, 3}
  URLs = {1, 2, 3}
  Versions = {1}
  ToolLists = {1}
  Host <- MCHost
  BootstrapURL <- MCStar
  DeadAfter = 1
  StreamCap = 9
  LocalCap = 1
  Timely = FALSE
  FaultKinds = {"join", "break"}
  MaxFaults = 1
  MaxNow = 1
  MaxBeat = 0
SPECIFICATION JoinSpec
INVARIANT MeshWhenSettled
CHECK_DEADLOCK FALSE
