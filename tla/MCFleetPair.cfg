CONSTANTS
  NodeIDs = {1, 2}
  URLs = {1, 2}
  Versions = {1}
  ToolLists = {1}
  Host <- MCHost
  BootstrapURL <- MCStar
  DeadAfter = 3
  StreamCap = 9
  LocalCap = 9
  Timely = TRUE
  FaultKinds = {"crash", "break", "join"}
  MaxFaults = 2
  MaxNow = 6
  MaxBeat = 6
SPECIFICATION FairSpec
INVARIANT TypeOK
INVARIANT Provenance
INVARIANT NoFalseEviction
PROPERTY DeadForgotten
PROPERTY MeshForms
CHECK_DEADLOCK FALSE
