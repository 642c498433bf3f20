CONSTANTS
  NodeIDs = {1, 2}
  URLs = {1}
  Versions = {1}
  ToolLists = {1}
  SelfID = 1
  Updates <- MCUpdates
  Procs = {1, 2}
  Buffer = 2
  DeadAfter = 0
  MaxNow = 2
  MaxSubs = 1
  MaxSent = 4
SPECIFICATION Spec
INVARIANT TypeOK
INVARIANT ClosedIffUnsubscribed
INVARIANT DeliveredInOrder
INVARIANT NoChangeMissed
PROPERTY JoinedAtPreserved
CHECK_DEADLOCK FALSE
