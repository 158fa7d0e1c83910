SPECIFICATION AcceptSpec
CONSTANTS
  Nodes <- MCNodes
  Requests <- MCRequests
  PendingInvalidAccept = {"a"}
  maxCachedAcceptInfos = 1
  WorkerCount = 1
  FlakyNodes = {"c"}
  MaxRequests = 2
  MaxNodeCrashes = 1
INVARIANTS SignedIsVerified PayOnce
CHECK_DEADLOCK FALSE
