SPECIFICATION Spec
CHECK_DEADLOCK FALSE
CONSTANTS
  MaxRetries = 1
  MaxCreateCount = 2
  Attempts <- MCAttempts
  Ports <- OnePort
  NodeSets <- OneNodeSet
  None = None
  NoNodes = NoNodes
  n1 = n1
  n2 = n2
  p1 = p1
  p2 = p2
  IpType = "both"
  PurgeDeleted = TRUE
  OnlyServiceController = FALSE
  FipNetworkConfigured = TRUE
  Hazards = {"createFail", "getFail", "updateFail", "updateLost", "annWrite", "deleteLost", "patch", "overlap", "retype"}
  MaxFaults = 1
  MaxEdits = 1
INVARIANT NoOrphan
INVARIANT NoOrphanAfterRetype
PROPERTY KeepsPromise
