SPECIFICATION Spec
CHECK_DEADLOCK FALSE
CONSTANTS
  MaxRetries = 1
  MaxCreateCount = 1
  Attempts <- MCAttempts
  Ports <- OnePort
  NodeSets <- OneNodeSet
  None = None
  NoNodes = NoNodes
  n1 = n1
  n2 = n2
  p1 = p1
  p2 = p2
  IpType = "internal"
  PurgeDeleted = TRUE
  OnlyServiceController = FALSE
  FipNetworkConfigured = TRUE
  Hazards = {"createLost"}
  MaxFaults = 1
  MaxEdits = 0
INVARIANT NoOrphan
