SPECIFICATION Spec
CHECK_DEADLOCK FALSE
CONSTANTS
  MaxRetries = 2
  MaxCreateCount = 3
  Attempts <- MCAttempts
  Ports <- OnePort
  NodeSets <- OneNodeSet
  None = None
  NoNodes = NoNodes
  n1 = n1
  n2 = n2
  p1 = p1
  p2 = p2
  IpType = "internal"
  PurgeDeleted = TRUE
  OnlyServiceController = FALSE
  FipNetworkConfigured = TRUE
  Hazards = {"createFail", "createLost", "getFail", "updateFail", "updateLost", "idWrite", "deleteLost", "patch", "overlap", "retype"}
  MaxFaults = 2
  MaxEdits = 1
INVARIANT AtMostOneLive
 
 
