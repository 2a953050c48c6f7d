SPECIFICATION Spec
CHECK_DEADLOCK FALSE
CONSTANTS
  MaxRetries = 1
  MaxCreateCount = 2
  Attempts <- MCAttempts
  Ports <- TwoPorts
  NodeSets <- TwoNodeSets
  None = None
  NoNodes = NoNodes
  n1 = n1
  n2 = n2
  p1 = p1
  p2 = p2
  IpType = "internal"
  PurgeDeleted = TRUE
  OnlyServiceController = FALSE
  FipNetworkConfigured = TRUE
  Hazards = {"createFail", "getFail", "updateFail", "patch", "deleteLost"}
  MaxFaults = 1
  MaxEdits = 2
SYMMETRY NodeSymmetry
INVARIANT QuiescentInSync
