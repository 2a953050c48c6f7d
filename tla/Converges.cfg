SPECIFICATION FairSpec
CHECK_DEADLOCK FALSE
CONSTANTS
  MaxRetries = 1
  MaxCreateCount = 2
  Attempts <- MCAttempts
  Ports <- OnePort
  NodeSets <- TwoNodeSets
  None = None
  NoNodes = NoNodes
  n1 = n1
  n2 = n2
  p1 = p1
  p2 = p2
  IpType = "external"
  PurgeDeleted = FALSE
  OnlyServiceController = FALSE
  FipNetworkConfigured = TRUE
  Hazards = {"createFail", "getFail", "updateFail", "deleteLost", "patch"}
  MaxFaults = 1
  MaxEdits = 1
PROPERTY Converges
