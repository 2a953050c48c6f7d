SPECIFICATION FairSpec
CHECK_DEADLOCK FALSE
CONSTANTS
  MaxRetries = 1
  MaxCreateCount = 2
  Attempts <- MCAttempts
  Ports <- OnePort
  NodeSets <- OneNodeSet
  None = None
  NoNodes = NoNodes
  n1 = n1
  n2 = n2
  p1 = p1
  p2 = p2
  IpType = "internal"
  PurgeDeleted = FALSE
  OnlyServiceController = TRUE
  FipNetworkConfigured = TRUE
  Hazards <- AllHazards
  MaxFaults = 1
  MaxEdits = 1
INVARIANT TypeOK
INVARIANT BoundedCreation
PROPERTY DeletionCompletes
