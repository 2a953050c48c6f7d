SPECIFICATION FairSpec
CHECK_DEADLOCK FALSE
CONSTANTS
  None = None
  Garbled = Garbled
  Rejected = Rejected
  InCluster = TRUE
  NodeNames <- MCNodeNames
  VMINames <- MCVMINames
  Hostname <- MCHostname
  InstanceOf <- MCInstanceOf
  InstanceLabel <- MCInstanceLabel
  Dotted <- MCDotted
  Pool <- MCPool
  IPs <- MCIPs
  Reachable <- MCReachable
  Paths <- MCPaths
  PodIP = 5
  LinkLocal = 1
  ZoneAndRegionEnabled = TRUE
  ServiceSpecs <- MCSpecs
  FirstSpec <- Plain
  Files <- MCFiles
  MaxTrouble = 2
  MaxIds = 6
INVARIANT TypeOK
 
INVARIANT AddressOwned
 
PROPERTY IdsSurvive
PROPERTY NodesConverge
 
