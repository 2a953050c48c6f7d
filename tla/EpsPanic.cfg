SPECIFICATION Spec
CHECK_DEADLOCK FALSE
CONSTANTS
  Nodes <- TwoNodes
  TenantSlices <- OneTenantSlice
  Specs <- OneSpec
  Modes <- Selectorless
  Hazards <- NoHazards
  Foreign = Foreign
  Absent = Absent
  n1 = n1
  n2 = n2
  n3 = n3
  t1 = t1
  t2 = t2
  s1 = s1
  s2 = s2
  NumNames = 3
  Limit = 1
  MaxServices = 1
  MaxRetries = 2
  QueueBound = 1
  MaxFaults = 0
  MaxEdits = 1
INVARIANT ReplacesInPlace
