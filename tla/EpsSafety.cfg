SPECIFICATION Spec
CHECK_DEADLOCK FALSE
SYMMETRY NodeSymmetry
CONSTANTS
  Nodes <- TwoNodes
  TenantSlices <- OneTenantSlice
  Specs <- OneSpec
  Modes <- SelectorOrNot
  Hazards <- AllHazards
  Foreign = Foreign
  Absent = Absent
  n1 = n1
  n2 = n2
  n3 = n3
  t1 = t1
  t2 = t2
  s1 = s1
  s2 = s2
  NumNames = 3
  Limit = 1
  MaxServices = 1
  MaxRetries = 2
  QueueBound = 1
  MaxFaults = 1
  MaxEdits = 2
INVARIANT TypeOK
INVARIANT NoDuplicate
INVARIANT WithinLimit
INVARIANT CleansUp
PROPERTY NoGap
