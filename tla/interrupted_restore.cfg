CONSTANTS
  u = u  v = v  p1 = p1  p2 = p2  p3 = p3
  Tables = {u, v}
  Parts = {p1, p2, p3}
  TableOf <- TwoTables
  Threshold = 2
  Recreate = FALSE
  Absent = Absent  Torn = Torn
  MaxFaults = 1
  MaxLost = 2
  MaxCrashes = 1
SPECIFICATION FairSpec
INVARIANTS TypeOK FileIsTruthful SuccessIsComplete DoubledOnlyByIncidents
PROPERTIES RestoreCompletes
CHECK_DEADLOCK FALSE
