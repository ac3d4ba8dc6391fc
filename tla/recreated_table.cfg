CONSTANTS
  u = u  v = v  p1 = p1  p2 = p2  p3 = p3
  Tables = {u, v}
  Parts = {p1, p2, p3}
  TableOf <- TwoTables
  Threshold = 2
  Recreate = TRUE
  Absent = Absent  Torn = Torn
  MaxFaults = 1
  MaxLost = 0
  MaxCrashes = 0
SPECIFICATION Spec
INVARIANTS SuccessIsComplete
CHECK_DEADLOCK FALSE
