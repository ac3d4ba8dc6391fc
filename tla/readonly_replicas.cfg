CONSTANTS
  t1 = t1  t2 = t2  t3 = t3  t4 = t4
  Tables = {t1, t2}
  Order <- TwoTables
  Requirements <- AnyRequirements
  MaxFaults = 1
SPECIFICATION Spec
INVARIANT ReadonlyReported
CHECK_DEADLOCK FALSE
