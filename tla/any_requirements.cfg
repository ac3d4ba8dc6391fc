CONSTANTS
  t1 = t1  t2 = t2  t3 = t3  t4 = t4
  Tables = {t1, t2, t3, t4}
  Order <- FourTables
  Requirements <- AnyRequirements
  MaxFaults = 1
SPECIFICATION Spec
INVARIANTS QueueOK GivesUpOnlyHopeless ReportsWhatFailed
PROPERTIES RetriesEnd
CHECK_DEADLOCK FALSE
