CONSTANTS
  Ids = {1, 2, 3}
  Kinds = {"replicated access", "local access", "function", "collection", "workload"}
  Admin = 1
  Root = Root
  Resource = Resource
  MaxChanges = 2
  MaxFaults = 1
SPECIFICATION FairSpec
INVARIANTS SuccessBringsBack
PROPERTIES RepeatedRestoreSucceeds
