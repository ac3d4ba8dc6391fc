CONSTANTS
  Me = Me
  NoPath = NoPath
  Setups <- MCSetups
  StallThreshold = 2
  MaxPolls = 3
  MaxLog = 2
  MaxFaults = 2
SPECIFICATION FairSpec
INVARIANTS  UnrelatedUntouched KeepsRestoredTables SyncedAtTheEnd
PROPERTIES RestoreEnds
