CONSTANTS
  b1 = b1  b2 = b2  b3 = b3  h1 = h1  h2 = h2
  a0 = a0  a1 = a1  c0 = c0  sA = sA  sC = sC  blockA = blockA  blockC = blockC
  Backups = {b1, b2}
  Hosts = {h1, h2}
  PartNames = {a0, a1, c0}
  Sums = {sA, sC}
  Block <- MCBlock
  NoBackup = NoBackup
  NoPart = NoPart
  NoMeta = NoMeta
  NoCount = NoCount
  Commands <- BackupsAndDelete
  TableStates <- MCTableStates
  Size <- OneSize
  Replicated = FALSE
  RetainCount = 1
  RetainTime = FALSE
  UniqueNames = TRUE
  MaxStarts = 2
  MaxFaults = 1
SPECIFICATION FairSpec
PROPERTIES LegalLifecycle BackupsWhatWasFrozen WritesUnderLock ImplementsRestorePoints CommandsFinish DeletionCompletes
CHECK_DEADLOCK FALSE
