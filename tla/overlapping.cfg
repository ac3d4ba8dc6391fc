CONSTANTS
  b1 = b1  b2 = b2  b3 = b3  h1 = h1  h2 = h2
  a0 = a0  a1 = a1  c0 = c0  sA = sA  sC = sC  blockA = blockA  blockC = blockC
  Backups = {b1, b2, b3}
  Hosts = {h1, h2}
  PartNames = {a0, a1, c0}
  Sums = {sA, sC}
  Block <- MCBlock
  NoBackup = NoBackup
  NoPart = NoPart
  NoMeta = NoMeta
  NoCount = NoCount
  Commands <- BackupAndPurgeVersusDelete
  TableStates <- MCTableStates
  Size <- OneSize
  Replicated = TRUE
  RetainCount = 1
  RetainTime = TRUE
  UniqueNames = TRUE
  MaxStarts = 3
  MaxFaults = 1
SPECIFICATION Spec
INVARIANTS TypeOK CreatedRestorable LinksResolve ListedLoadable NoLeak
SYMMETRY NameSymmetry
CHECK_DEADLOCK FALSE
