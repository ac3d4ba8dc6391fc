CONSTANTS
  a = a  b = b  s1 = s1  s2 = s2  s3 = s3  p1 = p1  p2 = p2
  Names = {a, b}
  Storages = {s1, s2, s3}
  Initially <- Places
  Partitions = {p1, p2}
  Modes = {"table", "partitions", "schema_only"}
  NoFile = NoFile
  NoTable = NoTable
  MaxTime = 2
  MaxFaults = 1
SPECIFICATION FairSpec
INVARIANTS BackedUpTogether UntouchedBackedUp ChangesAreNoFailures
PROPERTIES BackupCompletes
