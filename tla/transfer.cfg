CONSTANTS
  Unwritten = Unwritten
  Idle = Idle
  BlockSize = 2
  LengthName = 1
  MetaSize = 1
  Names = {"a", "b", "n", "o", "p"}
  Setups <- MCSetups
  ReadChunk = 2
  EncryptChunk = 4
  UploadChunk = 3
  UploadBuffer = 4
  MaxChunkCount = 3
  QueueSize = 1
  w1 = w1  w2 = w2
  Workers = {w1, w2}
  PollsPerSecond = 2
  MaxFaults = 1
  DownloadChunk = 3
  WriteChunk = 2
  WriteBuffer = 4
SPECIFICATION FairSpec
INVARIANTS DeletesOnlyStored FailsOnlyByFaults WithinRate
PROPERTIES ImplementsAtomicObject TransferEnds
