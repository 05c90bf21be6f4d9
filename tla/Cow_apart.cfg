SPECIFICATION BothSpec
CONSTANTS
  Threads = {"a", "b"}
  NumBlocks = 3
  UnitsPerBlock = 2
  Missing = {2}
  Touches <- Apart
  MaxBlockNum = 3
  MaxPerSeg = 4
  BlockSize = 4
  IntSpan = 16
  MaxThreadNum = 2
  BucketNum = 2
  MaxConcurrent = 8
  RankThreshold = 2
  MaxStores = 4
INVARIANTS
  GuestCoherent
  StoresDurable
  OneEntryPerBlock
PROPERTY
  StoresComplete
