SPECIFICATION ListsSpec
CONSTANTS
  Threads = {"a", "b"}
  NumBlocks = 3
  UnitsPerBlock = 3
  Missing = {1}
  Touches <- All
  MaxBlockNum = 2
  MaxPerSeg = 4
  BlockSize = 4
  IntSpan = 16
  MaxThreadNum = 2
  BucketNum = 2
  MaxConcurrent = 2
  RankThreshold = 2
  MaxStores = 4
INVARIANTS
  NothingForeign
  UncompletedListed
  ListsBounded
  EvictedByOthers
  EvictionKeeps
