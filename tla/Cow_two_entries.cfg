SPECIFICATION Spec
CONSTANTS
  Threads = {"a", "b"}
  NumBlocks = 2
  UnitsPerBlock = 3
  Missing = {1}
  Touches <- Shared
  MaxBlockNum = 2
  MaxPerSeg = 4
  BlockSize = 4
  IntSpan = 16
  MaxThreadNum = 3
  BucketNum = 2
  MaxConcurrent = 8
  RankThreshold = 2
  MaxStores = 3
INVARIANT
  OneEntryPerBlock
