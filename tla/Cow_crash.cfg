SPECIFICATION Spec
CONSTANTS
  Threads = {"a"}
  NumBlocks = 3
  UnitsPerBlock = 2
  Missing = {2}
  Touches <- Alone
  MaxBlockNum = 3
  MaxPerSeg = 4
  BlockSize = 4
  IntSpan = 16
  MaxThreadNum = 2
  BucketNum = 3
  MaxConcurrent = 8
  RankThreshold = 2
  MaxStores = 1
INVARIANT
  OriginalsDurable
