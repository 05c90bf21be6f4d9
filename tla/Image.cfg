SPECIFICATION Spec
CONSTANTS
  VBlocks = {1, 2}
  MaxPerSeg = 1
  MaxBlockNum = 3
  MaxPreNum = 2
  NoBase = "none"
  Formatted = {"flat", "chained"}
  Raw = {"raw"}
  Missing = {"missing"}
  OnBase = {"chained"}
  BaseBlocks = {1}
  MaxDepth = 2
  MaxFile = 7
  Values = {1, 2}
  Unset = 0
  Zeros = 10
  Torn = 11
INVARIANTS
  TailClean
  TableMatchesFile
PROPERTIES
  ImplementsStore
  RollbackRestores
