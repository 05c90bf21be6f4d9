SPECIFICATION Spec
CONSTANTS
  Callers = {t1, t2}
  VBlocks = {v1}
  NoBlock = NoBlock
  OldEntry = OldEntry
  MyOff = 0
  MaxPerSeg = 4
  MaxBlockNum = 3
  MaxPreNum = 2
  FreedReads <- MCFreedReads
  MaxCalls = 3
INVARIANTS
  ExitMeansFull
CHECK_DEADLOCK FALSE
