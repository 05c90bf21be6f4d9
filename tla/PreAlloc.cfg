SPECIFICATION FairSpec
CONSTANTS
  Callers = {t1, t2}
  VBlocks = {v1, v2}
  NoBlock = NoBlock
  OldEntry = OldEntry
  MyOff = 2
  MaxPerSeg = 2
  MaxBlockNum = 5
  MaxPreNum = 2
  FreedReads <- MCFreedReads
  MaxCalls = 4
INVARIANTS
  RingIntact
  RemapFinds
PROPERTIES
  NeverHandedTwice
  CallReturns
CHECK_DEADLOCK FALSE
