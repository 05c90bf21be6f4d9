SPECIFICATION Spec
CONSTANTS
  Setters = {s1, s2}
  Consumers = {c1, c2}
  MaxPosts = 3
  Waiters = {w1, w2, w3}
  UINT_MAX = 2
  MaxSemPosts = 4
  MaxPages = 5
  HostProcs = 4
  MAX_MEM_PREALLOC_THREAD_COUNT = 3
  MaxCpus = 4
  Signals = {sigsegv, sigbus}
  Devices = {d1, d2, d3}
  IoRegions = {io}
  RamRegions = {ram}
  MaxMaps = 4
INVARIANTS
  WorkNoticed
  SemConserved
  PreallocHonest
  ChildRunsNoHandler
  BounceOwned
  RefsBalanced
PROPERTIES
  WaitsEnd
CHECK_DEADLOCK FALSE
