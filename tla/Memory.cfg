SPECIFICATION Spec
CONSTANTS
  Backends = {"x", "y"}
  Earlier <- mcEarlier
  StartFiles <- mcStartFiles
  Options <- mcOptions
  OtherSizes = {0, 4}
  VirtualPages = 6
  MaxForeign = 1
  MAX_NODES = 3
  NUMA_DISTANCE_MIN = 10
  CpuIds = {0, 1}
  BackendSize <- mcBackendSize
  Machines <- mcMachines
  Menus <- mcMenus
  MaxBlocks = 3
  Kinds <- mcKinds
  RAM_ADDR_MAX = 6
  BITS_PER_LONG = 2
  DIRTY_MEMORY_BLOCK_SIZE = 2
  DirtyClients = {"c1"}
  Threads = {"t1"}
  MaxOps = 2
  MaxChanges = 2
INVARIANTS
  MappingsKept
  NothingLeft
  BlocksApart
  DirtySafe
  LookupSafe
  ViewsCurrent
  ListenerInSync
  RefsExact
  LoggingKept
  LookupExact
  DeviceLocked
  FlushedFirst
  TableComplete
  MemorySplit
PROPERTIES
  NonEmptyKept
  PieceLands
CHECK_DEADLOCK FALSE
