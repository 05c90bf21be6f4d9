SPECIFICATION BackendSpec
CHECK_DEADLOCK FALSE
CONSTANTS
  Backends = {"x"}
  Earlier = {}
  StartFiles <- mcFiles
  Options <- mcOptions
  OtherSizes = {1}
  VirtualPages = 5
  MaxForeign = 1
INVARIANT
  AllUnmapped
