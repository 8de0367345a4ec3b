SPECIFICATION LayerSpec
CONSTANTS
  Procs = {p1, p2}
  FirstProc = p1
  Inodes = {i1}
  Pipes = {pipe1}
  NFile = 3
  NOFile = 2
  None = none
  NInodes = 3
  Names = {"a", "b"}
  Paths <- MCPaths
  MaxCalls <- MCMaxCalls
  MaxFile = 3
  MaxLength = 2
INVARIANTS RefsCountUses ObjectsHeld DescriptorsOpen
  LinksCountEntries InUseAllocated RefsCountHolders EachPlaceOnce
PROPERTIES CallsReturn
