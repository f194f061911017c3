CONSTANTS
  SOM = 2
  Links = 1
  Align = 2
  MIN_SPLIT_SIZE = 2
  MMAP_THRESHOLD = 14
  MaxRequest = 16
  WordSize = 64
  InitialBreaks = {2, 3}
  HeapEnd = 26
  MapAddrs = {60}
  Requests = {1, 7, 14}
  Counts = {2}
  MaxOvercount = 4
SPECIFICATION Spec
INVARIANTS
  TypeOK
  BlocksTile
  ListKept
  StatisticsTrue
  BusyBlocksHeld
PROPERTIES
  ImplementsAllocator
  WildernessFollowed
  FaultsHaveCauses
