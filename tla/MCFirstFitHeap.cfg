CONSTANTS
  size_of_metadata = 2
  MaxRequest = 5
  WordSize = 8
  Requests = {0, 1, 2, 4, 6}
  Counts = {2, 3}
  HeapEnd = 16
SPECIFICATION Spec
INVARIANTS
  TypeOK
  StatisticsTrue
  BusyBlocksHeld
PROPERTY ImplementsAllocator
