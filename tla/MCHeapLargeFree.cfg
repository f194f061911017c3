CONSTANTS
  SOM = 2
  Links = 1
  Align = 2
  MIN_SPLIT_SIZE = 2
  MMAP_THRESHOLD = 14
  MaxRequest = 14
  WordSize = 64
  InitialBreaks = {2}
  HeapEnd = 30
  MapAddrs = {60}
  Requests = {1, 4, 7, 14}
  Counts = {2}
  MaxOvercount = 2
SPECIFICATION Spec
INVARIANT LargeBlocksAreMapped
