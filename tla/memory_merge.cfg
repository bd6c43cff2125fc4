SPECIFICATION Spec
CONSTANTS
  PAGE_SIZE = 1
  NumPages = 9
  HeapAt <- Heap
  StackAt <- Stack
  LowerBuilds <- OneBuild
  Files = {"lib"}
  MmapAttrs <- Anonymous
  MAX_TRACK = 8
  MaxChanges = 3
  MaxUnmaps = 0
  MaxLowerMaps = 0
  MaxRestarts = 1
INVARIANTS
  TrackedIsSaved
\* The bounds of the environment are used up.
CHECK_DEADLOCK FALSE
