SPECIFICATION Spec
CONSTANTS
  PAGE_SIZE = 1
  NumPages = 9
  HeapAt <- Heap
  StackAt <- Stack
  LowerBuilds <- TwoBuilds
  Files = {"lib"}
  MmapAttrs <- AnonymousAndFiles
  MAX_TRACK = 5
  MaxChanges = 3
  MaxUnmaps = 1
  MaxLowerMaps = 1
  MaxRestarts = 1
INVARIANTS
  TypeOK
  NoLowerSaved
  UnmergedIsSaved
  ImageFits
\* The bounds of the environment are used up.
CHECK_DEADLOCK FALSE
