SPECIFICATION LibcSpec
CONSTANTS
  PAGE_SIZE = 4
  Elfs <- AllElfs
  Stacks <- AllStacks
  Libraries <- AllLibraries
  Places <- AllPlaces
  LdSoBase = 12
  Top = 56
  JUMP_SIZE = 2
  STACK_SIZE = 4
  HEAP_SIZE = 8
INVARIANTS
  TypeOK
  LdSoKept
  HeapKept
  
  DiesOnlyUnprepared
  LibraryRight
  LibcDiesOnlyStripped
\* The launch ends.
CHECK_DEADLOCK FALSE
