\* The break moves both ways across pages and over a neighbour, and a restart loses it.
SPECIFICATION Spec
CONSTANTS
  PAGE_SIZE = 4
  HEAP_PAGES = 3
  Base = 1
  TopPage = 7
  WORD = 64
  Increments <- MCIncrements
  Neighbours <- Adjacent
  MaxRestarts = 1
INVARIANTS
  TypeOK
  GrantedIsMapped
PROPERTIES
  LiveSurvives
  GrantedIsZero
  LostBreakStays
