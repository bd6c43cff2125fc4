SPECIFICATION Spec
CONSTANTS
  Ranks <- TwoRanks
  AddrSpaceSize = 2
  Loader = 1
  Break = 2
  Vvar = 9
  Vdso = 10
  Stack = 12
  Top = 13
  MAX_TRACK = 4
  MaxMaps = 3
  MaxLowerMaps = 1
  MaxRestarts = 2
INVARIANT
  RestartsFit
CHECK_DEADLOCK FALSE
