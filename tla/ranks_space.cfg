SPECIFICATION Spec
CONSTANTS
  Ranks <- TwoRanks
  AddrSpaceSize = 2
  Loader = 1
  Break = 2
  Vvar = 9
  Vdso = 10
  Stack = 12
  Top = 13
  MAX_TRACK = 4
  MaxMaps = 3
  MaxLowerMaps = 1
  MaxRestarts = 2
INVARIANTS
  TypeOK
  FirstRestartFits
  OwnIsListed
\* The bounds are used up.
CHECK_DEADLOCK FALSE
