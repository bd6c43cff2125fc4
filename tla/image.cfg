SPECIFICATION Spec
CONSTANTS
  CtxSize = 2
  HeaderSize = 2
  Sizes <- ThreeRegions
  MayCrash = TRUE
  MayFail = TRUE
  MaxInterrupts = 2
  MaxReadErrors = 2
INVARIANTS
  TypeOK
  WholeComesBack
  RestoredIsPrefix
  KeptUpToFailure
PROPERTIES
  ComesToAnEnd
\* The restart has ended.
CHECK_DEADLOCK FALSE
