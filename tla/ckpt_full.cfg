\* Every event, signals in every context.
SPECIFICATION FairSpec
CONSTANTS
  NULL = NULL
  LOST = LOST
  Regions <- LibStackApp
  LowerHalves = {mpich, simgrid}
  SignalContexts <- AnySignal
  EarlyRequests = TRUE
  Budget <- FullBudget
INVARIANTS
  TypeOK
  MarkedImage
  RestoredTakesNoCheckpoint
PROPERTIES
  HandlerEnds
  KeepsStorePromise
\* The rank may have ended for good.
CHECK_DEADLOCK FALSE
