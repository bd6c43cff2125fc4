\* doCheckpoint only: crashes and restarts, under either lower half.
SPECIFICATION Spec
CONSTANTS
  NULL = NULL
  LOST = LOST
  Regions <- LibStackApp
  LowerHalves = {mpich, simgrid}
  SignalContexts <- NoSignal
  EarlyRequests = FALSE
  Budget <- CallBudget
INVARIANTS
  WrappersUsable
PROPERTIES
  AnswerMatchesCause
  ReportedImageHoldsWork
\* The rank may have ended for good.
CHECK_DEADLOCK FALSE
