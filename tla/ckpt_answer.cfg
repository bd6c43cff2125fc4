\* doCheckpoint in a process restored from a signal's checkpoint.
SPECIFICATION Spec
CONSTANTS
  NULL = NULL
  LOST = LOST
  Regions <- AppLibStack
  LowerHalves = {mpich}
  SignalContexts <- AppSignal
  EarlyRequests = FALSE
  Budget <- SignalThenCallBudget
PROPERTIES
  AnswerMatchesCause
\* The rank may have ended for good.
CHECK_DEADLOCK FALSE
