SPECIFICATION FairSpec
CONSTANTS
  Outputs = {o1}
  MayFail = FALSE
  LockMayFail = FALSE
  MayDisconnect = FALSE
  FinishAfterLocked = TRUE
PROPERTY FinishedGivenUp
