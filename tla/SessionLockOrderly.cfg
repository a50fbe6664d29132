SPECIFICATION FairSpec
CONSTANTS
  Outputs = {o1, o2}
  MayFail = TRUE
  LockMayFail = FALSE
  MayDisconnect = TRUE
  FinishAfterLocked = FALSE
INVARIANT NoProtocolError
PROPERTIES
  IsScreenLock
  LeavingEnds
  DeadlineNoticed
  OutputsCovered
