SPECIFICATION Spec
CONSTANTS
  Outputs = {o1}
  MayFail = FALSE
  LockMayFail = FALSE
  MayDisconnect = FALSE
  FinishAfterLocked = TRUE
INVARIANT NoProtocolError
