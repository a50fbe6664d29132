SPECIFICATION Spec
CONSTANTS
  Outputs = {o1, o2}
  MayFail = TRUE
  LockMayFail = TRUE
  MayDisconnect = TRUE
  FinishAfterLocked = TRUE
INVARIANTS
  TypeOK
  EverySurfaceAttached
PROPERTY UnlockedWhenDue
