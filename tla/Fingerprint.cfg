SPECIFICATION FairSpec
CONSTANTS
  Main = main
  Worker = worker
  Stoppers = {s1}
  MaxSessions = 2
  MaxQueue = 2
  MayFail = TRUE
INVARIANTS
  TypeOK
  EndOncePerCheck
  DeviceLeftIdle
PROPERTIES
  SignalOfThisCheck
  MatchReported
  IsVerifier
