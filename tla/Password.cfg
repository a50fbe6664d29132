SPECIFICATION FairSpec
CONSTANTS
  Main = main
  Stoppers = {s1, s2}
  Right = right
  Wrong = {wrong}
  NoPass = nopass
  MaxRounds = 2
  MayFail = TRUE
INVARIANTS
  TypeOK
  FinishMeansRight
  CandidateWiped
  PublishedIsMine
  DestroyedInert
  AnsweredOrStopped
  DeniedByPam
PROPERTIES
  VerifyReturns
  IsVerifier
