SPECIFICATION FairSpec
CONSTANTS
  Main = main
  Stoppers = {s1}
  Right = right
  Wrong = {wrong}
  NoPass = nopass
  MaxRounds = 2
  MayFail = FALSE
PROPERTY StopEnds
