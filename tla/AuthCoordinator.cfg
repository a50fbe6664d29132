SPECIFICATION FairSpec
CONSTANTS
  Edition = "cpp"
  Sensors = {"ok", "absent"}
  MaxLen = 2
INVARIANTS
  TypeOK
  DeniedForReason
  LateStopHarmless
PROPERTIES
  LeavingEnds
  SuccessEnds
