SPECIFICATION FairSpec
CONSTANTS
  BufferCount = 3
  NoSize = NoSize
  Sizes = {small, large}
  Scales = {1, 2}
  MayFail = TRUE
INVARIANTS
  TypeOK
  NoProtocolError
  HeldIsBusy
  OneFrameInFlight
  NeverStalled
PROPERTIES
  HeldUntouched
  ConfigurationShown
CHECK_DEADLOCK FALSE
