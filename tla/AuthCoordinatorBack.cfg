SPECIFICATION Spec
CONSTANTS
  Edition = "c"
  Sensors = {"ok"}
  MaxLen = 2
INVARIANT NoCallAfterDelete
