SPECIFICATION Spec
CONSTANTS
  Edition = "cpp"
  Sensors = {"absent"}
  MaxLen = 2
INVARIANT PasswordOffered
