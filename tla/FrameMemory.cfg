SPECIFICATION Spec
CONSTANTS
  Word = 1024
  SizeWords = {1024, 1048576}
  Widths = {3, 14, 342, 512, 1023}
  Heights = {1, 30, 342}
  Scales = {1, 2, 3}
  MaxImage = 100
INVARIANTS
  TypeOK
  AllOrNothing
  DrawsInside
  SentExact
  MadeForThisFrame
