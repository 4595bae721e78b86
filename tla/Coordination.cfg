SPECIFICATION Spec
CONSTANTS
  a = a
  b = b
  c = c
  Broken = Broken
  Workers = {a, b}
  Area = {x, y}
  Stacks <- BOnA
  Careless = {b}
  Changes = 1
INVARIANTS
  TypeOK
  CollisionsSurface
  FinishedIsQuiet
CHECK_DEADLOCK FALSE
