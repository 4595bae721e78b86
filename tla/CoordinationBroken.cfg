SPECIFICATION Spec
CONSTANTS
  a = a
  b = b
  c = c
  Broken = Broken
  Workers = {a, b}
  Area = {x}
  Stacks <- NoStacks
  Careless = {b}
  Changes = 0
INVARIANTS
  FailsOnItsOwn
CHECK_DEADLOCK FALSE
