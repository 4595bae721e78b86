SPECIFICATION Spec
CONSTANTS
  Inputs = {1, 2, 3}
  Size = 6
  Page = 2
  Exact = FALSE
  EnablePrefetch = TRUE
  Pids = {1, 2, 3}
  MaxFaults = 2
INVARIANTS
  NoneMissing
PROPERTIES
  NothingUndone
  GuardsClear
CHECK_DEADLOCK FALSE
