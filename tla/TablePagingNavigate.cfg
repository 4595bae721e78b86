SPECIFICATION FairSpec
CONSTANTS
  Queries <- TwoQueries
  Rows <- MCRows
  Keyset <- MCKeyset
  Seek <- MCSeek
  FirstPage = 1
  Page = 2
  EnablePrefetch = TRUE
  LoadSlots = {l1, l2}
  Pids <- MCPids
  FaultKinds = {"rejected", "refused", "short"}
  MaxNavs = 3
  MaxFaults = 2
INVARIANTS
  TypeOK
  SingleFlight
PROPERTIES
  OnlyLateAnswersMix
  WakeUpKept
  SpinnerClears
CHECK_DEADLOCK FALSE
