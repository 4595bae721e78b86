SPECIFICATION Spec
CONSTANTS
  Queries <- TwoQueries
  Rows <- MCRows
  Keyset <- MCKeyset
  Seek <- MCSeek
  FirstPage = 1
  Page = 2
  EnablePrefetch = FALSE
  LoadSlots = {l1, l2}
  Pids <- MCPids
  FaultKinds = {}
  MaxNavs = 1
  MaxFaults = 0
INVARIANTS
  RowsOfCurrentQuery
CHECK_DEADLOCK FALSE
