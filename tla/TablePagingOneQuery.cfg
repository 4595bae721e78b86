SPECIFICATION FairSpec
CONSTANTS
  Queries <- OneQuery
  Rows <- MCRows
  Keyset <- MCKeyset
  Seek <- MCSeek
  FirstPage = 1
  Page = 2
  EnablePrefetch = TRUE
  LoadSlots = {l1, l2}
  Pids <- MCPids
  FaultKinds = {"rejected", "short"}
  MaxNavs = 3
  MaxFaults = 3
INVARIANTS
  NoSilentTruncation
PROPERTIES
  ScrollingOnlyAppends
  ImplementsView
  AllRowsLoad
CHECK_DEADLOCK FALSE
