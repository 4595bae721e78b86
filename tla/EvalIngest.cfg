SPECIFICATION FairSpec
CONSTANTS
  r1 = r1
  r2 = r2
  k = k
  x1 = x1
  x2 = x2
  y = y
  Nothing = Nothing
  Runs <- MCRuns
  Cases = {k}
  Commands = {c}
  Version <- MCVersion
  SubjectOf <- MCSubjectOf
  VersionsOf <- MCVersionsOf
  StartedAt <- MCStartedAt
  Flaws <- MCFlaws
  Breaks = 1
INVARIANTS
  TypeOK
  ReportsTrue
  OneEnvelope
PROPERTIES
  ImplementsArchive
  EventuallyStored
