SPECIFICATION Spec
CONSTANTS
  Runners = {a, b}
  f1 = f1
  f2 = f2
  g2 = g2
  f3 = f3
  NoOne = NoOne
  File <- MCFile
  VersionOf <- MCVersionOf
  Directories <- MCReleases
  Definers <- MCDefiners
INVARIANTS
  ReaderReadsAll
