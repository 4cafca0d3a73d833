CONSTANTS
  p1 = p1
  p2 = p2
  u1 = u1
  u2 = u2
  n1 = n1
  n2 = n2
  None = None
  Mixed = Mixed
  Projects <- MCProjects
  Urls <- MCUrls
  Names <- MCNames
  NameOf <- MCDistinct
  MaxTries = 2
  MaxRuns = 2
  MaxKills = 1
SPECIFICATION FairSpec
INVARIANTS TypeOK StampTruthful UnpacksWhole OneDownload
PROPERTIES RunEnds
CHECK_DEADLOCK FALSE
