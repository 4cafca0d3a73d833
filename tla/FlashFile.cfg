CONSTANTS
  r1 = r1
  r2 = r2
  Absent = Absent
  NoTar = NoTar
  Torn = Torn
  Corrupt = Corrupt
  Empty = Empty
  Releases <- MCReleases
  Bundles <- MCWhole
  HiddenNames = TRUE
  KernelOnPartition = FALSE
  BootUpdaters <- MCReleases
  SizeOf <- MCSizes
  FlashCap = 9
  PartitionCap = 0
  FlashFreeMin = 1
  MaxCuts = 1
  MaxCopies = 2
SPECIFICATION FairSpec
INVARIANTS TypeOK FreeAfterUpdate PairIntact
PROPERTIES BootEnds AcceptedIsInstalled KeepsPromise
CHECK_DEADLOCK FALSE
