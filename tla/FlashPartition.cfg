CONSTANTS
  r1 = r1
  r2 = r2
  Absent = Absent
  NoTar = NoTar
  Torn = Torn
  Corrupt = Corrupt
  Empty = Empty
  Releases <- MCReleases
  Bundles <- MCPartial
  HiddenNames = TRUE
  KernelOnPartition = TRUE
  BootUpdaters <- MCReleases
  SizeOf <- MCShifted
  FlashCap = 9
  PartitionCap = 4
  FlashFreeMin = 1
  MaxCuts = 1
  MaxCopies = 2
SPECIFICATION FairSpec
PROPERTIES AcceptedIsInstalled OnlyVerifiedImages
CHECK_DEADLOCK FALSE
