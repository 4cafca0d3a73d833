CONSTANTS
  r1 = r1
  r2 = r2
  Absent = Absent
  NoTar = NoTar
  Torn = Torn
  Corrupt = Corrupt
  Empty = Empty
  Releases <- MCReleases
  Bundles <- MCSound
  HiddenNames = FALSE
  KernelOnPartition = FALSE
  BootUpdaters <- MCReleases
  SizeOf <- MCShifted
  FlashCap = 9
  PartitionCap = 0
  FlashFreeMin = 1
  MaxCuts = 0
  MaxCopies = 2
SPECIFICATION FairSpec
PROPERTIES AcceptedIsInstalled
CHECK_DEADLOCK FALSE
