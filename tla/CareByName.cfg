CONSTANTS
  User = User
  Nothing = Nothing
  Torn = Torn
  Backups <- MCBackups
  Sound <- MCBackups
  Fits <- MCBackups
  ByName = TRUE
  Checks = TRUE
  Repairs = TRUE
  MayBeLate <- MCBoot
  MaxTries = 2
  MaxCuts = 2
  MaxAsks = 3
SPECIFICATION FairSpec
INVARIANTS TypeOK StorageComesUp CheckedBeforeUse
PROPERTIES OnlyAskedFor NeverResizedInUse BootEnds
