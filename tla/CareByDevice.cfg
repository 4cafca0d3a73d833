CONSTANTS
  User = User
  Nothing = Nothing
  Torn = Torn
  Backups <- MCBackups
  Sound <- MCBackups
  Fits <- MCNewer
  ByName = FALSE
  Checks = FALSE
  Repairs = TRUE
  MayBeLate <- MCDisks
  MaxTries = 2
  MaxCuts = 2
  MaxAsks = 2
SPECIFICATION FairSpec
PROPERTIES BootEnds
