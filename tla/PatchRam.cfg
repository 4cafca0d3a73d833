CONSTANTS
  Argvs <- MCArgvs
  Files <- MCFiles
  Records = 1
  Noise = {9}
  MaxLosses = 2
  MaxTroubles = 1
SPECIFICATION FairSpec
INVARIANTS TypeOK LockStep NoTornLaunch Configured
PROPERTIES Finishes
CHECK_DEADLOCK FALSE
