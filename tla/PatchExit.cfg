CONSTANTS
  Argvs <- OlderOnly
  Files <- CutOnly
  Records = 1
  Noise = {9}
  MaxLosses = 1
  MaxTroubles = 0
SPECIFICATION Spec
INVARIANT ExitIsTrue
CHECK_DEADLOCK FALSE
