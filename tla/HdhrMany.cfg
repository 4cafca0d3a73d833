CONSTANTS
  p1 = p1
  p2 = p2
  p3 = p3
  Instances <- MCThree
  Sourced <- MCSourced
  DaemonKeepsFd = TRUE
SPECIFICATION FairSpec
INVARIANTS TypeOK TwoExclude OneDaemon OnePerFile
PROPERTIES WaitEnds
CHECK_DEADLOCK FALSE
