CONSTANTS
  p1 = p1
  p2 = p2
  p3 = p3
  Instances <- MCThree
  Sourced <- MCNone
  DaemonKeepsFd = FALSE
SPECIFICATION Spec
INVARIANTS OneAtWork
CHECK_DEADLOCK FALSE
