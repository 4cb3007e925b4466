\* barrier_bug
SPECIFICATION Spec
CONSTANTS
  N = 3
  Rounds = 3
INVARIANTS
  NoEarlyLeave
CHECK_DEADLOCK FALSE
