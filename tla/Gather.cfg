\* gather
SPECIFICATION Spec
CONSTANTS
  N = 4
  Team = {w1, w2, w3}
INVARIANTS
  GatherInv
CHECK_DEADLOCK FALSE
