\* barrier_proper
SPECIFICATION FairSpec
CONSTANTS
  N = 4
  Rounds = 3
INVARIANTS
  IInv
  NoEarlyLeave
  ShortHandedStaysShut
  CleanShutdown
PROPERTIES
  ImplementsBarrier
  Completion
CHECK_DEADLOCK FALSE
