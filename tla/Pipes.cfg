\* pipes
SPECIFICATION FairSpec
CONSTANTS
  Procs = 3
  Capacities <- MCCapacities
  MaxKills = 2
INVARIANTS
  IInv
  MissingRepeatsLast
  BrokenOnlyByExit
PROPERTIES
  ParentEnds
CHECK_DEADLOCK FALSE
