\* mqueue
SPECIFICATION FairSpec
CONSTANTS
  Runs = {r1, r2}
  Earlier = r0
  Procs = 2
  MaxMsg = 1
  Limits <- MCLimits
INVARIANTS
  IInv
  NoStaleResults
  EachResultOnce
  AloneAddsUp
  OnlyFirstMisses
PROPERTIES
  ParentEnds
CHECK_DEADLOCK FALSE
