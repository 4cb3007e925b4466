\* useradd_race
SPECIFICATION Spec
CONSTANTS
  p1 = p1
  p2 = p2
  Procs <- MCProcs
  None = none
  Logins <- MCLogins
  Sources <- RaceSources
  IntMax = 2
  MaxFaults = 0
INVARIANTS
  UniqueLogins
CHECK_DEADLOCK FALSE
