\* useradd
SPECIFICATION FairSpec
CONSTANTS
  p1 = p1
  p2 = p2
  Procs <- MCProcs
  None = none
  Logins <- MCLogins
  Sources <- MCSources
  IntMax = 2
  MaxFaults = 1
INVARIANTS
  IInv
  FilesNested
  OnlyRacesRepeat
  SuccessMeansComplete
  LeakIsFatal
PROPERTIES
  EveryRunEnds
CHECK_DEADLOCK FALSE
