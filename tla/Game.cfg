\* game
SPECIFICATION GameSpec
CONSTANTS
  LASTCOL = 11
  LASTROW = 11
  StartPos <- MCStartPos
  StartObj <- MCStartObj
INVARIANTS
  GameInv
  ScreenTrue
CHECK_DEADLOCK FALSE
