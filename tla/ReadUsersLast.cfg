\* read_users_last
SPECIFICATION Spec
CONSTANTS
  Fields <- MCFields
  Digits <- MCDigits
  Files <- MCFiles
INVARIANTS
  EveryLineCounts
CHECK_DEADLOCK FALSE
