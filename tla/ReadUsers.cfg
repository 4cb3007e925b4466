\* read_users
SPECIFICATION Spec
CONSTANTS
  Fields <- MCFields
  Digits <- MCDigits
  Files <- MCFiles
INVARIANTS
  ReadInv
  UsersAreRecords
  TerminatedLinesTaken
CHECK_DEADLOCK FALSE
