\* stack_queue
SPECIFICATION FairSpec
CONSTANTS
  N = 3
INVARIANTS
  IInv
  SemaphoresCount
  PushesPaired
  OrderlyEnd
PROPERTIES
  ImplementsStack
  ImplementsQueue
  Completion
CHECK_DEADLOCK FALSE
