CONSTANTS
  Parallelism = 2
  MaxCalls = 4
  MaxResets = 1
SPECIFICATION Spec
INVARIANTS StopDrains
PROPERTIES StopReturns ImplementsDrawQueue
CHECK_DEADLOCK FALSE
