SPECIFICATION Spec
CONSTANTS
  Files <- MCPadded
  BufWords = 3
  MemLimit = 3
  Faults = {}
INVARIANT WellFormedAccepted
CHECK_DEADLOCK FALSE
