SPECIFICATION Spec
CONSTANTS
  Files <- MCFiles
  BufWords = 3
  MemLimit = 3
  Faults = {"read", "mem", "cat"}
INVARIANTS TypeOK IndexTilesFile AlignedAccepted IndexesOwned ReadsInside MemBounded
PROPERTY Terminates
CHECK_DEADLOCK FALSE
