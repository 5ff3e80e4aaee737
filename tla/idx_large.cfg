SPECIFICATION ArchiveSpec
CONSTANTS
  Archives = {}
  Chunk = 3
  IntBytes = 8
  MaxBlocks = 40
  MaxInt = 63
  MaxLong = 2047
  Faults = {}
  Inputs = {65, 70, 140}
  BlockSize = 4
  CompLens = {1}
  IndexLens = {1}
  OutBytes = 2
  IoFaults = {}
INVARIANT SizeAsDocumented
CHECK_DEADLOCK FALSE
