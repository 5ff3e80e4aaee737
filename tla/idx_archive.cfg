SPECIFICATION ArchiveSpec
CONSTANTS
  Archives <- MCArchives
  Chunk = 3
  IntBytes = 8
  MaxBlocks = 4
  MaxInt = 31
  MaxLong = 2047
  Faults = {"read", "mem"}
  Inputs = {0, 1, 3, 7, 10}
  BlockSize = 3
  CompLens = {1, 2}
  IndexLens = {1, 4}
  OutBytes = 2
  IoFaults = {"header", "write", "read"}
INVARIANTS ArchiveTypeOK StaysInside OffsetsTile WellFormedAccepted ResourcesReturned
INVARIANTS RoundTrip OffsetsFound
PROPERTY AllEnd
CHECK_DEADLOCK FALSE
