SPECIFICATION Spec
CONSTANTS
  Items <- EmptyBetween
  NumEntries <- XzEntries
  FileSize <- XzFileSize
  Start <- XzStart
  USize <- XzUSize
  CSize <- MCCSize
  InLen <- MCInLen
  NextEntry <- XzNextEntry
  Locate <- XzLocate
  Offsets <- MCOffsets
  Calls <- MCWholeFile
  ResetsSize = TRUE
  HasHeader = TRUE
  Damaged = {}
  BufSize = 2
  InChunk = 2
  MaxFaults = 0
INVARIANT ReadIntoExact
