SPECIFICATION SpecAny
CONSTANTS
  Items <- TwoBlocks
  NumEntries <- XzEntries
  FileSize <- XzFileSize
  Start <- XzStart
  USize <- XzUSize
  CSize <- MCCSize
  InLen <- MCInLen
  NextEntry <- XzNextEntry
  Locate <- XzLocate
  Offsets <- MCOffsets
  Calls <- MCCalls
  ResetsSize = TRUE
  HasHeader = TRUE
  Damaged = {2}
  BufSize = 2
  InChunk = 2
  MaxFaults = 1
INVARIANTS InputInSync NoStaleWrite ReadStaysInBuffer ReuseInv
PROPERTY CallsReturn
