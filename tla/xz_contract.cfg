SPECIFICATION Spec
CONSTANTS
  Items <- ThreeBlocks
  NumEntries <- XzEntries
  FileSize <- XzFileSize
  Start <- XzStart
  USize <- XzUSize
  CSize <- MCCSize
  InLen <- MCInLen
  NextEntry <- XzNextEntry
  Locate <- XzLocate
  Offsets <- MCOffsets
  Calls <- MCCalls
  ResetsSize = TRUE
  HasHeader = TRUE
  Damaged = {2}
  BufSize = 2
  InChunk = 2
  MaxFaults = 1
INVARIANTS TypeOK AnswersExact ErrorsHaveCauses CallInv
PROPERTY ImplementsIFile
