SPECIFICATION IdxSpec
CONSTANTS
  BlockSize = 4
  FullBlocks = 2
  LastBlock = 2
  NumEntries <- IdxEntries
  FileSize <- IdxFileSize
  Start <- IdxStart
  USize <- IdxUSize
  CSize <- MCCSize
  InLen <- MCInLen
  NextEntry <- IdxNextEntry
  Locate <- IdxSeek
  Offsets <- MCOffsets
  Calls <- MCCalls
  ResetsSize <- IdxResetsSize
  HasHeader <- IdxHasHeader
  Damaged = {2}
  BufSize = 2
  InChunk = 2
  MaxFaults = 1
INVARIANTS IdxRepliesRight CallInv ReuseInv
PROPERTIES ImplementsIFile CallsReturn
