SPECIFICATION IdxSpec
CONSTANTS
  BlockSize = 3
  FullBlocks = 1
  LastBlock = 0
  NumEntries <- IdxEntries
  FileSize <- IdxFileSize
  Start <- IdxStart
  USize <- IdxUSize
  CSize <- MCCSize
  InLen <- MCInLen
  NextEntry <- IdxNextEntry
  Locate <- IdxSeek
  Offsets <- MCOffsets
  Calls <- MCOverEnd
  ResetsSize <- IdxResetsSize
  HasHeader <- IdxHasHeader
  Damaged = {}
  BufSize = 2
  InChunk = 2
  MaxFaults = 0
PROPERTY OverEndRefused
