SPECIFICATION Spec
CONSTANTS
  r1 = r1
  r2 = r2
  plain = plain
  mapped = mapped
  packed = packed
  missing = missing
  s1 = s1
  s2 = s2
  Readers <- MCReaders
  Files <- MCFiles
  NoFile = NoFile
  NoState = NoState
  Kind <- MCKind
  Size <- MCSize
  Opened <- MCOpened
  States <- MCStates
  BufLen = 2
  PageSize = 2
  MaxAnswer = 3
  Offsets <- MCOffsets
  Lengths <- MCLengths
  Requests <- MCRequests
  MayFail = TRUE
SYMMETRY Symmetric
INVARIANTS TypeOK StatesOwned MapsOwned DataStands PartDelivered
