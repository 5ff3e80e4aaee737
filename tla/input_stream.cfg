SPECIFICATION Spec
CONSTANTS
  t1 = t1
  t2 = t2
  Threads <- MCThreads
  Length = 9
  Lasts <- MCLasts
  ArrayLen = 6
  Args <- MCArgs
  MaxInt = 11
  MayFail = TRUE
SYMMETRY Symmetric
INVARIANTS TypeOK IntsDelivered RestKept ReaderOwned CrashesOnlyUnfit
CHECK_DEADLOCK FALSE
