SPECIFICATION SpecAny
CONSTANTS
  t1 = t1
  t2 = t2
  Threads <- MCThreads
  Length = 9
  Lasts <- MCLasts
  ArrayLen = 6
  Args <- MCFewArgs
  MaxInt = 11
  MayFail = FALSE
INVARIANT OneThreadPerReader
CHECK_DEADLOCK FALSE
