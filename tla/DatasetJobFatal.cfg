\* One worker (the default of --goroutines) dies of a write error.
SPECIFICATION FairSpec
CONSTANTS
  NFiles = 1
  FileLines <- MCLongFile
  ChanCap = 1
  Workers = {w1}
  NumFiles = 0
  NumLines = 0
  NoLine = NoLine
  w1 = w1
PROPERTY FatalErrorEndsJob
