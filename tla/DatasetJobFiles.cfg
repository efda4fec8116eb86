\* --files 1 on two files.
SPECIFICATION Spec
CONSTANTS
  NFiles = 2
  FileLines <- MCTwoFiles
  ChanCap = 1
  Workers = {w1}
  NumFiles = 1
  NumLines = 0
  NoLine = NoLine
  w1 = w1
INVARIANT FilesFlagRespected
