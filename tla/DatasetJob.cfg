\* Two workers, three files (one longer than the line limit, one empty), a channel of one slot; all trees.
SPECIFICATION MCSpec
CONSTANTS
  NFiles = 3
  FileLines <- MCFileLines
  ChanCap = 1
  Workers = {w1, w2}
  NumFiles = 0
  NumLines = 2
  NoLine = NoLine
  w1 = w1
  w2 = w2
  Trees <- MCTrees
INVARIANTS
  TypeOK
  LinesAccounted
  CleanGroupMeansComplete
  NoSilentFailure
  IndexComplete
PROPERTIES
  ImplementsLedger
  ImplementsProgress
  CancelEndsJob
  SurvivorDrains
