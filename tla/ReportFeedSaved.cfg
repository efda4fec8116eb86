\* The commands as they are: nobody sets the tracker.  One goroutine, one id.
SPECIFICATION FairSpec
CONSTANTS
  Crawlers = {c1}
  Offset = 1
  MaxId = 1
  InCap = 1
  NoId = NoId
  Bare = Bare
  NotJson = NotJson
  NotReport = NotReport
  HasTracker = FALSE
  MaxBroken = 0
  NoMsg = NoMsg
PROPERTY PublishedIsSaved
