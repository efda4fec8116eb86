\* Two crawler goroutines, two ids, one slot; the tracker is set.
SPECIFICATION FairSpec
CONSTANTS
  Crawlers = {c1, c2}
  Offset = 1
  MaxId = 2
  InCap = 1
  NoId = NoId
  Bare = Bare
  NotJson = NotJson
  NotReport = NotReport
  HasTracker = TRUE
  MaxBroken = 1
  NoMsg = NoMsg
INVARIANTS
  IdsOnce
  ErrorsNotPublished
  NotLostUnsaved
PROPERTIES
  ImplementsQueue
  CrawlerStops
  BareIsSaved
