\* Two files of one line each; a log of two entries.
SPECIFICATION DashboardSpec
CONSTANTS
  NFiles = 2
  LinesOf <- MCLinesOf
  LogSize = 2
  ZeroEntry = ZeroEntry
INVARIANTS
  LogShowsTail
  HeaderNotAhead
  FinishedRowIsFull
PROPERTIES
  HeaderForward
  ScreenCatchesUp
