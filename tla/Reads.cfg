SPECIFICATION SomeReads
CONSTANTS
  Rows <- DistinctRows
  Filters <- SomeFilters
  Limits <- SomeLimits
  PageCap = 2
  Hours <- TwoPeriods
  Clock <- TwoTimes
CHECK_DEADLOCK FALSE
INVARIANTS
  TotalCoversPage
  NoRowSkipped
  NoRowTwiceWhenQuiet
  FiguresOrdered
  SummaryCoversList
