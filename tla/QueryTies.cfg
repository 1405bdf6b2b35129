SPECIFICATION ReadsSpec
CONSTANTS
  Rows <- TiedRows
  Filters <- OnlyNoFilter
  Limits <- OneLimit
  PageCap = 2
  Hours <- TwoPeriods
  Clock <- TwoTimes
CHECK_DEADLOCK FALSE
INVARIANT PagesComplete
