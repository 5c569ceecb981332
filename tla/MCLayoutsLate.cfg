SPECIFICATION LayoutsSpec
CONSTANTS
  MonthLengths <- MCMonths
  FirstMonth = 11
  FirstWeekday = 2
  ShortDays = {92}
  LongDays = {100}
  None = None
  NoDay = NoDay
  Now = 82
  Pickable <- MCPickable
  Strings <- MCStrings
  Charts <- MCCharts
  Histories <- LateHistories
  NoDate = NoDate
  TracksPerDayCap = 2
  DayRowsCap = 2
  MinDotGap = 16
  Widths = {330}
  Reports <- MCReports
  DaySeries <- MCDaySeries
  MaxSynthEvents = 6
  Documents <- MCDocuments
  Viewports <- MCViewports
  ThumbCap = 24
  Rounds = 2
INVARIANTS DotsInPlot
CHECK_DEADLOCK FALSE
