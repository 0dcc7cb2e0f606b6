SPECIFICATION ReportSpec
CONSTANTS
  MaxDay = 4
  WeekEnds = {3}
  MonthEnds = {2}
  PlanEvery = 2
  CardDelay = 1
  Ranges <- AllRanges
  Starts <- AllStarts
  MaxChanges = 2
  MaxReports = 1
INVARIANTS
  BooksReconcile
  TotalsComplete
  ReportsAgree
  DigestNeverTwice
CHECK_DEADLOCK FALSE
