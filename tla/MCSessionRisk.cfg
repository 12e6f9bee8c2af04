\* Up to three fills and a clock that crosses two days and a week.
SPECIFICATION Spec
CONSTANTS
  p1 = p1
  t1 = t1
  o1 = o1
  s1 = s1
  s2 = s2
  None = None
  PlanIds = {p1}
  TradeIds = {t1}
  OrderIds = {o1}
  Symbols = {s1, s2}
  Amounts <- MCAmounts
  Fine = 2
  Cent = 4
  FillRecords <- MCFillRecords
  DayLength = 2
  WeekLength = 2
  MaxFills = 3
  MaxTime = 5
INVARIANTS
  TypeOK
  RowsAreTrades
  OneMoreFill
  WeekIsTodayAndBefore
  LatestTradeDecidesStreak
  QuietTimeOnlyAges
