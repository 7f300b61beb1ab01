SPECIFICATION Spec
CONSTANTS
  Day = 4
  MonthLen <- MCMonthLen
  MonthsPerQuarter = 2
  MonthsPerYear = 4
  DaysPerWeek = 3
  MaxInt64 = 127
  Million = 2
  NoCost = NoCost
  NoFee = NoFee
  Provider <- MCProvider
  Unknown = 0
  Shape <- MCShape
  Rates <- MCRates
  Plan <- MCPlanOnTheFirst
  Moments <- MCMoments
  WorkAt <- MCWorkAt
  MaxTurns = 2
  BudgetLimit = 30
  Hour = 2
  Zone = 1
  TrendDays = 3
INVARIANT LastMonthBillsTheFee
CHECK_DEADLOCK FALSE
