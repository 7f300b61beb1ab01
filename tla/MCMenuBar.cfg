SPECIFICATION BarSpec
CONSTANTS
  NoValue = NoValue
  Len5h = 2
  LenWeek = 6
  LenDay = 4
  Limit = 100
  WarnAt = 80
  CritAt = 95
  Ticker = ticker
  Clicks = {click}
  Order <- MCOrder
  Answers <- MCAnswers
  LogLines <- MCLogLines
  Snapshots <- MCSnapshots
  Session = {1, 2}
  Logs <- MCLogs
  MaxQuotaScanFiles = 2
  Interval = 1
  Never <- MCNever
  MaxTime = 1
  MaxWrites = 1
INVARIANTS
  GaugesAreTheLatest
  NoGaugeIsBlanked
  ForecastIsSound
PROPERTIES
  BarAgrees
