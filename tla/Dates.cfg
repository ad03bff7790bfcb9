SPECIFICATION MCSpec

CONSTANTS
  MinMonthDays = 28
  MaxMonthDays = 31
  MinBridgeDays = 15
  LastDay <- MCLastDay
  FirstOfMonth <- MCFirstOfMonth
  EndOfMonth <- MCEndOfMonth
  StartDays <- MCStartDays
  Durations = {28, 29, 30, 31}
  LastClose <- MCLastClose
  Views = {2, 4}
  BudgetAmounts <- MCBudgetAmounts
  StartDates <- MCStartDates
  DaysOfMonth <- MCDaysOfMonth
  DaysOfWeek <- MCDaysOfWeek
  Intervals = {1, 10, 45}
  Day0 = 5
  LastAdvance <- MCLastAdvance
  None = None

INVARIANTS
  LengthsOK
  ViewsPartition
  OnSchedule

PROPERTIES
  BridgeOnce
  BudgetRestored
  EveryMonth

\* The walks stop at LastClose and LastAdvance.
CHECK_DEADLOCK FALSE
