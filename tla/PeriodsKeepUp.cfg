SPECIFICATION FairSpec

CONSTANTS
  Clients = {c1}
  Scheduler = sched
  Ops = {"create", "newBudget", "mode"}
  Txns = {t1, t2}
  Categories = {k1}
  Durations = {}
  DefaultDuration = 5
  OfferedModes = {"rolling", "calendar_month"}
  ClientDates = {3}
  Amounts <- MCOverspent
  BudgetAmounts = {1}
  StartDays = {1, 2}
  Horizon = 7
  ServerSkew = 0
  None = None
  MinMonthDays = 4
  MaxMonthDays = 5
  MinBridgeDays = 2
  LastDay <- MCLastDay
  FirstOfMonth <- MCFirstOfMonth
  EndOfMonth <- MCEndOfMonth

PROPERTIES
  PeriodsKeepUp
