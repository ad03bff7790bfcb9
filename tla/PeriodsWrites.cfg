SPECIFICATION Spec

CONSTANTS
  Clients = {c1, c2}
  Scheduler = sched
  Ops = {"create", "update", "delete", "newBudget", "editBudget", "insights"}
  Txns = {t1}
  Categories = {k1}
  Durations = {5}
  DefaultDuration = 5
  OfferedModes = {}
  ClientDates = {3, 7}
  Amounts <- MCAmounts
  BudgetAmounts = {3}
  StartDays = {1}
  Horizon = 6
  ServerSkew = 0
  None = None
  MinMonthDays = 4
  MaxMonthDays = 5
  MinBridgeDays = 2
  LastDay <- MCLastDay
  FirstOfMonth <- MCFirstOfMonth
  EndOfMonth <- MCEndOfMonth

INVARIANTS
  CloseExclusive
  SummaryExact

PROPERTIES
  ClosedLedgerSettles
  ClosedBudgetsSettle
  ClosedInsightsSettle

SYMMETRY
  MCSymmetry
