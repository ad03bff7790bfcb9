SPECIFICATION Spec

CONSTANTS
  Clients = {c1, c2}
  Scheduler = sched
  Ops = {"settings", "mode"}
  Txns = {}
  Categories = {}
  Durations = {4}
  DefaultDuration = 5
  OfferedModes = {"rolling", "calendar_month"}
  ClientDates = {3}
  Amounts = {1}
  BudgetAmounts = {}
  StartDays = {4}
  Horizon = 11
  ServerSkew = 1
  None = None
  MinMonthDays = 4
  MaxMonthDays = 5
  MinBridgeDays = 2
  LastDay <- MCLastDay
  FirstOfMonth <- MCFirstOfMonth
  EndOfMonth <- MCEndOfMonth

INVARIANTS
  TypeOK
  ChainOK
  DurationsOK

PROPERTIES
  ClosedWhenOver
  KeepsHistory

SYMMETRY
  MCSymmetry
