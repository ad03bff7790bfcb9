SPECIFICATION Period

CONSTANTS
  food = food
  fun = fun
  Categories = {food, fun}
  NoCategory = NoCategory
  Prices = {1, 70}
  Incomes = {71}
  MaxExpenses = 6
  MaxIncome = 71
  Days = 3
  LastDay = 4
  Budgets <- MCBudgets
  Before <- MCBefore
  GoalStart <- MCGoalStart
  Plans <- MCPlans
  Deposits = {40}
  None = None

INVARIANTS
  NoSurpriseAtClose
  NothingTakenBack
  LeadersAreLargest

PROPERTIES
  AlertsFollow

\* On the last day with every bound reached nothing more happens.
CHECK_DEADLOCK FALSE
