------------------------------- MODULE Insights -------------------------------
(***************************************************************************)
(* What the two families of insights say about one period: the "during"    *)
(* ones (analytics_during.go), computed from the transactions so far, and  *)
(* the "final" ones and the summary (analytics.go, store_periods.go),      *)
(* computed at the close.  When they are stored and deleted is module      *)
(* TrackingPeriods'; here the data they are computed from evolves day by   *)
(* day, and each insight is a function of it.                              *)
(*                                                                         *)
(* Amounts are in cents, to which the code rounds projections and          *)
(* estimates, and percentages in tenths, to which it rounds those.         *)
(* Quotients are exact (the code's have 16 digits).                        *)
(***************************************************************************)
EXTENDS Integers, SequencesExt, FiniteSetsExt, Functions

CONSTANTS
  Categories,    \* the user's expense categories
  NoCategory,    \* category_id is NULL
  Prices,        \* amounts an expense may have
  Incomes,       \* amounts an income may have
  MaxExpenses,   \* bound: expenses in the period
  MaxIncome,     \* bound: income in the period
  Days,          \* length of the period
  LastDay,       \* bound: the clock, it may pass the end before the close
  Budgets,       \* budgets of the period
  Before,        \* what may have come before: the values of previous, bridge
  GoalStart,     \* start date of a savings goal, which no edit changes
  Plans,         \* what a PUT may make of it: status, target date and amount
  Deposits,      \* amounts the user may contribute to it
  None

ASSUME InsightsAssumption ==
  /\ Prices \subseteq Nat \ {0} /\ Incomes \subseteq Nat \ {0}
  /\ Deposits \subseteq Nat \ {0}
  /\ MaxExpenses \in Nat /\ MaxIncome \in Nat
  /\ Days \in Nat \ {0} /\ LastDay \in Nat
  /\ IsFiniteSet(Categories) /\ IsFiniteSet(Prices)
  /\ NoCategory \notin Categories /\ None \notin Int \cup Categories
  /\ None \notin {"info", "success", "warning", "critical", "budget_warning",
                  "budget_exceeded"}
  /\ Before \subseteq (Nat \cup {None}) \X BOOLEAN
  \* BudgetService.normalize
  /\ \A b \in Budgets :
       /\ b.category \in Categories \cup {NoCategory} /\ b.amount \in Nat \ {0}
       /\ b.warning \in 0 .. 100 /\ b.critical \in 0 .. 100
  \* SavingsGoalService.Create, Update
  /\ GoalStart \in Int
  /\ Plans \subseteq
       [status : {"active", "paused", "abandoned", "achieved"},
        end : {d \in Int : GoalStart < d}, target : Nat \ {0}]

VARIABLES
  expenses,   \* how many live expenses there are of each category and amount
  income,     \* total of the live incomes
  day,        \* days elapsed, today included
  previous,   \* expenses in the previous period's summary, None without one
  bridge,     \* is this period, or was the one before, a transition?
  plan        \* the goal: status, target date, target and current amount,
              \* None once it is deleted

data == <<expenses, income, day, previous, bridge, plan>>

\* What the queries group by.
Groups == Categories \cup {NoCategory}

Kinds == Groups \X Prices

-----------------------------------------------------------------------------
(* The aggregate queries.                                                  *)

\* Half away from zero, the rounding of shopspring/decimal.
RoundDiv(a, b) == IF a >= 0 THEN (2 * a + b) \div (2 * b)
                            ELSE - ((b - 2 * a) \div (2 * b))

\* a / b in tenths of a percent, 0 when the code does not divide.
Percent(a, b) == IF b > 0 THEN RoundDiv(1000 * a, b) ELSE 0

Quantity(c) == SumFunction([p \in Prices |-> expenses[<<c, p>>]])
Spent(c)    == SumFunction([p \in Prices |-> p * expenses[<<c, p>>]])

Spending == {c \in Groups : Quantity(c) > 0}

TotalExpenses == SumFunction([c \in Groups |-> Spent(c)])
ExpenseCount  == SumFunction([c \in Groups |-> Quantity(c)])
NetSavings    == income - TotalExpenses

\* Mutant of InOrder: ExpenseByCategory without its ORDER BY.
AnyOrder(S) == SetToSeqs(S)

\* The results of a query that orders S by total: ties come in any order.
InOrder(S) ==
  {s \in SetToSeqs(S) :
     \A i \in 1 .. Len(s) - 1 : Spent(s[i]) >= Spent(s[i + 1])}

ExpenseByCategory == InOrder(Spending)

\* GetTopExpenseCategory, stored in the summary: uncategorised rows excluded.
TopExpenseCategory ==
  {s[1] : s \in InOrder(Spending \ {NoCategory}) \ {<<>>}}

\* collectFullDuringData and collectClosePeriodData leave bridges out.
ComparedWith == IF bridge THEN None ELSE previous

-----------------------------------------------------------------------------
(* "During" insights: the severity of each, None when it is omitted.       *)

\* Mutant of Projected: the day under way does not count as elapsed.
ProjectedFromYesterday ==
  RoundDiv(TotalExpenses * Days, Max({1, Min({day, Days}) - 1}))

\* The days elapsed are clamped to the period's.
Projected == RoundDiv(TotalExpenses * Days, Min({day, Days}))

SpendingPace ==
  IF TotalExpenses = 0 THEN None
  ELSE IF income > 0 /\ 10 * Projected > 12 * income THEN "critical"
  ELSE IF income > 0 /\ Projected > income THEN "warning"
  ELSE "info"

\* What counts against a budget; without a category it is the global one.
Charged(b) == IF b.category = NoCategory THEN TotalExpenses ELSE Spent(b.category)

BudgetAlert(b) ==
  LET used == Percent(Charged(b), b.amount) IN
  IF Charged(b) = 0 THEN None
  ELSE IF used >= 10 * b.critical THEN "budget_exceeded"
  ELSE IF used >= 10 * b.warning THEN "budget_warning"
  ELSE None

\* Many small expenses: below a tenth of the average, per category.
AntExpenses(minExpenses, minPerCategory, minAnts) ==
  LET small == {c \in Spending :
                  /\ Quantity(c) >= minPerCategory
                  /\ 10 * Spent(c) * ExpenseCount < TotalExpenses * Quantity(c)}
  IN  /\ ExpenseCount >= minExpenses
      /\ SumFunction([c \in small |-> Quantity(c)]) >= minAnts

\* Mutant of AntExpensesEarly: only categories with five expenses.
AntExpensesLate == AntExpenses(3, 6, 3)

AntExpensesEarly == AntExpenses(3, 2, 3)

\* Past the end of the period more than the previous total.
PreviousEstimate(prev) == RoundDiv(prev * day, Days)

VsPreviousPartial ==
  LET estimate == PreviousEstimate(ComparedWith)
      delta    == TotalExpenses - estimate
      change   == Percent(delta, estimate)
  IN  IF ComparedWith = None THEN None
      ELSE IF delta > 0 /\ change > 150 THEN "warning"
      ELSE IF delta < 0 /\ change < -100 THEN "success"
      ELSE "info"

\* Mutant of GoalProgressAlert: the expectation is that of the days that remain.
GoalAlertFromEnd ==
  /\ plan # None /\ plan.status = "active"
  /\ day \in GoalStart .. plan.end /\ plan.saved < plan.target
  /\ plan.saved < RoundDiv(plan.target * (plan.end - day + 1),
                      plan.end - GoalStart + 1)

\* Dates count from the first day of the period.
GoalProgressAlert ==
  /\ plan # None /\ plan.status = "active"
  /\ day \in GoalStart .. plan.end /\ plan.saved < plan.target
  /\ plan.saved < RoundDiv(plan.target * (day - GoalStart + 1),
                      plan.end - GoalStart + 1)

-----------------------------------------------------------------------------
(* Final insights.                                                         *)

TopCategories(s) == SubSeq(s, 1, Min({3, Len(s)}))

AntExpensesFinal == AntExpenses(5, 3, 5)

\* The first category with at least two expenses, None if there is none.
ReductionOpportunity(s) ==
  LET eligible == {i \in 1 .. Len(s) : s[i] # NoCategory /\ Quantity(s[i]) >= 2}
  IN  IF eligible = {} THEN None ELSE s[Min(eligible)]

SavingsSummary ==
  IF NetSavings < 0 THEN "warning"
  ELSE IF Percent(NetSavings, income) >= 200 THEN "success"
  ELSE "info"

Exceeded == {b \in Budgets : Charged(b) > b.amount}

BudgetCompliance ==
  IF Budgets = {} THEN None
  ELSE IF Exceeded = Budgets THEN "critical"
  ELSE IF Exceeded # {} THEN "warning"
  ELSE "success"

VsPreviousFinal ==
  LET delta == TotalExpenses - ComparedWith IN
  IF ComparedWith = None THEN None
  ELSE IF delta < 0 THEN "success"
  ELSE IF Percent(delta, ComparedWith) > 200 THEN "warning"
  ELSE "info"

-----------------------------------------------------------------------------
\* What the client sends, with the current amount the goal keeps.
Edited(p, saved) ==
  [status |-> p.status, end |-> p.end, target |-> p.target, saved |-> saved]

FirstDay ==
  /\ expenses = [k \in Kinds |-> 0] /\ income = 0 /\ day = 1
  /\ \E b \in Before : previous = b[1] /\ bridge = b[2]
  /\ plan \in {Edited(p, 0) : p \in {q \in Plans : q.status = "active"}}

Spend ==
  \E k \in Kinds :
    /\ ExpenseCount < MaxExpenses
    /\ expenses' = [expenses EXCEPT ![k] = @ + 1]
    /\ UNCHANGED <<income, day, previous, bridge, plan>>

\* An edit of an expense is its deletion and another one's creation.
DeleteExpense ==
  \E k \in Kinds :
    /\ expenses[k] > 0
    /\ expenses' = [expenses EXCEPT ![k] = @ - 1]
    /\ UNCHANGED <<income, day, previous, bridge, plan>>

Earn ==
  \E a \in Incomes :
    /\ income + a <= MaxIncome /\ income' = income + a
    /\ UNCHANGED <<expenses, day, previous, bridge, plan>>

NextDay ==
  /\ day < LastDay /\ day' = day + 1
  /\ UNCHANGED <<expenses, income, previous, bridge, plan>>

\* Bound: no contribution to a goal that has been reached.
Contribute ==
  \E a \in Deposits :
    /\ plan # None /\ plan.saved < plan.target
    /\ plan' = [plan EXCEPT !.saved = @ + a,
                            !.status = IF plan.saved + a >= plan.target
                                       THEN "achieved" ELSE @]
    /\ UNCHANGED <<expenses, income, day, previous, bridge>>

EditGoal ==
  \E p \in Plans :
    /\ plan # None /\ plan' = Edited(p, plan.saved)
    /\ UNCHANGED <<expenses, income, day, previous, bridge>>

\* deleted_at is set; no query lists the goal any more.
DeleteGoal ==
  /\ plan # None /\ plan' = None
  /\ UNCHANGED <<expenses, income, day, previous, bridge>>

Change == \/ Spend \/ DeleteExpense \/ Earn \/ NextDay
          \/ Contribute \/ EditGoal \/ DeleteGoal

Period == FirstDay /\ [][Change]_data

-----------------------------------------------------------------------------
(* Properties.                                                             *)

(***************************************************************************)
(* The close brings no bad news the open period had kept to itself.  The   *)
(* final insights and the during ones have their own thresholds, counts    *)
(* and rounding (analytics.go:208-491, analytics_during.go:109-494), and   *)
(* still: a budget the close calls exceeded was alerted as exceeded, the   *)
(* small expenses it points out were pointed out, and on the last day the  *)
(* other two comparisons had warned as well.  Without an income the pace   *)
(* is never more than "info": its comment (analytics_during.go:104) says   *)
(* otherwise.                                                              *)
(***************************************************************************)
NoSurpriseAtClose ==
  /\ \A b \in Exceeded : BudgetAlert(b) = "budget_exceeded"
  /\ BudgetCompliance \in {"warning", "critical"} =>
       \E b \in Budgets : BudgetAlert(b) # None
  /\ AntExpensesFinal => AntExpensesEarly
  /\ day = Days =>
       /\ SavingsSummary = "warning" /\ income > 0 =>
            SpendingPace \in {"warning", "critical"}
       /\ VsPreviousFinal = "warning" => VsPreviousPartial = "warning"

(***************************************************************************)
(* Nor does it take back good news: on the last day a pace above the       *)
(* income means that nothing was saved, spending below the previous period *)
(* stays below it, and one of the two comparisons is made exactly when the *)
(* other is.                                                               *)
(***************************************************************************)
NothingTakenBack ==
  /\ day = Days =>
       /\ SpendingPace \in {"warning", "critical"} =>
            SavingsSummary = "warning"
       /\ VsPreviousPartial = "success" => VsPreviousFinal = "success"
       /\ VsPreviousPartial = None <=> VsPreviousFinal = None

(***************************************************************************)
(* The category an insight names is the one the money went to, in whatever *)
(* order PostgreSQL returns ties (analytics.go:102-317,                    *)
(* store_periods.go:266-273): no category left out of the top three was    *)
(* larger than one in it, the reduction opportunity is the largest         *)
(* categorised spending with two expenses, and the top category of the     *)
(* summary and the one of the insights differ only by a tie or because the *)
(* insights' may be the expenses without a category.                       *)
(***************************************************************************)
LeadersAreLargest ==
  \A s \in ExpenseByCategory :
    /\ \A c \in Range(TopCategories(s)), d \in Spending \ Range(TopCategories(s)) :
         Spent(c) >= Spent(d)
    /\ \A c \in Categories :
         Quantity(c) >= 2 =>
           /\ ReductionOpportunity(s) # None
           /\ Spent(c) <= Spent(ReductionOpportunity(s))
    /\ s # <<>> /\ s[1] # NoCategory =>
         \A top \in TopExpenseCategory : Spent(top) = Spent(s[1])

Rank(severity) ==
  CASE severity \in {"critical", "budget_exceeded"} -> 2
    [] severity \in {"warning", "budget_warning"} -> 1
    [] OTHER -> 0

\* Until the estimate is a cent the change is 0%, whatever was spent.
Comparable == ComparedWith # None /\ PreviousEstimate(ComparedWith) > 0

(***************************************************************************)
(* Alerts follow what the user does.  Another expense eases neither the    *)
(* pace nor the comparison with the previous period nor the alert of any   *)
(* budget (it may end those that compare expenses with one another: small  *)
(* expenses, an unusual one); a day without one makes no pace worse and no *)
(* comparison either, unless it is the first day there is anything to      *)
(* compare with; and the alert of a goal that is behind is ended neither   *)
(* by an expense or an income nor by a day that passes, but only by a      *)
(* contribution, an edit or a deletion of the goal, or its target date     *)
(* (analytics_during.go:109-296, 434-576): after it the goal is behind for *)
(* good and no insight says so.                                            *)
(***************************************************************************)
AlertsFollow ==
  [][/\ (\E k \in Kinds : expenses'[k] > expenses[k]) =>
          /\ Rank(SpendingPace') >= Rank(SpendingPace)
          /\ Rank(VsPreviousPartial') >= Rank(VsPreviousPartial)
          /\ \A b \in Budgets : Rank(BudgetAlert(b)') >= Rank(BudgetAlert(b))
     /\ day' > day =>
          /\ Rank(SpendingPace') <= Rank(SpendingPace)
          /\ (Comparable' => Comparable) =>
               Rank(VsPreviousPartial') <= Rank(VsPreviousPartial)
     /\ GoalProgressAlert =>
          GoalProgressAlert' \/ plan' # plan \/ day' > plan.end]_data
=============================================================================
