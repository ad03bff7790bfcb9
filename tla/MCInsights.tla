------------------------------ MODULE MCInsights ------------------------------
(***************************************************************************)
(* Insights for TLC.                                                       *)
(***************************************************************************)
EXTENDS Insights

CONSTANTS food, fun

\* Little, enough to compare with, or a bridge.
MCBefore == {<<1, FALSE>>, <<60, FALSE>>, <<60, TRUE>>}

MCGoalStart == -1

\* Up to the end of the period, or brought forward, reduced and given up for
\* achieved.
MCPlans == {[status |-> "active", end |-> 3, target |-> 70],
            [status |-> "achieved", end |-> 2, target |-> 40]}

\* One with the defaults for one category, one global, one that warns late.
MCBudgets ==
  {[category |-> food, amount |-> 75, warning |-> 80, critical |-> 100],
   [category |-> NoCategory, amount |-> 142, warning |-> 50, critical |-> 99],
   [category |-> fun, amount |-> 3, warning |-> 100, critical |-> 90]}
=============================================================================
