---------------------------- MODULE MCGregorian ----------------------------
(***************************************************************************)
(* The Gregorian calendar of 2027 to 2029, which has a leap February and   *)
(* common ones, for TLC.  Day 0 is 2027-01-01, a Friday.                   *)
(***************************************************************************)
EXTENDS Integers, FiniteSetsExt

MonthLength ==
  [k \in 0 .. 35 |->
     LET m == (k % 12) + 1
     IN  CASE m = 2 -> IF k \div 12 = 1 THEN 29 ELSE 28
           [] m \in {4, 6, 9, 11} -> 30
           [] OTHER -> 31]

MonthStart[k \in 0 .. 36] ==
  IF k = 0 THEN 0 ELSE MonthStart[k - 1] + MonthLength[k - 1]

MCLastDay      == MonthStart[36] - 1
MonthOf        == [d \in 0 .. MCLastDay |-> Max({k \in 0 .. 35 : MonthStart[k] <= d})]
MCFirstOfMonth == [d \in 0 .. MCLastDay |-> MonthStart[MonthOf[d]]]
MCEndOfMonth   == [d \in 0 .. MCLastDay |-> MonthStart[MonthOf[d] + 1] - 1]
=============================================================================
