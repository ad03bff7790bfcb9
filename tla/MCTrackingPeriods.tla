-------------------------- MODULE MCTrackingPeriods --------------------------
(***************************************************************************)
(* TrackingPeriods for TLC: a calendar of short months, so that periods    *)
(* end within a few days.  Months have 4 or 5 days and a bridge at least   *)
(* 2, for the 28 to 31 and 15 of the code.                                 *)
(***************************************************************************)
EXTENDS TrackingPeriods, TLC

MCLastDay     == 34
MCMonthStarts == {0, 5, 9, 14, 19, 23, 28, 32, 37}
MCFirstOfMonth ==
  [d \in 0 .. MCLastDay |-> Max({s \in MCMonthStarts : s <= d})]
MCEndOfMonth ==
  [d \in 0 .. MCLastDay |-> Min({s \in MCMonthStarts : s > d}) - 1]

\* Clients and transaction ids are interchangeable.
MCSymmetry == Permutations(Clients) \cup Permutations(Txns)

\* An income of 2 and an expense of 1.
MCAmounts == {2, -1}

\* An income of 1 and an expense of 11: a savings rate of -1000 %.
MCOverspent == {1, -11}
=============================================================================
