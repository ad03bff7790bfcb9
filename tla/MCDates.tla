------------------------------- MODULE MCDates -------------------------------
(***************************************************************************)
(* PeriodWalk and RecurringDates on the Gregorian calendar of 2027 to      *)
(* 2029.  The two walks have nothing to do with one another: an initial    *)
(* state starts one of them and has the other at its end.                  *)
(***************************************************************************)
EXTENDS PeriodWalk, RecurringDates, MCGregorian

\* Registration on any day of January.
MCStartDays == 0 .. 30
MCLastClose == MCLastDay - 62

\* One cent, and amounts of up to a hundred thousand pesos.
MCBudgetAmounts == {1, 7, 99, 123457, 9999999}

\* Start dates in January, February and March, in a common and a leap year.
MCStartDates  == 0 .. 89 \cup 365 .. 455
MCLastAdvance == MCLastDay - 403
MCDaysOfMonth == {1, 15, 28, 29, 30, 31, None}
MCDaysOfWeek  == {0, 3, 6, None}

NoMorePeriods ==
  /\ mode = Rolling
  /\ period = FirstPeriodRange(LastClose, Rolling, MinMonthDays)

NoMoreDates ==
  /\ schedule = [frequency |-> "daily", hint |-> None]
  /\ due = LastAdvance + 1 /\ start = due /\ first = due /\ count = 0

MCInit == (Init /\ NoMoreDates) \/ (NoMorePeriods /\ FirstDate)

MCNext == (Rollover /\ UNCHANGED dates) \/ (Advance /\ UNCHANGED vars)

MCSpec == MCInit /\ [][MCNext]_<<vars, dates>>
=============================================================================
