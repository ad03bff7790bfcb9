----------------------------- MODULE PeriodWalk -----------------------------
(***************************************************************************)
(* One user's chain of periods through the calendar, one close after the   *)
(* other, with the tracking mode and duration chosen anew at each close.   *)
(* TrackingPeriods says who closes a period and when; this module looks at *)
(* the dates alone, for years, on a calendar as large as the real one.     *)
(***************************************************************************)
EXTENDS Calendar, FiniteSets

CONSTANTS
  StartDays,      \* days on which the user may register
  Durations,      \* values of tracking_duration_days
  LastClose,      \* bound: no period that ends after this day is closed
  Views,          \* numbers of blocks of the summary views: 2 and 4
  BudgetAmounts   \* amounts that are carried, in cents

ASSUME WalkAssumption ==
  /\ Durations \subseteq MinMonthDays .. MaxMonthDays
  /\ LastClose \in Nat /\ LastClose + 2 * MaxMonthDays <= LastDay
  /\ StartDays \subseteq 0 .. LastClose
  /\ Views \subseteq 1 .. MinBridgeDays
  /\ BudgetAmounts \subseteq Nat

VARIABLES
  period,  \* the active period's dates
  mode     \* the mode it was created in

vars == <<period, mode>>

Init ==
  \E today \in StartDays, d \in Durations :
    /\ mode = Rolling
    /\ period = FirstPeriodRange(today, Rolling, d)

\* ClosePeriodTx reads the mode and duration of the period being born.
Rollover ==
  /\ period.end <= LastClose
  /\ \E m \in Modes, d \in Durations :
       /\ mode' = m
       /\ period' = NextPeriodRange(period.end, m, d)

Next == Rollover

Spec == Init /\ [][Next]_vars

-----------------------------------------------------------------------------
(***************************************************************************)
(* "With this floor a bridge is always between 15 and 45 days" (period.go) *)
(* and every other period has 28 to 31, whatever the user switches to.     *)
(***************************************************************************)
LengthsOK ==
  /\ DurationInRange(period)
  /\ period.transition =>
       InclusiveDays(period.start, period.end) \in
         MinBridgeDays .. MaxMonthDays + MinBridgeDays - 1

(***************************************************************************)
(* A bridge is a "one-off": in calendar mode it leads to whole months, so  *)
(* while the user stays in that mode no second bridge follows.             *)
(***************************************************************************)
BridgeOnce ==
  [][mode = CalendarMonth /\ mode' = CalendarMonth =>
       /\ ~period'.transition
       /\ period'.start = FirstOfMonth[period'.start]
       /\ period'.end = EndOfMonth[period'.start]]_vars

(***************************************************************************)
(* The blocks of every view cover each day of the period once, and there   *)
(* are as many as the view asks for (tracking_period.go:212).              *)
(***************************************************************************)
ViewsPartition ==
  \A n \in Views :
    LET blocks == SubPeriods(period, n)
    IN  /\ \A d \in period.start .. period.end :
             \E b \in blocks :
               /\ b.from <= d /\ d <= b.to
               /\ \A c \in blocks : c.from <= d /\ d <= c.to => c = b
        /\ \A b \in blocks : period.start <= b.from /\ b.to <= period.end
        /\ Cardinality(blocks) = n

(***************************************************************************)
(* A budget that passed through a bridge is "roughly restored" when the    *)
(* bridge is over (store_periods.go:553): it is what scaling the original  *)
(* to the new length gives, up to the two roundings.                       *)
(***************************************************************************)
BudgetRestored ==
  [][period.transition /\ ~period'.transition =>
       \A before \in MinMonthDays .. MaxMonthDays, a \in BudgetAmounts :
         LET bridge == InclusiveDays(period.start, period.end)
             after  == InclusiveDays(period'.start, period'.end)
             old    == [start |-> period.start - before, end |-> period.start - 1,
                        transition |-> FALSE]
             final  == Prorate(Prorate(a, old, period), period, period')
             error  == final * before - a * after
         IN  /\ 2 * bridge * error <= (after + bridge) * before
             /\ -(2 * bridge * error) <= (after + bridge) * before]_vars
=============================================================================
