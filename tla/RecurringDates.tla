--------------------------- MODULE RecurringDates ---------------------------
(***************************************************************************)
(* The dates of a recurring template: the first due date its start date    *)
(* and hints give, and the chain of occurrences the engine's advance makes *)
(* of it.  RecurringEngine says who advances a template and when; this     *)
(* module looks at the dates alone, on the calendar of module Calendar.    *)
(***************************************************************************)
EXTENDS Calendar

CONSTANTS
  StartDates,   \* start dates a client may give
  DaysOfMonth,  \* day_of_month hints, None for no hint
  DaysOfWeek,   \* day_of_week hints (0 is Sunday), None for no hint
  Intervals,    \* custom_interval_days
  Day0,         \* the weekday of day 0
  LastAdvance,  \* bound: no occurrence after this day is advanced
  None          \* no hint

ASSUME DatesAssumption ==
  /\ \A d \in Days :
       /\ FirstOfMonth[d] \in Days
       /\ \A e \in FirstOfMonth[d] .. EndOfMonth[d] :
            e \in Days => FirstOfMonth[e] = FirstOfMonth[d]
                          /\ EndOfMonth[e] = EndOfMonth[d]
  /\ LastAdvance \in Nat /\ LastAdvance + 13 * MaxMonthDays <= LastDay
  /\ StartDates \subseteq 0 .. LastAdvance
  /\ DaysOfMonth \subseteq (1 .. MaxMonthDays) \cup {None}
  /\ DaysOfWeek \subseteq (0 .. 6) \cup {None}
  /\ Intervals \subseteq Nat \ {0}
  /\ Day0 \in 0 .. 6 /\ None \notin Int

VARIABLES
  schedule,  \* the template's frequency, with its hint or interval
  start,     \* its start_date
  first,     \* history: its first due date
  due,       \* the current occurrence
  count      \* history: how many occurrences came before it

dates == <<schedule, start, first, due, count>>

\* A frequency reads one of the hints at most.
Schedules ==
  [frequency : {"daily", "yearly"}, hint : {None}]
  \cup [frequency : {"weekly", "biweekly"}, hint : DaysOfWeek]
  \cup [frequency : {"monthly"}, hint : DaysOfMonth]
  \cup [frequency : {"custom"}, hint : Intervals]

Weekday(d) == (Day0 + d) % 7

\* time.Date with a day past the month's length runs into the next month.
DayOfMonth(d, day) == FirstOfMonth[d] + day - 1

NextMonth(d) == EndOfMonth[d] + 1

\* Mutant of ComputeNextDueDate: the start date itself does not count.
FirstDueAfterStart(s, sch) ==
  IF sch.hint = None THEN s
  ELSE CASE sch.frequency \in {"weekly", "biweekly"} ->
              s + ((sch.hint - Weekday(s)) % 7)
         [] sch.frequency = "monthly" ->
              LET candidate == DayOfMonth(s, sch.hint)
              IN  IF candidate <= s THEN DayOfMonth(NextMonth(s), sch.hint)
                                    ELSE candidate
         [] OTHER -> s

ComputeNextDueDate(s, sch) ==
  IF sch.hint = None THEN s
  ELSE CASE sch.frequency \in {"weekly", "biweekly"} ->
              s + ((sch.hint - Weekday(s)) % 7)
         [] sch.frequency = "monthly" ->
              LET candidate == DayOfMonth(s, sch.hint)
              IN  IF candidate < s THEN DayOfMonth(NextMonth(s), sch.hint)
                                   ELSE candidate
         [] OTHER -> s

\* day of d's month, or the last day of a month that has no such day.
Clamped(d, day) ==
  IF day > InclusiveDays(FirstOfMonth[d], EndOfMonth[d])
  THEN EndOfMonth[d] ELSE DayOfMonth(d, day)

\* Mutant of AddMonthClamped: Go's date normalization.
AddMonthNormalized(d, day) == DayOfMonth(NextMonth(d), day)

AddMonthClamped(d, day) == Clamped(NextMonth(d), day)

\* The 1st of the month k months after d's.
MonthsAfter(d, k) ==
  LET f[i \in 0 .. k] ==
        IF i = 0 THEN FirstOfMonth[d] ELSE NextMonth(f[i - 1])
  IN  f[k]

DayNumber(d) == InclusiveDays(FirstOfMonth[d], d)

\* Mutant of AdvanceByFrequency: the day of the occurrence, not the hint.
AdvanceFromOccurrence(d, sch) ==
  CASE sch.frequency = "daily"    -> d + 1
    [] sch.frequency = "weekly"   -> d + 7
    [] sch.frequency = "biweekly" -> d + 14
    [] sch.frequency = "monthly"  -> AddMonthClamped(d, DayNumber(d))
    [] sch.frequency = "yearly"   -> Clamped(MonthsAfter(d, 12), DayNumber(d))
    [] sch.frequency = "custom"   -> d + sch.hint

AdvanceByFrequency(d, sch) ==
  CASE sch.frequency = "daily"    -> d + 1
    [] sch.frequency = "weekly"   -> d + 7
    [] sch.frequency = "biweekly" -> d + 14
    [] sch.frequency = "monthly"  ->
         AddMonthClamped(d, IF sch.hint = None THEN DayNumber(d) ELSE sch.hint)
    [] sch.frequency = "yearly"   -> Clamped(MonthsAfter(d, 12), DayNumber(d))
    [] sch.frequency = "custom"   -> d + sch.hint

FirstDate ==
  /\ start \in StartDates /\ schedule \in Schedules
  /\ first = ComputeNextDueDate(start, schedule)
  /\ due = first /\ count = 0

Advance ==
  /\ due <= LastAdvance
  /\ due' = AdvanceByFrequency(due, schedule)
  /\ count' = count + 1
  /\ UNCHANGED <<schedule, start, first>>

Dates == FirstDate /\ [][Advance]_dates

-----------------------------------------------------------------------------
(* Properties.                                                             *)

\* Is d on the day of the week or of the month that the schedule asks for?
OnHint(d) ==
  \/ schedule.hint = None
  \/ schedule.frequency \in {"weekly", "biweekly"}
     /\ Weekday(d) = schedule.hint
  \/ schedule.frequency = "monthly" /\ d = DayOfMonth(d, schedule.hint)
  \/ schedule.frequency = "custom"

\* A month without the day asked for gives as many days to the next one.
RunsOver(d) ==
  /\ schedule.frequency = "monthly" /\ schedule.hint # None
  /\ \E m \in {start, NextMonth(start)} :
       /\ schedule.hint > InclusiveDays(FirstOfMonth[m], EndOfMonth[m])
       /\ d - EndOfMonth[m] =
            schedule.hint - InclusiveDays(FirstOfMonth[m], EndOfMonth[m])

(***************************************************************************)
(* No occurrence precedes the start of a template, none it asks for from   *)
(* then on is left out, and the first is on the day asked for unless that  *)
(* month has no such day: then it is in the month after, as the comment    *)
(* says (recurring_transaction.go:302-313).                                *)
(***************************************************************************)
StartsOnHint ==
  /\ start <= first
  /\ \A d \in start .. first - 1 : ~OnHint(d)
  /\ OnHint(first) \/ RunsOver(first)

(***************************************************************************)
(* The occurrences never drift: the n-th of a monthly template with a day  *)
(* is on that day, or the last, of the n-th month after the first; a       *)
(* yearly one stays in its month; the others stay n intervals from the     *)
(* first (recurring_engine.go:277-301).                                    *)
(***************************************************************************)
NoDrift ==
  CASE schedule.frequency = "monthly" ->
         schedule.hint # None /\ count > 0 =>
           due = Clamped(MonthsAfter(first, count), schedule.hint)
    [] schedule.frequency = "yearly" ->
         FirstOfMonth[due] = MonthsAfter(first, 12 * count)
    [] OTHER ->
         LET step == CASE schedule.frequency = "daily"    -> 1
                       [] schedule.frequency = "weekly"   -> 7
                       [] schedule.frequency = "biweekly" -> 14
                       [] schedule.frequency = "custom"   -> schedule.hint
         IN  due = first + count * step

(***************************************************************************)
(* The occurrences are the ones the template asks for: the first day that  *)
(* fits, and then one interval after the other.                            *)
(***************************************************************************)
OnSchedule == StartsOnHint /\ NoDrift

(***************************************************************************)
(* A monthly template has one occurrence in every month: none is skipped,  *)
(* as "Jan 31 + 1 month" would skip February (recurring_engine.go:279-281),*)
(* with a hint or without.                                                 *)
(***************************************************************************)
EveryMonth ==
  [][schedule.frequency = "monthly" => FirstOfMonth[due'] = NextMonth(due)]_dates
=============================================================================
