------------------------------ MODULE Calendar ------------------------------
(***************************************************************************)
(* The date arithmetic of tracking periods (internal/domain/period.go) and *)
(* what is scaled or split by their lengths.                               *)
(*                                                                         *)
(* A date is a day number.  What the code asks of the Gregorian calendar   *)
(* is only where the month of a date begins and ends, so the calendar is   *)
(* given by two functions; PeriodWalk checks these operators on the real   *)
(* calendar, the other modules on one with shorter months, and             *)
(* DatesProofs proves their bounds for every calendar that satisfies       *)
(* CalendarAssumption.                                                     *)
(***************************************************************************)
EXTENDS Integers

CONSTANTS
  LastDay,       \* the dates considered are 0 .. LastDay
  FirstOfMonth,  \* [Days -> Int]: the 1st of the month a date falls in
  EndOfMonth,    \* [Days -> Int]: the last day of the month a date falls in
  MinMonthDays,  \* shortest regular period and shortest month (28)
  MaxMonthDays,  \* longest regular period and longest month (31)
  MinBridgeDays  \* shortest transition period (15)

Days == 0 .. LastDay

ASSUME CalendarAssumption ==
  /\ LastDay \in Nat
  /\ MinBridgeDays \in Nat /\ MinMonthDays \in Nat /\ MaxMonthDays \in Nat
  /\ 1 <= MinBridgeDays
  /\ MinBridgeDays <= MinMonthDays
  /\ MinMonthDays <= MaxMonthDays
  /\ FirstOfMonth \in [Days -> Int]
  /\ EndOfMonth \in [Days -> Int]
  /\ \A d \in Days :
       /\ FirstOfMonth[d] <= d /\ d <= EndOfMonth[d]
       /\ EndOfMonth[d] - FirstOfMonth[d] + 1 \in MinMonthDays .. MaxMonthDays
       /\ EndOfMonth[d] + 1 \in Days =>
            FirstOfMonth[EndOfMonth[d] + 1] = EndOfMonth[d] + 1

-----------------------------------------------------------------------------
Rolling       == "rolling"
CalendarMonth == "calendar_month"
Modes         == {Rolling, CalendarMonth}

\* Both end points count.
InclusiveDays(start, end) == end - start + 1

\* Mutant: without the floor of MinBridgeDays.
BridgeEndNoFloor(start) == EndOfMonth[start]

(***************************************************************************)
(* Where a transition period that begins at start stops: at the end of its *)
(* month if that leaves MinBridgeDays, else at the end of the next month.  *)
(***************************************************************************)
BridgeEnd(start) ==
  IF InclusiveDays(start, EndOfMonth[start]) < MinBridgeDays
    THEN EndOfMonth[EndOfMonth[start] + 1]
    ELSE EndOfMonth[start]

\* Mutant: a month is bridged to even from its 1st.
FirstPeriodAlwaysBridge(today, mode, duration) ==
  [start |-> today, transition |-> mode = CalendarMonth,
   end |-> IF mode = CalendarMonth THEN BridgeEnd(today) ELSE today + duration - 1]

(***************************************************************************)
(* The period a user's first period becomes when it begins at today: a     *)
(* block of duration days, a whole month, or a bridge to the next month.   *)
(***************************************************************************)
FirstPeriodRange(today, mode, duration) ==
  LET onTheFirst == FirstOfMonth[today] = today
      end == IF mode # CalendarMonth THEN today + duration - 1
             ELSE IF onTheFirst THEN EndOfMonth[today] ELSE BridgeEnd(today)
  IN  [start |-> today, end |-> end,
       transition |-> mode = CalendarMonth /\ ~onTheFirst]

\* The period that follows one ending at prevEnd begins the day after it.
NextPeriodRange(prevEnd, mode, duration) ==
  FirstPeriodRange(prevEnd + 1, mode, duration)

(***************************************************************************)
(* The check constraint chk_duration_range of table tracking_periods, with *)
(* 62 = two of the longest months.                                         *)
(***************************************************************************)
DurationInRange(r) ==
  InclusiveDays(r.start, r.end) \in
    IF r.transition THEN 1 .. 2 * MaxMonthDays ELSE MinMonthDays .. MaxMonthDays

\* Mutant: scaled on the way into a bridge only.
ProrateIntoBridge(amount, from, to) ==
  LET fromDays == InclusiveDays(from.start, from.end)
      toDays   == InclusiveDays(to.start, to.end)
  IN  IF ~to.transition THEN amount
      ELSE (2 * amount * toDays + fromDays) \div (2 * fromDays)

\* Mutant: cut off, not rounded, to the cent.
ProrateDown(amount, from, to) ==
  LET fromDays == InclusiveDays(from.start, from.end)
      toDays   == InclusiveDays(to.start, to.end)
  IN  IF from.transition = to.transition \/ fromDays < 1 THEN amount
      ELSE (amount * toDays) \div fromDays

(***************************************************************************)
(* A budget, in cents, carried from one period to the next: scaled by the  *)
(* lengths when exactly one of the two is a bridge, and rounded to the     *)
(* cent (the factor is exact here and has 16 digits in the code).          *)
(***************************************************************************)
Prorate(amount, from, to) ==
  LET fromDays == InclusiveDays(from.start, from.end)
      toDays   == InclusiveDays(to.start, to.end)
  IN  IF from.transition = to.transition \/ fromDays < 1 THEN amount
      ELSE (2 * amount * toDays + fromDays) \div (2 * fromDays)

\* Mutant: the last block takes no more days than the others.
SubPeriodsEven(r, n) ==
  LET size == InclusiveDays(r.start, r.end) \div n
  IN  {[from |-> r.start + (i - 1) * size, to |-> r.start + i * size - 1] :
         i \in 1 .. n}

(***************************************************************************)
(* The blocks of a biweekly or weekly view: n stretches of equal length,   *)
(* the last of which also takes the remaining days.                        *)
(***************************************************************************)
SubPeriods(r, n) ==
  LET days == InclusiveDays(r.start, r.end)
      size == IF days < n THEN 1 ELSE days \div n
      From(i) == r.start + (i - 1) * size
  IN  {[from |-> From(i), to |-> IF i = n THEN r.end ELSE From(i + 1) - 1] :
         i \in {k \in 1 .. n : From(k) <= r.end}}
=============================================================================
