----------------------------- MODULE DatesProofs -----------------------------
(***************************************************************************)
(* Proofs about PeriodWalk, for every calendar and every sequence of modes *)
(* and durations: the lengths of periods, the end of bridges, the blocks   *)
(* of the views and the budgets carried through a bridge; and about        *)
(* RecurringDates, for every template: its first due date is the first day *)
(* that fits, and the occurrences after it do not drift and leave no month *)
(* out.                                                                    *)
(***************************************************************************)
EXTENDS PeriodWalk, RecurringDates, FiniteSetTheorems, WellFoundedInduction,
        TLAPS

-----------------------------------------------------------------------------
(* Bounds of the period ranges, as in TrackingPeriodsProofs.               *)

\* The longest bridge: a stretch too short to stand alone, and a whole month.
MaxBridgeDays == MaxMonthDays + MinBridgeDays - 1

\* Two months after d are still on the calendar.
Charted(d) == d \in Days /\ d + 2 * MaxMonthDays <= LastDay + 1

\* The numbers of the assumption.
LEMMA CalendarNumbers ==
  /\ LastDay \in Nat
  /\ MinBridgeDays \in Nat /\ MinMonthDays \in Nat /\ MaxMonthDays \in Nat
  /\ 1 <= MinBridgeDays
  /\ MinBridgeDays <= MinMonthDays /\ MinMonthDays <= MaxMonthDays
BY CalendarAssumption

\* What the assumption says of one date, with the numbers' types.
LEMMA MonthFacts ==
  ASSUME NEW d \in Days
  PROVE  /\ LastDay \in Nat /\ d \in Int /\ 0 <= d /\ d <= LastDay
         /\ MinBridgeDays \in Nat /\ MinMonthDays \in Nat /\ MaxMonthDays \in Nat
         /\ 1 <= MinBridgeDays
         /\ MinBridgeDays <= MinMonthDays /\ MinMonthDays <= MaxMonthDays
         /\ FirstOfMonth[d] \in Int /\ EndOfMonth[d] \in Int
         /\ FirstOfMonth[d] <= d /\ d <= EndOfMonth[d]
         /\ MinMonthDays <= EndOfMonth[d] - FirstOfMonth[d] + 1
         /\ EndOfMonth[d] - FirstOfMonth[d] + 1 <= MaxMonthDays
         /\ EndOfMonth[d] + 1 \in Days =>
              FirstOfMonth[EndOfMonth[d] + 1] = EndOfMonth[d] + 1
BY CalendarAssumption DEF Days

(***************************************************************************)
(* The floor of minBridgeDays and the ceiling it implies (period.go:28):   *)
(* a bridge has MinBridgeDays .. MaxBridgeDays days.                       *)
(***************************************************************************)
LEMMA BridgeBounds ==
  ASSUME NEW d, Charted(d)
  PROVE  /\ BridgeEnd(d) \in Int
         /\ MinBridgeDays <= InclusiveDays(d, BridgeEnd(d))
         /\ InclusiveDays(d, BridgeEnd(d)) <= MaxBridgeDays
<1> DEFINE e == EndOfMonth[d]
<1>1. d \in Days /\ d + 2 * MaxMonthDays <= LastDay + 1
  BY DEF Charted
<1>2. CASE InclusiveDays(d, e) < MinBridgeDays
  <2>1. e + 1 \in Days
    BY <1>1, <1>2, MonthFacts DEF InclusiveDays, Days
  <2>2. FirstOfMonth[e + 1] = e + 1
    BY <1>1, <2>1, MonthFacts
  <2>3. /\ EndOfMonth[e + 1] \in Int
        /\ MinMonthDays <= EndOfMonth[e + 1] - e
        /\ EndOfMonth[e + 1] - e <= MaxMonthDays
    BY <1>1, <2>1, <2>2, MonthFacts
  <2>4. BridgeEnd(d) = EndOfMonth[e + 1]
    BY <1>2 DEF BridgeEnd
  <2> QED
    BY <1>1, <1>2, <2>3, <2>4, MonthFacts DEF InclusiveDays, MaxBridgeDays
<1>3. CASE ~(InclusiveDays(d, e) < MinBridgeDays)
  <2>1. BridgeEnd(d) = e
    BY <1>3 DEF BridgeEnd
  <2> QED
    BY <1>1, <1>3, <2>1, MonthFacts DEF InclusiveDays, MaxBridgeDays
<1> QED
  BY <1>2, <1>3

(***************************************************************************)
(* A period range starts where it is asked to, and its length satisfies    *)
(* chk_duration_range and, for a bridge, the floor and the ceiling.        *)
(***************************************************************************)
RangeOK(r) ==
  /\ r.start \in Int /\ r.end \in Int /\ r.transition \in BOOLEAN
  /\ DurationInRange(r)
  /\ r.transition =>
       InclusiveDays(r.start, r.end) \in MinBridgeDays .. MaxBridgeDays

LEMMA FirstPeriodRangeOK ==
  ASSUME NEW d, Charted(d), NEW m \in Modes,
         NEW duration \in MinMonthDays .. MaxMonthDays
  PROVE  /\ FirstPeriodRange(d, m, duration).start = d
         /\ RangeOK(FirstPeriodRange(d, m, duration))
         /\ FirstPeriodRange(d, m, duration).end \in d .. d + 2 * MaxMonthDays - 1
<1> DEFINE r == FirstPeriodRange(d, m, duration)
<1>0. d \in Days
  BY DEF Charted
<1>1. CASE m # CalendarMonth
  <2>1. r = [start |-> d, end |-> d + duration - 1, transition |-> FALSE]
    BY <1>1 DEF FirstPeriodRange
  <2>2. /\ d \in Int /\ duration \in Int /\ duration <= MaxMonthDays
        /\ MinMonthDays <= duration /\ 1 <= MinMonthDays
        /\ MinMonthDays \in Int /\ MaxMonthDays \in Int
    BY <1>0, MonthFacts
  <2>3. RangeOK(r)
    BY <2>1, <2>2 DEF RangeOK, DurationInRange, InclusiveDays
  <2>4. r.start = d /\ r.end \in d .. d + 2 * MaxMonthDays - 1
    BY <2>1, <2>2
  <2> QED
    BY <2>3, <2>4
<1>2. CASE m = CalendarMonth /\ FirstOfMonth[d] = d
  <2>1. r = [start |-> d, end |-> EndOfMonth[d], transition |-> FALSE]
    BY <1>2 DEF FirstPeriodRange
  <2> QED
    BY <1>0, <1>2, <2>1, MonthFacts DEF RangeOK, DurationInRange, InclusiveDays
<1>3. CASE m = CalendarMonth /\ FirstOfMonth[d] # d
  <2>1. r = [start |-> d, end |-> BridgeEnd(d), transition |-> TRUE]
    BY <1>3 DEF FirstPeriodRange
  <2>2. /\ BridgeEnd(d) \in Int /\ MinBridgeDays <= BridgeEnd(d) - d + 1
        /\ BridgeEnd(d) - d + 1 <= MaxBridgeDays
    BY BridgeBounds DEF InclusiveDays
  <2>3. MaxBridgeDays \in Int /\ MaxBridgeDays < 2 * MaxMonthDays
    BY CalendarNumbers DEF MaxBridgeDays
  <2>4. RangeOK(r)
    BY <1>0, <2>1, <2>2, <2>3, MonthFacts
       DEF RangeOK, DurationInRange, InclusiveDays
  <2> QED
    BY <1>0, <2>1, <2>2, <2>3, <2>4, MonthFacts
<1> QED
  BY <1>1, <1>2, <1>3

-----------------------------------------------------------------------------
(* The walk.                                                               *)

\* In calendar mode a period ends with a month; every range is a legal one.
WalkInv ==
  /\ mode \in Modes
  /\ RangeOK(period)
  /\ 0 <= period.start
  /\ mode = CalendarMonth => \E d \in Days : period.end = EndOfMonth[d]

\* A bridge ends with a month, its own or the next.
LEMMA BridgeEndsMonth ==
  ASSUME NEW d, Charted(d)
  PROVE  \E m \in Days : BridgeEnd(d) = EndOfMonth[m]
<1>1. d \in Days /\ d + 2 * MaxMonthDays <= LastDay + 1
  BY DEF Charted
<1>2. CASE InclusiveDays(d, EndOfMonth[d]) < MinBridgeDays
  <2>1. EndOfMonth[d] + 1 \in Days
    BY <1>1, <1>2, MonthFacts DEF InclusiveDays, Days
  <2> QED
    BY <1>2, <2>1 DEF BridgeEnd
<1>3. CASE ~(InclusiveDays(d, EndOfMonth[d]) < MinBridgeDays)
  BY <1>1, <1>3 DEF BridgeEnd
<1> QED
  BY <1>2, <1>3

\* In calendar mode the range that begins at d ends with a month.
LEMMA CalendarEndsMonth ==
  ASSUME NEW d, Charted(d), NEW duration
  PROVE  \E m \in Days :
           FirstPeriodRange(d, CalendarMonth, duration).end = EndOfMonth[m]
<1>1. d \in Days
  BY DEF Charted
<1>2. CASE FirstOfMonth[d] = d
  BY <1>1, <1>2 DEF FirstPeriodRange
<1>3. CASE FirstOfMonth[d] # d
  BY <1>3, BridgeEndsMonth DEF FirstPeriodRange
<1> QED
  BY <1>2, <1>3

LEMMA WalkInit == Init => WalkInv
<1> SUFFICES ASSUME Init PROVE WalkInv
  OBVIOUS
<1>1. PICK today \in StartDays, d \in Durations :
        mode = Rolling /\ period = FirstPeriodRange(today, Rolling, d)
  BY DEF Init
<1>2. Charted(today) /\ d \in MinMonthDays .. MaxMonthDays
  <2>1. today \in 0 .. LastClose /\ d \in MinMonthDays .. MaxMonthDays
    BY WalkAssumption
  <2>2. LastClose \in Nat /\ LastClose + 2 * MaxMonthDays <= LastDay
    BY WalkAssumption
  <2> QED
    BY <2>1, <2>2, CalendarNumbers DEF Charted, Days
<1>3. Rolling \in Modes /\ Rolling # CalendarMonth
  BY DEF Modes, Rolling, CalendarMonth
<1> QED
  BY <1>1, <1>2, <1>3, FirstPeriodRangeOK DEF WalkInv, Charted, Days

\* The day after a period that may be closed is on the calendar.
LEMMA NextCharted ==
  ASSUME WalkInv, period.end <= LastClose
  PROVE  Charted(period.end + 1) /\ 0 <= period.end
<1>1. 1 <= InclusiveDays(period.start, period.end)
  BY CalendarNumbers DEF WalkInv, RangeOK, DurationInRange, InclusiveDays
<1>2. LastClose \in Nat /\ LastClose + 2 * MaxMonthDays <= LastDay
  BY WalkAssumption
<1>3. period.start \in Int /\ period.end \in Int /\ 0 <= period.start
  BY DEF WalkInv, RangeOK
<1> QED
  BY <1>1, <1>2, <1>3, CalendarNumbers DEF InclusiveDays, Charted, Days

LEMMA WalkStep == WalkInv /\ [Next]_vars => WalkInv'
<1> SUFFICES ASSUME WalkInv, [Next]_vars PROVE WalkInv'
  OBVIOUS
<1>1. CASE Rollover
  <2>1. PICK m \in Modes, d \in Durations :
          mode' = m /\ period' = FirstPeriodRange(period.end + 1, m, d)
    BY <1>1 DEF Rollover, NextPeriodRange
  <2>2. Charted(period.end + 1) /\ 0 <= period.end
    BY <1>1, NextCharted DEF Rollover
  <2>3. d \in MinMonthDays .. MaxMonthDays
    BY WalkAssumption
  <2>4. RangeOK(period)' /\ period'.start = period.end + 1
    BY <2>1, <2>2, <2>3, FirstPeriodRangeOK DEF RangeOK, DurationInRange
  <2>5. mode' = CalendarMonth => \E e \in Days : period'.end = EndOfMonth[e]
    BY <2>1, <2>2, CalendarEndsMonth
  <2> QED
    BY <2>1, <2>2, <2>4, <2>5 DEF WalkInv, RangeOK
<1>2. CASE UNCHANGED vars
  BY <1>2 DEF vars, WalkInv, RangeOK, DurationInRange
<1> QED
  BY <1>1, <1>2 DEF Next

(***************************************************************************)
(* Whatever the user switches to and whenever, a regular period has 28 to  *)
(* 31 days and a bridge 15 to 45 (chk_duration_range and period.go:28).    *)
(***************************************************************************)
THEOREM LengthsCorrect == Spec => []LengthsOK
<1>1. WalkInv => LengthsOK
  BY DEF WalkInv, RangeOK, LengthsOK, MaxBridgeDays
<1> QED
  BY <1>1, WalkInit, WalkStep, PTL DEF Spec

(***************************************************************************)
(* A bridge leads to the first of a month, so a user who stays in calendar *)
(* mode has whole months from then on.                                     *)
(***************************************************************************)
THEOREM BridgeIsOneOff == Spec => BridgeOnce
<1> DEFINE Step == mode = CalendarMonth /\ mode' = CalendarMonth =>
                     /\ ~period'.transition
                     /\ period'.start = FirstOfMonth[period'.start]
                     /\ period'.end = EndOfMonth[period'.start]
<1>1. ASSUME WalkInv, Rollover, mode = CalendarMonth, mode' = CalendarMonth
      PROVE  Step
  <2>1. PICK d \in Durations :
          period' = FirstPeriodRange(period.end + 1, CalendarMonth, d)
    BY <1>1 DEF Rollover, NextPeriodRange
  <2>2. PICK m \in Days : period.end = EndOfMonth[m]
    BY <1>1 DEF WalkInv
  <2>3. period.end + 1 \in Days
    BY <1>1, NextCharted DEF Rollover, Charted
  <2>4. FirstOfMonth[period.end + 1] = period.end + 1
    BY <2>2, <2>3, MonthFacts
  <2>5. period' = [start |-> period.end + 1, end |-> EndOfMonth[period.end + 1],
                   transition |-> FALSE]
    BY <2>1, <2>4 DEF FirstPeriodRange
  <2> QED
    BY <2>4, <2>5
<1>2. WalkInv /\ [Next]_vars => [Step]_vars
  BY <1>1 DEF Next
<1> QED
  BY <1>2, WalkInit, WalkStep, PTL DEF Spec, BridgeOnce

-----------------------------------------------------------------------------
(* The views.                                                              *)

\* Multiples are at least a step apart.
LEMMA Multiples ==
  ASSUME NEW s \in Nat \ {0}, NEW i \in Nat, NEW j \in Nat, i < j
  PROVE  i * s + s <= j * s /\ i * s \in Nat /\ j * s \in Nat
<1> DEFINE k == j - i - 1
<1>1. k \in Nat /\ j = i + 1 + k
  OBVIOUS
<1> HIDE DEF k
<1>2. j * s = i * s + s + k * s
  BY <1>1
<1>3. k * s \in Nat /\ i * s \in Nat /\ j * s \in Nat
  BY <1>1
<1> QED
  BY <1>2, <1>3

(***************************************************************************)
(* A stretch of at least n days is cut into n blocks: those that begin at  *)
(* the multiples of its nth part, the last one longer if days are left.    *)
(***************************************************************************)
LEMMA SubPeriodsPartition ==
  ASSUME NEW r, r.start \in Int, r.end \in Int, NEW n \in Nat \ {0},
         n <= InclusiveDays(r.start, r.end)
  PROVE  LET blocks == SubPeriods(r, n)
         IN  /\ \A d \in r.start .. r.end :
                  \E b \in blocks :
                    /\ b.from <= d /\ d <= b.to
                    /\ \A c \in blocks : c.from <= d /\ d <= c.to => c = b
             /\ \A b \in blocks : r.start <= b.from /\ b.to <= r.end
             /\ Cardinality(blocks) = n
<1> DEFINE days     == InclusiveDays(r.start, r.end)
           size     == days \div n
           From(i)  == r.start + (i - 1) * size
           To(i)    == IF i = n THEN r.end ELSE From(i + 1) - 1
           Block(i) == [from |-> From(i), to |-> To(i)]
           blocks   == {Block(i) : i \in 1 .. n}
<1>1. days \in Nat \ {0} /\ days = r.end - r.start + 1 /\ n <= days
  BY DEF InclusiveDays
<1> HIDE DEF days
<1>2. size \in Nat \ {0} /\ n * size <= days
  <2>1. size \in Nat /\ n * size <= days /\ days < n * size + n
    BY <1>1
  <2> HIDE DEF size
  <2>2. size # 0
    BY <1>1, <2>1
  <2> QED
    BY <2>1, <2>2
<1> HIDE DEF size
<1>3. \A i \in 1 .. n, j \in 1 .. n :
        i < j => From(i) + size <= From(j) /\ From(i) \in Int /\ From(j) \in Int
  <2> SUFFICES ASSUME NEW i \in 1 .. n, NEW j \in 1 .. n, i < j
               PROVE  /\ From(i) + size <= From(j)
                      /\ From(i) \in Int /\ From(j) \in Int
    OBVIOUS
  <2>1. /\ (i - 1) * size + size <= (j - 1) * size
        /\ (i - 1) * size \in Nat /\ (j - 1) * size \in Nat
    BY <1>2, Multiples
  <2> QED
    BY <1>2, <2>1
<1>4. \A i \in 1 .. n : From(i) \in Int /\ r.start <= From(i)
  <2> SUFFICES ASSUME NEW i \in 1 .. n PROVE From(i) \in Int /\ r.start <= From(i)
    OBVIOUS
  <2>1. (i - 1) * size \in Nat
    BY <1>2
  <2> QED
    BY <2>1
<1>5. From(n) + size <= r.end + 1
  <2>1. (n - 1) * size + size = n * size
    BY <1>2
  <2>2. (n - 1) * size \in Nat
    BY <1>2
  <2> QED
    BY <1>1, <1>2, <2>1, <2>2
<1>6. \A i \in 1 .. n : From(i) + size <= r.end + 1
  <2> SUFFICES ASSUME NEW i \in 1 .. n PROVE From(i) + size <= r.end + 1
    OBVIOUS
  <2>1. CASE i = n
    BY <1>5, <2>1
  <2>2. CASE i # n
    <3>1. n \in 1 .. n /\ i < n
      BY <2>2
    <3>2. From(i) + size <= From(n) /\ From(i) \in Int /\ From(n) \in Int
      BY <1>3, <3>1
    <3> HIDE DEF From
    <3> QED
      BY <1>2, <1>5, <3>2
  <2> QED
    BY <2>1, <2>2
<1>7. SubPeriods(r, n) = blocks
  <2>1. ~(days < n)
    BY <1>1
  <2>2. \A k \in 1 .. n : r.start + (k - 1) * size <= r.end
    <3> SUFFICES ASSUME NEW k \in 1 .. n PROVE r.start + (k - 1) * size <= r.end
      OBVIOUS
    <3>1. From(k) + size <= r.end + 1 /\ From(k) \in Int
      BY <1>4, <1>6
    <3>2. From(k) <= r.end
      <4> HIDE DEF From
      <4> QED
        BY <1>2, <3>1
    <3> QED
      BY <3>2
  <2> QED
    BY <2>1, <2>2 DEF SubPeriods, size, days
<1>8. \A i \in 1 .. n : To(i) \in Int /\ From(i) <= To(i) /\ To(i) <= r.end
  <2> SUFFICES ASSUME NEW i \in 1 .. n
               PROVE  To(i) \in Int /\ From(i) <= To(i) /\ To(i) <= r.end
    OBVIOUS
  <2>1. From(i) \in Int /\ From(i) + size <= r.end + 1
    BY <1>4, <1>6
  <2>2. CASE i = n
    <3> HIDE DEF From
    <3> QED
      BY <1>2, <2>1, <2>2
  <2>3. CASE i # n
    <3>1. i + 1 \in 1 .. n /\ i < i + 1
      BY <2>3
    <3>2. /\ From(i) + size <= From(i + 1) /\ From(i + 1) \in Int
          /\ From(i + 1) + size <= r.end + 1
      BY <1>3, <1>6, <3>1
    <3>3. To(i) = From(i + 1) - 1
      BY <2>3
    <3> HIDE DEF From, To
    <3> QED
      BY <1>2, <2>1, <3>2, <3>3
  <2> QED
    BY <2>2, <2>3
\* An earlier block ends before a later one begins.
<1>9. \A i \in 1 .. n, j \in 1 .. n : i < j => To(i) < From(j)
  <2> SUFFICES ASSUME NEW i \in 1 .. n, NEW j \in 1 .. n, i < j
               PROVE  To(i) < From(j)
    OBVIOUS
  <2>1. i + 1 \in 1 .. n /\ i # n
    OBVIOUS
  <2>2. To(i) = From(i + 1) - 1
    BY <2>1
  <2> HIDE DEF From, To
  <2>3. From(i + 1) \in Int /\ From(j) \in Int
    BY <1>4, <2>1
  <2>4. CASE j = i + 1
    BY <2>2, <2>3, <2>4
  <2>5. CASE j # i + 1
    <3>1. i + 1 < j
      BY <2>1, <2>5
    <3>2. From(i + 1) + size <= From(j)
      BY <1>3, <2>1, <3>1
    <3> QED
      BY <1>2, <2>2, <2>3, <3>2
  <2> QED
    BY <2>4, <2>5
<1>10. \A d \in r.start .. r.end : \E i \in 1 .. n : From(i) <= d /\ d <= To(i)
  <2> SUFFICES ASSUME NEW d \in r.start .. r.end
               PROVE  \E i \in 1 .. n : From(i) <= d /\ d <= To(i)
    OBVIOUS
  <2>1. CASE From(n) <= d
    <3>1. n \in 1 .. n /\ To(n) = r.end
      OBVIOUS
    <3> HIDE DEF From, To
    <3> QED
      BY <2>1, <3>1
  <2>2. CASE ~(From(n) <= d)
    <3> DEFINE x == d - r.start
               q == x \div size
    <3>1. x \in Nat /\ d = r.start + x
      OBVIOUS
    <3> HIDE DEF x
    <3>2. q \in Nat /\ q * size <= x /\ x < q * size + size /\ q * size \in Nat
      BY <1>2, <3>1
    <3> HIDE DEF q
    <3>3. q < n - 1
      <4> SUFFICES ASSUME ~(q < n - 1) PROVE FALSE
        OBVIOUS
      <4>1. (n - 1) * size <= q * size /\ (n - 1) * size \in Nat
        <5>1. CASE q = n - 1
          BY <1>2, <5>1
        <5>2. CASE q # n - 1
          <6>1. n - 1 \in Nat /\ n - 1 < q
            BY <3>2, <5>2
          <6> QED
            BY <1>2, <3>2, <6>1, Multiples
        <5> QED
          BY <5>1, <5>2
      <4> QED
        BY <2>2, <3>1, <3>2, <4>1
    <3>4. q + 1 \in 1 .. n /\ q + 1 # n
      BY <3>2, <3>3
    <3>5. /\ From(q + 1) = r.start + q * size
          /\ To(q + 1) = r.start + (q * size + size) - 1
      <4>1. (q + 1) - 1 = q /\ (q + 2) - 1 = q + 1 /\ (q + 1) + 1 = q + 2
        BY <3>2
      <4>2. (q + 1) * size = q * size + size
        BY <1>2, <3>2
      <4> QED
        BY <1>2, <3>2, <3>4, <4>1, <4>2
    <3>6. From(q + 1) <= d /\ d <= To(q + 1)
      <4> HIDE DEF From, To
      <4> QED
        BY <1>2, <3>1, <3>2, <3>5
    <3> HIDE DEF From, To
    <3> QED
      BY <3>4, <3>6
  <2> QED
    BY <2>1, <2>2
<1> HIDE DEF From, To
<1>11. \A i \in 1 .. n, j \in 1 .. n, d \in Int :
         /\ From(i) <= d /\ d <= To(i)
         /\ From(j) <= d /\ d <= To(j)
         => i = j
  BY <1>4, <1>8, <1>9
<1>12. Cardinality(blocks) = n
  <2> DEFINE f == [i \in 1 .. n |-> Block(i)]
  <2>1. f \in Bijection(1 .. n, blocks)
    <3>1. \A i \in 1 .. n, j \in 1 .. n : f[i] = f[j] => i = j
      <4> SUFFICES ASSUME NEW i \in 1 .. n, NEW j \in 1 .. n, f[i] = f[j]
                   PROVE  i = j
        OBVIOUS
      <4>1. From(i) = From(j) /\ To(i) = To(j)
        OBVIOUS
      <4> QED
        BY <1>4, <1>8, <1>9, <4>1
    <3>2. f \in [1 .. n -> blocks] /\ \A b \in blocks : \E i \in 1 .. n : f[i] = b
      OBVIOUS
    <3> QED
      BY <3>1, <3>2 DEF Bijection, Injection, Surjection, IsInjective
  <2>2. ExistsBijection(1 .. n, blocks)
    BY <2>1 DEF ExistsBijection
  <2>3. IsFiniteSet(1 .. n) /\ Cardinality(1 .. n) = n
    BY FS_Interval
  <2> HIDE DEF blocks
  <2> QED
    BY <2>2, <2>3, FS_Bijection
<1>13. \A b \in blocks : r.start <= b.from /\ b.to <= r.end
  BY <1>4, <1>8
<1>14. \A d \in r.start .. r.end :
         \E b \in blocks :
           /\ b.from <= d /\ d <= b.to
           /\ \A c \in blocks : c.from <= d /\ d <= c.to => c = b
  <2> SUFFICES ASSUME NEW d \in r.start .. r.end
               PROVE  \E b \in blocks :
                        /\ b.from <= d /\ d <= b.to
                        /\ \A c \in blocks : c.from <= d /\ d <= c.to => c = b
    OBVIOUS
  <2>1. PICK i \in 1 .. n : From(i) <= d /\ d <= To(i)
    BY <1>10
  <2>2. Block(i) \in blocks /\ Block(i).from <= d /\ d <= Block(i).to
    BY <2>1
  <2>3. ASSUME NEW c \in blocks, c.from <= d, d <= c.to PROVE c = Block(i)
    <3>1. PICK j \in 1 .. n : c = Block(j)
      BY <2>3
    <3>2. From(j) <= d /\ d <= To(j) /\ d \in Int
      BY <2>3, <3>1
    <3>3. j = i
      BY <1>11, <2>1, <3>2
    <3> QED
      BY <3>1, <3>3
  <2> QED
    BY <2>2, <2>3
<1> HIDE DEF blocks
<1> QED
  BY <1>7, <1>12, <1>13, <1>14

(***************************************************************************)
(* The blocks of the biweekly and the weekly view cover each day of the    *)
(* active period once and are as many as the view asks for, on every       *)
(* calendar and for the shortest bridge too.                               *)
(***************************************************************************)
THEOREM ViewsPartitionCorrect == Spec => []ViewsPartition
<1>1. WalkInv => ViewsPartition
  <2> SUFFICES ASSUME WalkInv, NEW n \in Views
               PROVE  LET blocks == SubPeriods(period, n)
                      IN  /\ \A d \in period.start .. period.end :
                               \E b \in blocks :
                                 /\ b.from <= d /\ d <= b.to
                                 /\ \A c \in blocks :
                                      c.from <= d /\ d <= c.to => c = b
                          /\ \A b \in blocks :
                               period.start <= b.from /\ b.to <= period.end
                          /\ Cardinality(blocks) = n
    BY DEF ViewsPartition
  <2>1. /\ period.start \in Int /\ period.end \in Int
        /\ MinBridgeDays <= InclusiveDays(period.start, period.end)
    BY CalendarNumbers DEF WalkInv, RangeOK, DurationInRange, InclusiveDays
  <2>2. n \in 1 .. MinBridgeDays /\ MinBridgeDays \in Nat
    BY WalkAssumption, CalendarNumbers
  <2>3. n \in Nat \ {0} /\ n <= InclusiveDays(period.start, period.end)
    BY <2>1, <2>2 DEF InclusiveDays
  <2> QED
    BY <2>1, <2>3, SubPeriodsPartition
<1> QED
  BY <1>1, WalkInit, WalkStep, PTL DEF Spec

-----------------------------------------------------------------------------
(* Budgets through a bridge.                                               *)

\* Rounding a quotient to the nearest is off by at most a half.
LEMMA Rounded ==
  ASSUME NEW x \in Nat, NEW y \in Nat \ {0}
  PROVE  LET q == (2 * x + y) \div (2 * y)
         IN  /\ q \in Nat
             /\ 2 * y * q <= 2 * x + y /\ 2 * x - y <= 2 * y * q
<1> DEFINE n == 2 * x + y
           d == 2 * y
           q == n \div d
<1>1. n \in Nat /\ d \in Nat \ {0}
  OBVIOUS
<1>2. n = 2 * x + y /\ d = 2 * y
  OBVIOUS
<1> HIDE DEF n, d
<1>3. q \in Nat /\ d * q <= n /\ n < d * q + d /\ d * q \in Nat
  BY <1>1
<1> HIDE DEF q
<1>4. d * q <= 2 * x + y /\ 2 * x - y <= d * q
  BY <1>2, <1>3
<1> QED
  BY <1>2, <1>3, <1>4 DEF q, n, d

\* What is scaled to a bridge and back, in exact numbers.
LEMMA TwoRoundings ==
  ASSUME NEW a \in Nat, NEW before \in Nat \ {0}, NEW bridge \in Nat \ {0},
         NEW after \in Nat \ {0}, NEW p \in Nat, NEW f \in Nat,
         2 * before * p <= 2 * (a * bridge) + before,
         2 * (a * bridge) - before <= 2 * before * p,
         2 * bridge * f <= 2 * (p * after) + bridge,
         2 * (p * after) - bridge <= 2 * bridge * f
  PROVE  LET error == f * before - a * after
         IN  /\ 2 * bridge * error <= (after + bridge) * before
             /\ -(2 * bridge * error) <= (after + bridge) * before
<1>1. \A x \in Int, y \in Int, k \in Nat : x <= y => x * k <= y * k
  OBVIOUS
<1> DEFINE u == (2 * before * p) * after
           v == 2 * bridge * (a * after)
           w == (2 * bridge * f) * before
<1>2. u <= v + before * after /\ v - before * after <= u
  <2>1. /\ (2 * before * p) * after <= (2 * (a * bridge) + before) * after
        /\ (2 * (a * bridge) - before) * after <= (2 * before * p) * after
    BY <1>1
  <2>2. /\ (2 * (a * bridge) + before) * after = v + before * after
        /\ (2 * (a * bridge) - before) * after = v - before * after
    OBVIOUS
  <2> QED
    BY <2>1, <2>2
<1>3. w <= u + bridge * before /\ u - bridge * before <= w
  <2>1. /\ (2 * bridge * f) * before <= (2 * (p * after) + bridge) * before
        /\ (2 * (p * after) - bridge) * before <= (2 * bridge * f) * before
    BY <1>1
  <2>2. /\ (2 * (p * after) + bridge) * before = u + bridge * before
        /\ (2 * (p * after) - bridge) * before = u - bridge * before
    OBVIOUS
  <2> QED
    BY <2>1, <2>2
<1>4. 2 * bridge * (f * before - a * after) = w - v
  OBVIOUS
<1>5. (after + bridge) * before = before * after + bridge * before
  OBVIOUS
<1>6. /\ u \in Int /\ v \in Int /\ w \in Int
      /\ before * after \in Int /\ bridge * before \in Int
  OBVIOUS
<1> HIDE DEF u, v, w
<1>7. /\ w - v <= before * after + bridge * before
      /\ -(w - v) <= before * after + bridge * before
  BY <1>2, <1>3, <1>6
<1> QED
  BY <1>4, <1>5, <1>7

(***************************************************************************)
(* For any lengths of the periods before and after a bridge, and of the    *)
(* bridge, a carried budget comes out of it with the amount its original   *)
(* scaled to the new length has, up to the two roundings.                  *)
(***************************************************************************)
THEOREM BudgetRestoredCorrect == Spec => BudgetRestored
<1> DEFINE Step ==
     period.transition /\ ~period'.transition =>
       \A before \in MinMonthDays .. MaxMonthDays, a \in BudgetAmounts :
         LET bridge == InclusiveDays(period.start, period.end)
             after  == InclusiveDays(period'.start, period'.end)
             old    == [start |-> period.start - before, end |-> period.start - 1,
                        transition |-> FALSE]
             final  == Prorate(Prorate(a, old, period), period, period')
             error  == final * before - a * after
         IN  /\ 2 * bridge * error <= (after + bridge) * before
             /\ -(2 * bridge * error) <= (after + bridge) * before
<1>1. ASSUME WalkInv, WalkInv', period.transition, ~period'.transition,
             NEW before \in MinMonthDays .. MaxMonthDays, NEW a \in BudgetAmounts
      PROVE  LET bridge == InclusiveDays(period.start, period.end)
                 after  == InclusiveDays(period'.start, period'.end)
                 old    == [start |-> period.start - before,
                            end |-> period.start - 1, transition |-> FALSE]
                 final  == Prorate(Prorate(a, old, period), period, period')
                 error  == final * before - a * after
             IN  /\ 2 * bridge * error <= (after + bridge) * before
                 /\ -(2 * bridge * error) <= (after + bridge) * before
  <2> DEFINE old    == [start |-> period.start - before,
                        end |-> period.start - 1, transition |-> FALSE]
             bridge == InclusiveDays(period.start, period.end)
             after  == InclusiveDays(period'.start, period'.end)
             p      == (2 * (a * bridge) + before) \div (2 * before)
             f      == (2 * (p * after) + bridge) \div (2 * bridge)
  <2>1. before \in Nat \ {0} /\ a \in Nat
    BY WalkAssumption, CalendarNumbers
  <2>2. bridge \in Nat \ {0}
    BY <1>1, CalendarNumbers DEF WalkInv, RangeOK, DurationInRange, InclusiveDays
  <2>3. after \in Nat \ {0}
    BY <1>1, CalendarNumbers DEF WalkInv, RangeOK, DurationInRange, InclusiveDays
  <2>4. InclusiveDays(old.start, old.end) = before /\ old.transition = FALSE
    BY <1>1, <2>1 DEF InclusiveDays, WalkInv, RangeOK
  <2>5. period.transition = TRUE /\ period'.transition = FALSE
    BY <1>1 DEF WalkInv, RangeOK
  <2> HIDE DEF old
  <2>6. Prorate(a, old, period) = p
    <3>1. /\ ~(old.transition = period.transition \/ before < 1)
          /\ 2 * a * bridge = 2 * (a * bridge)
      BY <2>1, <2>2, <2>4, <2>5
    <3> HIDE DEF bridge
    <3> QED
      BY <2>4, <3>1 DEF Prorate, bridge
  <2>7. a * bridge \in Nat
    BY <2>1, <2>2
  <2>8. /\ p \in Nat /\ 2 * before * p <= 2 * (a * bridge) + before
        /\ 2 * (a * bridge) - before <= 2 * before * p
    <3> HIDE DEF bridge
    <3>1. PICK x \in Nat : x = a * bridge
      BY <2>7
    <3> QED
      BY <2>1, <3>1, Rounded
  <2>9. Prorate(p, period, period') = f
    <3>1. ~(period.transition = period'.transition \/ bridge < 1)
      BY <2>2, <2>5
    <3>2. 2 * p * after = 2 * (p * after)
      BY <2>3, <2>8
    <3> HIDE DEF p
    <3> QED
      BY <3>1, <3>2 DEF Prorate
  <2> HIDE DEF p, after, bridge
  <2>10. /\ f \in Nat /\ 2 * bridge * f <= 2 * (p * after) + bridge
         /\ 2 * (p * after) - bridge <= 2 * bridge * f
    <3>1. PICK x \in Nat : x = p * after
      BY <2>3, <2>8
    <3> QED
      BY <2>2, <3>1, Rounded
  <2> HIDE DEF f
  <2>11. /\ 2 * bridge * (f * before - a * after) <= (after + bridge) * before
         /\ -(2 * bridge * (f * before - a * after)) <= (after + bridge) * before
    BY <2>1, <2>2, <2>3, <2>8, <2>10, TwoRoundings
  <2> QED
    BY <2>6, <2>9, <2>11 DEF after, bridge, old
<1>2. WalkInv /\ WalkInv' /\ [Next]_vars => [Step]_vars
  BY <1>1
<1> QED
  BY <1>2, WalkInit, WalkStep, PTL DEF Spec, BudgetRestored
-----------------------------------------------------------------------------
(* Months.                                                                 *)

\* A month's days agree about where it begins and ends.
LEMMA WithinMonth ==
  ASSUME NEW d \in Days, NEW e \in Days,
         FirstOfMonth[d] <= e, e <= EndOfMonth[d]
  PROVE  FirstOfMonth[e] = FirstOfMonth[d] /\ EndOfMonth[e] = EndOfMonth[d]
<1>1. e \in FirstOfMonth[d] .. EndOfMonth[d]
  BY MonthFacts DEF Days
<1> QED BY <1>1, DatesAssumption

\* The 1st of a month is on the calendar and belongs to the month.
LEMMA FirstDay ==
  ASSUME NEW d \in Days
  PROVE  /\ FirstOfMonth[d] \in Days
         /\ FirstOfMonth[FirstOfMonth[d]] = FirstOfMonth[d]
         /\ EndOfMonth[FirstOfMonth[d]] = EndOfMonth[d]
         /\ NextMonth(FirstOfMonth[d]) = NextMonth(d)
<1>1. FirstOfMonth[d] \in Days
  BY DatesAssumption
<1>2. FirstOfMonth[d] <= EndOfMonth[d]
  BY MonthFacts DEF Days
<1>3. /\ FirstOfMonth[FirstOfMonth[d]] = FirstOfMonth[d]
      /\ EndOfMonth[FirstOfMonth[d]] = EndOfMonth[d]
  BY <1>1, <1>2, MonthFacts, WithinMonth
<1> QED BY <1>1, <1>3 DEF NextMonth

\* The month that follows begins where NextMonth says, if it is charted.
LEMMA NextMonthBegins ==
  ASSUME NEW d \in Days, d + MaxMonthDays <= LastDay
  PROVE  /\ NextMonth(d) \in Days
         /\ FirstOfMonth[NextMonth(d)] = NextMonth(d)
         /\ NextMonth(d) <= FirstOfMonth[d] + MaxMonthDays
         /\ NextMonth(d) <= d + MaxMonthDays
<1>1. EndOfMonth[d] + 1 \in Days
  BY MonthFacts DEF Days
<1>2. EndOfMonth[d] + 1 <= FirstOfMonth[d] + MaxMonthDays
  BY MonthFacts
<1> QED BY <1>1, <1>2, MonthFacts DEF NextMonth

\* A set of naturals has an element whose predecessor is not in it.
LEMMA LeastNat ==
  ASSUME NEW B \in SUBSET Nat, B # {}
  PROVE  \E i \in B : i = 0 \/ i - 1 \notin B
<1>1. PICK i \in B : \A j \in B : ~(<<j, i>> \in OpToRel(<, Nat))
  BY NatLessThanWellFounded, WFMin
<1>2. ASSUME i # 0, i - 1 \in B PROVE FALSE
  <2>1. i \in Nat /\ i - 1 \in Nat /\ i - 1 < i
    BY <1>2
  <2>2. <<i - 1, i>> \in OpToRel(<, Nat)
    BY <2>1 DEF OpToRel
  <2> QED BY <1>1, <1>2, <2>2
<1> QED BY <1>2

\* f lists the 1st of d's month and of the k months that follow.
Months(d, k, f) ==
  f = [i \in 0 .. k |->
         IF i = 0 THEN FirstOfMonth[d] ELSE NextMonth(f[i - 1])]

\* The list begins with the month of d.
LEMMA MonthsFirst ==
  ASSUME NEW d, NEW k \in Nat, NEW f, Months(d, k, f)
  PROVE  f[0] = FirstOfMonth[d]
<1>1. 0 \in 0 .. k
  OBVIOUS
<1> QED BY <1>1, Zenon DEF Months

\* Every other entry follows the one before it.
LEMMA MonthsEntry ==
  ASSUME NEW d, NEW k \in Nat, NEW f, Months(d, k, f), NEW i \in 0 .. k, i # 0
  PROVE  f[i] = NextMonth(f[i - 1])
BY Zenon DEF Months

\* There is such a list, however long.
LEMMA MonthsExist ==
  ASSUME NEW d, NEW k \in Nat
  PROVE  \E f : Months(d, k, f)
<1> DEFINE Bad == {j \in Nat : ~\E f : Months(d, j, f)}
<1>1. ASSUME Bad # {} PROVE FALSE
  <2>1. PICK j \in Bad : j = 0 \/ j - 1 \notin Bad
    <3>1. Bad \in SUBSET Nat
      OBVIOUS
    <3> HIDE DEF Bad
    <3> QED BY <1>1, <3>1, LeastNat
  <2>2. CASE j = 0
    <3>1. Months(d, 0, [i \in 0 .. 0 |-> FirstOfMonth[d]])
      BY DEF Months
    <3> QED BY <2>1, <2>2, <3>1
  <2>3. CASE j # 0
    <3>1. j \in Nat /\ j - 1 \in Nat
      BY <2>3
    <3>2. PICK f : Months(d, j - 1, f)
      BY <2>1, <2>3, <3>1
    <3> DEFINE g == [i \in 0 .. j |->
                       IF i = j THEN NextMonth(f[j - 1]) ELSE f[i]]
    <3>3. \A i \in 0 .. j - 1 : g[i] = f[i] /\ i \in 0 .. j
      BY <3>1
    <3>4. ASSUME NEW i \in 0 .. j
          PROVE  g[i] = IF i = 0 THEN FirstOfMonth[d] ELSE NextMonth(g[i - 1])
      <4>1. CASE i = j
        <5>1. g[i] = NextMonth(f[j - 1]) /\ j - 1 \in 0 .. j - 1
          BY <3>1, <4>1
        <5>2. g[j - 1] = f[j - 1]
          BY <3>3, <5>1
        <5> QED BY <2>3, <4>1, <5>1, <5>2
      <4>2. CASE i = 0
        <5>1. 0 \in 0 .. j - 1
          BY <3>1
        <5>2. g[0] = f[0] /\ f[0] = FirstOfMonth[d]
          BY <3>1, <3>2, <3>3, <5>1, MonthsFirst
        <5> QED BY <4>2, <5>2
      <4>3. CASE i # j /\ i # 0
        <5>1. i \in 0 .. j - 1 /\ i - 1 \in 0 .. j - 1
          BY <3>1, <4>3
        <5>2. g[i] = f[i] /\ g[i - 1] = f[i - 1]
          BY <3>3, <5>1
        <5>3. f[i] = NextMonth(f[i - 1])
          BY <3>1, <3>2, <4>3, <5>1, MonthsEntry
        <5> HIDE DEF g
        <5> QED BY <4>3, <5>2, <5>3
      <4> QED BY <4>1, <4>2, <4>3
    <3>5. Months(d, j, g)
      <4>1. g = [i \in 0 .. j |-> g[i]]
        OBVIOUS
      <4> HIDE DEF g
      <4> QED BY <3>4, <4>1, Zenon DEF Months
    <3> QED BY <2>1, <3>5
  <2> QED BY <2>2, <2>3
<1> QED BY <1>1

\* Two lists agree as far as both go.
LEMMA MonthsAgree ==
  ASSUME NEW d, NEW k \in Nat, NEW m \in Nat, k <= m,
         NEW f, Months(d, k, f), NEW g, Months(d, m, g)
  PROVE  \A i \in 0 .. k : f[i] = g[i]
<1> DEFINE Bad == {i \in 0 .. k : f[i] # g[i]}
<1>1. ASSUME Bad # {} PROVE FALSE
  <2>1. PICK i \in Bad : i = 0 \/ i - 1 \notin Bad
    <3>1. Bad \in SUBSET Nat
      OBVIOUS
    <3> HIDE DEF Bad
    <3> QED BY <1>1, <3>1, LeastNat
  <2>2. CASE i = 0
    <3>1. f[0] = FirstOfMonth[d] /\ g[0] = FirstOfMonth[d]
      BY MonthsFirst, Zenon
    <3> QED BY <2>1, <2>2, <3>1
  <2>3. CASE i # 0
    <3>1. i \in 0 .. k /\ i \in 0 .. m /\ i - 1 \in 0 .. k
      BY <2>3
    <3>2. f[i - 1] = g[i - 1]
      BY <2>1, <2>3, <3>1
    <3>3. f[i] = NextMonth(f[i - 1]) /\ g[i] = NextMonth(g[i - 1])
      BY <2>3, <3>1, MonthsEntry
    <3> QED BY <2>1, <3>2, <3>3
  <2> QED BY <2>2, <2>3
<1> QED BY <1>1

\* MonthsAfter is the last entry of the list.
LEMMA MonthsAfterIsLast ==
  ASSUME NEW d, NEW k \in Nat, NEW f, Months(d, k, f)
  PROVE  MonthsAfter(d, k) = f[k]
<1>1. MonthsAfter(d, k) = (CHOOSE g : Months(d, k, g))[k]
  BY Zenon DEF MonthsAfter, Months
<1>2. Months(d, k, CHOOSE g : Months(d, k, g))
  BY MonthsExist, Zenon
<1>3. k \in 0 .. k /\ k <= k
  OBVIOUS
<1>4. \A g : Months(d, k, g) => g[k] = f[k]
  BY <1>3, MonthsAgree
<1> QED BY <1>1, <1>2, <1>4, Zenon

(***************************************************************************)
(* No months after d is the month of d, and a month more is the month that *)
(* follows.                                                                *)
(***************************************************************************)
LEMMA MonthsAfterStep ==
  ASSUME NEW d
  PROVE  /\ MonthsAfter(d, 0) = FirstOfMonth[d]
         /\ \A k \in Nat : MonthsAfter(d, k + 1) = NextMonth(MonthsAfter(d, k))
<1>1. MonthsAfter(d, 0) = FirstOfMonth[d]
  <2>1. PICK f : Months(d, 0, f)
    BY MonthsExist
  <2>2. 0 \in Nat
    OBVIOUS
  <2>3. f[0] = FirstOfMonth[d] /\ MonthsAfter(d, 0) = f[0]
    BY <2>1, <2>2, MonthsFirst, MonthsAfterIsLast
  <2> QED BY <2>3
<1>2. ASSUME NEW k \in Nat
      PROVE  MonthsAfter(d, k + 1) = NextMonth(MonthsAfter(d, k))
  <2>0. k + 1 \in Nat /\ k <= k + 1 /\ k \in 0 .. k
        /\ k + 1 \in 0 .. k + 1 /\ k + 1 # 0 /\ (k + 1) - 1 = k
    OBVIOUS
  <2>1. PICK f : Months(d, k, f)
    BY MonthsExist
  <2>2. PICK g : Months(d, k + 1, g)
    BY <2>0, MonthsExist
  <2>3. g[k + 1] = NextMonth(g[k])
    <3>1. g[k + 1] = NextMonth(g[(k + 1) - 1])
      BY <2>0, <2>2, MonthsEntry
    <3> QED BY <2>0, <3>1
  <2>4. f[k] = g[k]
    BY <2>0, <2>1, <2>2, MonthsAgree
  <2>5. MonthsAfter(d, k) = f[k] /\ MonthsAfter(d, k + 1) = g[k + 1]
    BY <2>0, <2>1, <2>2, MonthsAfterIsLast
  <2> QED BY <2>3, <2>4, <2>5
<1> QED BY <1>1, <1>2

(***************************************************************************)
(* A year after e's month is the twelfth after it on the list of d, if     *)
(* e's month is on that list, and it is charted.                           *)
(***************************************************************************)
LEMMA TwelveMonths ==
  ASSUME NEW d, NEW k \in Nat, NEW e \in Days, e + 13 * MaxMonthDays <= LastDay,
         MonthsAfter(d, k) = FirstOfMonth[e]
  PROVE  /\ MonthsAfter(d, k + 12) = MonthsAfter(e, 12)
         /\ MonthsAfter(e, 12) \in Days
         /\ FirstOfMonth[MonthsAfter(e, 12)] = MonthsAfter(e, 12)
         /\ MonthsAfter(e, 12) + MaxMonthDays <= LastDay
<1> DEFINE m(j) == MonthsAfter(e, j)
           Good(j) == /\ MonthsAfter(d, k + j) = m(j)
                      /\ m(j) \in Days /\ FirstOfMonth[m(j)] = m(j)
                      /\ m(j) <= e + j * MaxMonthDays
           Bad == {j \in 0 .. 12 : ~Good(j)}
<1>1. ASSUME Bad # {} PROVE FALSE
  <2>1. PICK j \in Bad : j = 0 \/ j - 1 \notin Bad
    <3>1. Bad \in SUBSET Nat
      OBVIOUS
    <3> HIDE DEF Bad
    <3> QED BY <1>1, <3>1, LeastNat
  <2>2. CASE j = 0
    <3>1. m(0) = FirstOfMonth[e]
      BY MonthsAfterStep
    <3>2. /\ FirstOfMonth[e] \in Days
          /\ FirstOfMonth[FirstOfMonth[e]] = FirstOfMonth[e]
      BY FirstDay
    <3>3. FirstOfMonth[e] <= e + 0 * MaxMonthDays
      BY MonthFacts
    <3>4. k + 0 = k
      OBVIOUS
    <3>5. Good(0)
      <4> HIDE DEF m
      <4> QED BY <3>1, <3>2, <3>3, <3>4
    <3> QED BY <2>1, <2>2, <3>5
  <2>3. CASE j # 0
    <3>1. j \in 1 .. 12 /\ j - 1 \in 0 .. 12 /\ j - 1 \in Nat /\ (j - 1) + 1 = j
          /\ k + (j - 1) \in Nat /\ (k + (j - 1)) + 1 = k + j
      BY <2>3
    <3>2. Good(j - 1)
      BY <2>1, <2>3, <3>1
    <3>3. m(j) = NextMonth(m(j - 1))
      <4>1. m((j - 1) + 1) = NextMonth(m(j - 1))
        BY <3>1, MonthsAfterStep
      <4> QED BY <3>1, <4>1
    <3>4. MonthsAfter(d, k + j) = NextMonth(MonthsAfter(d, k + (j - 1)))
      <4>1. MonthsAfter(d, (k + (j - 1)) + 1) =
              NextMonth(MonthsAfter(d, k + (j - 1)))
        BY <3>1, MonthsAfterStep
      <4> QED BY <3>1, <4>1
    <3>5. m(j - 1) + MaxMonthDays <= e + j * MaxMonthDays
          /\ j * MaxMonthDays <= 12 * MaxMonthDays
      <4>1. MaxMonthDays \in Nat /\ e \in Int /\ m(j - 1) \in Int
        BY <3>2, MonthFacts DEF Days
      <4>2. (j - 1) * MaxMonthDays + MaxMonthDays = j * MaxMonthDays
        BY <3>1, <4>1
      <4>3. j * MaxMonthDays + (12 - j) * MaxMonthDays = 12 * MaxMonthDays
        BY <3>1, <4>1
      <4>4. (12 - j) * MaxMonthDays \in Nat /\ j * MaxMonthDays \in Nat
            /\ (j - 1) * MaxMonthDays \in Nat
        BY <3>1, <4>1
      <4> HIDE DEF m
      <4> QED BY <3>2, <4>1, <4>2, <4>3, <4>4
    <3>6. m(j - 1) + MaxMonthDays <= LastDay
      <4>1. MaxMonthDays \in Nat /\ LastDay \in Nat /\ e \in Int
            /\ m(j - 1) \in Int /\ j * MaxMonthDays \in Int
        BY <3>1, <3>2, MonthFacts DEF Days
      <4> HIDE DEF m
      <4> QED BY <3>5, <4>1
    <3>7. /\ m(j) \in Days /\ FirstOfMonth[m(j)] = m(j)
          /\ m(j) <= m(j - 1) + MaxMonthDays
      <4> HIDE DEF m
      <4> QED BY <3>2, <3>3, <3>6, NextMonthBegins
    <3>8. m(j) <= e + j * MaxMonthDays
      <4>1. MaxMonthDays \in Nat /\ e \in Int /\ m(j) \in Int
            /\ m(j - 1) \in Int /\ j * MaxMonthDays \in Int
        BY <3>1, <3>2, <3>7, MonthFacts DEF Days
      <4> HIDE DEF m
      <4> QED BY <3>5, <3>7, <4>1
    <3>9. MonthsAfter(d, k + j) = m(j)
      BY <3>2, <3>3, <3>4
    <3> QED BY <2>1, <3>7, <3>8, <3>9
  <2> QED BY <2>2, <2>3
<1>2. Good(12)
  BY <1>1
<1>3. m(12) + MaxMonthDays <= LastDay
  <2>1. MaxMonthDays \in Nat /\ LastDay \in Nat /\ e \in Int /\ m(12) \in Int
    BY <1>2, MonthFacts DEF Days
  <2> HIDE DEF m
  <2> QED BY <1>2, <2>1
<1> QED BY <1>2, <1>3

\* A clamped day stays in the month.
LEMMA ClampedStays ==
  ASSUME NEW m \in Days, FirstOfMonth[m] = m, m + MaxMonthDays <= LastDay,
         NEW day \in Nat \ {0}
  PROVE  /\ Clamped(m, day) \in Days
         /\ FirstOfMonth[Clamped(m, day)] = m
         /\ NextMonth(Clamped(m, day)) = NextMonth(m)
<1>1. /\ Clamped(m, day) \in Int
      /\ m <= Clamped(m, day) /\ Clamped(m, day) <= EndOfMonth[m]
  BY MonthFacts DEF Clamped, InclusiveDays, DayOfMonth
<1>2. Clamped(m, day) \in Days
  BY <1>1, MonthFacts DEF Days
<1> QED BY <1>1, <1>2, WithinMonth DEF NextMonth

-----------------------------------------------------------------------------
(* Templates.                                                              *)

\* What a schedule's hint or interval may be.
LEMMA ScheduleFacts ==
  ASSUME NEW sch \in Schedules
  PROVE  /\ sch.frequency \in {"daily", "weekly", "biweekly", "monthly",
                               "yearly", "custom"}
         /\ sch.frequency \in {"daily", "yearly"} => sch.hint = None
         /\ sch.frequency \in {"weekly", "biweekly"} /\ sch.hint # None =>
              sch.hint \in 0 .. 6
         /\ sch.frequency = "monthly" /\ sch.hint # None =>
              sch.hint \in 1 .. MaxMonthDays
         /\ sch.frequency = "custom" => sch.hint \in Nat \ {0}
BY DatesAssumption DEF Schedules

(***************************************************************************)
(* The occurrence of a template counted in months is on the calendar, and  *)
(* that of a monthly one, with a day or without, in its own month.         *)
(***************************************************************************)
DatesInv ==
  /\ schedule \in Schedules
  /\ first \in Int /\ due \in Int /\ count \in Nat
  /\ schedule.frequency \in {"monthly", "yearly"} => due \in Days
  /\ schedule.frequency = "monthly" =>
       FirstOfMonth[due] = MonthsAfter(first, count)
  /\ NoDrift

\* The first due date is a date, and on the calendar if months are counted.
LEMMA FirstDue ==
  ASSUME NEW s \in StartDates, NEW sch \in Schedules
  PROVE  /\ ComputeNextDueDate(s, sch) \in Int
         /\ sch.frequency \in {"monthly", "yearly"} =>
              ComputeNextDueDate(s, sch) \in Days
<1>1. s \in Days /\ s + 13 * MaxMonthDays <= LastDay
  BY DatesAssumption, CalendarNumbers DEF Days
<1>2. CASE sch.hint = None
  BY <1>1, <1>2, MonthFacts DEF ComputeNextDueDate
<1>3. CASE sch.hint # None /\ sch.frequency \in {"weekly", "biweekly"}
  <2>1. sch.hint \in 0 .. 6 /\ s \in Int /\ Day0 \in Int
    BY <1>1, <1>3, ScheduleFacts, MonthFacts, DatesAssumption
  <2>2. Weekday(s) \in Int
    BY <2>1 DEF Weekday
  <2>3. ((sch.hint - Weekday(s)) % 7) \in Int
    BY <2>1, <2>2
  <2>4. ComputeNextDueDate(s, sch) = s + ((sch.hint - Weekday(s)) % 7)
    BY <1>3 DEF ComputeNextDueDate
  <2> QED BY <1>3, <2>1, <2>3, <2>4
<1>4. CASE sch.hint # None /\ sch.frequency = "monthly"
  <2>1. sch.hint \in 1 .. MaxMonthDays
    BY <1>4, ScheduleFacts
  <2>2. /\ NextMonth(s) \in Days /\ FirstOfMonth[NextMonth(s)] = NextMonth(s)
        /\ NextMonth(s) <= s + MaxMonthDays
    BY <1>1, MonthFacts, NextMonthBegins
  <2>3. DayOfMonth(NextMonth(s), sch.hint) = NextMonth(s) + sch.hint - 1
    BY <2>2 DEF DayOfMonth
  <2>4. DayOfMonth(NextMonth(s), sch.hint) \in Days
    BY <1>1, <2>1, <2>2, <2>3, MonthFacts DEF Days
  <2>5. DayOfMonth(s, sch.hint) \in Days \/ DayOfMonth(s, sch.hint) < s
    BY <1>1, <2>1, MonthFacts DEF DayOfMonth, Days
  <2>6. ComputeNextDueDate(s, sch) \in Days
    BY <1>4, <2>4, <2>5 DEF ComputeNextDueDate
  <2> QED BY <2>6 DEF Days
<1>5. CASE sch.hint # None /\ sch.frequency \in {"daily", "yearly", "custom"}
  BY <1>1, <1>5, MonthFacts DEF ComputeNextDueDate
<1> QED BY <1>2, <1>3, <1>4, <1>5, ScheduleFacts

\* The days between the occurrences of a template not counted in months.
StepDays(sch) ==
  CASE sch.frequency = "daily"    -> 1
    [] sch.frequency = "weekly"   -> 7
    [] sch.frequency = "biweekly" -> 14
    [] sch.frequency = "custom"   -> sch.hint

\* What NoDrift says, frequency by frequency.
LEMMA NoDriftCases ==
  ASSUME schedule \in Schedules
  PROVE  /\ schedule.frequency = "monthly" =>
              (NoDrift <=>
                (schedule.hint # None /\ count > 0 =>
                   due = Clamped(MonthsAfter(first, count), schedule.hint)))
         /\ schedule.frequency = "yearly" =>
              (NoDrift <=> FirstOfMonth[due] = MonthsAfter(first, 12 * count))
         /\ schedule.frequency \notin {"monthly", "yearly"} =>
              /\ StepDays(schedule) \in Nat
              /\ NoDrift <=> due = first + count * StepDays(schedule)
<1>1. schedule.frequency = "monthly" =>
        (NoDrift <=>
          (schedule.hint # None /\ count > 0 =>
             due = Clamped(MonthsAfter(first, count), schedule.hint)))
  BY DEF NoDrift
<1>2. schedule.frequency = "yearly" =>
        (NoDrift <=> FirstOfMonth[due] = MonthsAfter(first, 12 * count))
  BY DEF NoDrift
<1>3. schedule.frequency \notin {"monthly", "yearly"} =>
        /\ StepDays(schedule) \in Nat
        /\ NoDrift <=> due = first + count * StepDays(schedule)
  BY ScheduleFacts DEF NoDrift, StepDays
<1> QED BY <1>1, <1>2, <1>3

LEMMA DatesInit == FirstDate => DatesInv
<1> SUFFICES ASSUME FirstDate PROVE DatesInv
  OBVIOUS
<1>1. /\ schedule \in Schedules /\ start \in StartDates
      /\ first = ComputeNextDueDate(start, schedule)
      /\ due = first /\ count = 0
  BY DEF FirstDate
<1>2. /\ first \in Int
      /\ schedule.frequency \in {"monthly", "yearly"} => first \in Days
  BY <1>1, FirstDue
<1>3. MonthsAfter(first, 0) = FirstOfMonth[first]
  BY MonthsAfterStep
<1>4. NoDrift
  <2>1. CASE schedule.frequency = "monthly"
    BY <1>1, <2>1, NoDriftCases
  <2>2. CASE schedule.frequency = "yearly"
    <3>1. 12 * count = 0
      BY <1>1
    <3> QED BY <1>1, <1>3, <2>2, <3>1, NoDriftCases
  <2>3. CASE schedule.frequency \notin {"monthly", "yearly"}
    BY <1>1, <1>2, <2>3, NoDriftCases
  <2> QED BY <2>1, <2>2, <2>3
<1> QED BY <1>1, <1>2, <1>3, <1>4 DEF DatesInv

\* Where a template counted in months goes from an occurrence that advances.
LEMMA MonthlyAdvance ==
  ASSUME DatesInv, due <= LastAdvance, schedule.frequency = "monthly"
  PROVE  LET next == AdvanceByFrequency(due, schedule)
             m    == MonthsAfter(first, count + 1)
         IN  /\ next \in Days /\ FirstOfMonth[next] = m /\ m = NextMonth(due)
             /\ schedule.hint # None => next = Clamped(m, schedule.hint)
<1> DEFINE m   == NextMonth(due)
           day == IF schedule.hint = None THEN DayNumber(due) ELSE schedule.hint
<1>1. due \in Days /\ due + 13 * MaxMonthDays <= LastDay
  BY DatesAssumption, CalendarNumbers DEF DatesInv, Days
<1>2. /\ m \in Days /\ FirstOfMonth[m] = m /\ m <= due + MaxMonthDays
  BY <1>1, MonthFacts, NextMonthBegins
<1>3. m + MaxMonthDays <= LastDay
  <2>1. m \in Int
    BY <1>2 DEF Days
  <2> HIDE DEF m
  <2> QED BY <1>1, <1>2, <2>1, MonthFacts
<1>4. day \in Nat \ {0}
  <2>1. DayNumber(due) \in Nat \ {0}
    BY <1>1, MonthFacts DEF DayNumber, InclusiveDays
  <2>2. schedule.hint # None => schedule.hint \in Nat \ {0}
    BY ScheduleFacts DEF DatesInv
  <2> QED BY <2>1, <2>2
<1>5. MonthsAfter(first, count + 1) = m
  <2>1. NextMonth(FirstOfMonth[due]) = NextMonth(due)
    BY <1>1, FirstDay
  <2>2. MonthsAfter(first, count + 1) = NextMonth(MonthsAfter(first, count))
    BY MonthsAfterStep DEF DatesInv
  <2> QED BY <2>1, <2>2 DEF DatesInv
<1>6. AdvanceByFrequency(due, schedule) = Clamped(m, day)
  BY DEF AdvanceByFrequency, AddMonthClamped
<1>7. Clamped(m, day) \in Days /\ FirstOfMonth[Clamped(m, day)] = m
  <2> HIDE DEF m, day
  <2> QED BY <1>2, <1>3, <1>4, ClampedStays
<1> QED BY <1>5, <1>6, <1>7

\* A yearly template goes to the same month of the next year.
LEMMA YearlyAdvance ==
  ASSUME DatesInv, due <= LastAdvance, schedule.frequency = "yearly"
  PROVE  LET next == AdvanceByFrequency(due, schedule)
         IN  /\ next \in Days
             /\ FirstOfMonth[next] = MonthsAfter(first, 12 * (count + 1))
<1> DEFINE m == MonthsAfter(due, 12)
<1>1. due \in Days /\ due + 13 * MaxMonthDays <= LastDay
  BY DatesAssumption, CalendarNumbers DEF DatesInv, Days
<1>2. 12 * count \in Nat /\ 12 * (count + 1) = 12 * count + 12
  BY DEF DatesInv
<1>3. MonthsAfter(first, 12 * count) = FirstOfMonth[due]
  BY NoDriftCases DEF DatesInv
<1>4. /\ MonthsAfter(first, 12 * count + 12) = m
      /\ m \in Days /\ FirstOfMonth[m] = m /\ m + MaxMonthDays <= LastDay
  BY <1>1, <1>2, <1>3, TwelveMonths
<1>5. DayNumber(due) \in Nat \ {0}
  BY <1>1, MonthFacts DEF DayNumber, InclusiveDays
<1>6. AdvanceByFrequency(due, schedule) = Clamped(m, DayNumber(due))
  BY DEF AdvanceByFrequency
<1>7. /\ Clamped(m, DayNumber(due)) \in Days
      /\ FirstOfMonth[Clamped(m, DayNumber(due))] = m
  <2> HIDE DEF m
  <2> QED BY <1>4, <1>5, ClampedStays
<1> QED BY <1>2, <1>4, <1>6, <1>7

\* The others go on by the same number of days.
LEMMA DailyAdvance ==
  ASSUME DatesInv, schedule.frequency \notin {"monthly", "yearly"}
  PROVE  LET next == AdvanceByFrequency(due, schedule)
         IN  /\ next \in Int
             /\ next = first + (count + 1) * StepDays(schedule)
<1>1. StepDays(schedule) \in Nat /\ due = first + count * StepDays(schedule)
  BY NoDriftCases DEF DatesInv
<1>2. AdvanceByFrequency(due, schedule) = due + StepDays(schedule)
  BY ScheduleFacts DEF DatesInv, AdvanceByFrequency, StepDays
<1>3. (count + 1) * StepDays(schedule) =
        count * StepDays(schedule) + StepDays(schedule)
  BY <1>1 DEF DatesInv
<1>4. count * StepDays(schedule) \in Int
  BY <1>1 DEF DatesInv
<1> QED BY <1>1, <1>2, <1>3, <1>4 DEF DatesInv

LEMMA DatesStep == DatesInv /\ [Advance]_dates => DatesInv'
<1> SUFFICES ASSUME DatesInv, [Advance]_dates PROVE DatesInv'
  OBVIOUS
<1>1. CASE Advance
  <2>1. /\ due <= LastAdvance /\ due' = AdvanceByFrequency(due, schedule)
        /\ count' = count + 1 /\ schedule' = schedule /\ first' = first
    BY <1>1 DEF Advance
  <2>2. schedule' \in Schedules /\ first' \in Int /\ count' \in Nat
    BY <2>1 DEF DatesInv
  <2>3. CASE schedule.frequency = "monthly"
    <3>1. /\ due' \in Days /\ FirstOfMonth[due'] = MonthsAfter(first', count')
          /\ schedule.hint # None =>
               due' = Clamped(MonthsAfter(first', count'), schedule.hint)
      BY <2>1, <2>3, MonthlyAdvance
    <3>2. NoDrift'
      BY <2>1, <2>3, <3>1 DEF NoDrift
    <3> QED BY <2>1, <2>2, <2>3, <3>1, <3>2 DEF DatesInv, Days
  <2>4. CASE schedule.frequency = "yearly"
    <3>1. /\ due' \in Days
          /\ FirstOfMonth[due'] = MonthsAfter(first', 12 * count')
      BY <2>1, <2>4, YearlyAdvance
    <3>2. NoDrift'
      BY <2>1, <2>4, <3>1 DEF NoDrift
    <3> QED BY <2>1, <2>2, <2>4, <3>1, <3>2 DEF DatesInv, Days
  <2>5. CASE schedule.frequency \notin {"monthly", "yearly"}
    <3>1. due' \in Int /\ due' = first' + count' * StepDays(schedule)
      BY <2>1, <2>5, DailyAdvance
    <3>2. NoDrift'
      BY <2>1, <2>5, <3>1, ScheduleFacts DEF DatesInv, NoDrift, StepDays
    <3> QED BY <2>1, <2>2, <2>5, <3>1, <3>2 DEF DatesInv
  <2> QED BY <2>3, <2>4, <2>5
<1>2. CASE UNCHANGED dates
  BY <1>2 DEF dates, DatesInv, NoDrift
<1> QED BY <1>1, <1>2

(***************************************************************************)
(* The occurrences of a template do not drift, for every calendar, start   *)
(* date, frequency, hint and interval, and any number of advances: the day *)
(* asked for returns after a shorter month (recurring_engine.go:277-301).  *)
(***************************************************************************)
THEOREM NoDriftCorrect == Dates => []NoDrift
<1>1. DatesInv => NoDrift
  BY DEF DatesInv
<1> QED BY <1>1, DatesInit, DatesStep, PTL DEF Dates

(***************************************************************************)
(* No month goes without the occurrence of a monthly template, whatever    *)
(* the lengths of the months (recurring_engine.go:279-281).                *)
(***************************************************************************)
THEOREM EveryMonthCorrect == Dates => EveryMonth
<1> DEFINE Step ==
     schedule.frequency = "monthly" => FirstOfMonth[due'] = NextMonth(due)
<1>1. DatesInv /\ [Advance]_dates => [Step]_dates
  BY MonthlyAdvance DEF Advance
<1> QED BY <1>1, DatesInit, DatesStep, PTL DEF Dates, EveryMonth

-----------------------------------------------------------------------------
(* The first due date.                                                     *)

\* Months do not overlap.
LEMMA LaterMonth ==
  ASSUME NEW s \in Days, NEW d \in Days, EndOfMonth[s] < d
  PROVE  EndOfMonth[s] < FirstOfMonth[d]
<1> SUFFICES ASSUME FirstOfMonth[d] <= EndOfMonth[s] PROVE FALSE
  BY MonthFacts
<1>1. EndOfMonth[s] \in Days
  BY MonthFacts DEF Days
<1>2. PICK e \in Days : e = EndOfMonth[s]
  BY <1>1
<1>3. EndOfMonth[e] = EndOfMonth[s]
  BY <1>2, MonthFacts, WithinMonth
<1>4. EndOfMonth[e] = EndOfMonth[d]
  BY <1>2, MonthFacts, WithinMonth
<1> QED BY <1>3, <1>4, MonthFacts

\* The day asked for is not met before the month it is asked for in.
LEMMA NotEarlier ==
  ASSUME NEW s \in Days, NEW d \in Days, NEW h \in Nat \ {0}, s <= d,
         DayOfMonth(s, h) < s \/ d < DayOfMonth(s, h),
         d < DayOfMonth(NextMonth(s), h),
         FirstOfMonth[NextMonth(s)] = NextMonth(s)
  PROVE  d # DayOfMonth(d, h)
<1>1. CASE d <= EndOfMonth[s]
  <2>1. FirstOfMonth[d] = FirstOfMonth[s]
    BY <1>1, MonthFacts, WithinMonth
  <2> QED BY <2>1, MonthFacts DEF DayOfMonth
<1>2. CASE EndOfMonth[s] < d
  <2>1. EndOfMonth[s] < FirstOfMonth[d]
    BY <1>2, LaterMonth
  <2> QED BY <2>1, MonthFacts DEF DayOfMonth, NextMonth
<1>3. d \in Int /\ EndOfMonth[s] \in Int
  BY MonthFacts
<1> QED BY <1>1, <1>2, <1>3

\* A day of the month is where it is asked for, or runs over.
LEMMA OnDayOrOver ==
  ASSUME NEW m \in Days, NEW h \in Nat \ {0}, DayOfMonth(m, h) \in Days
  PROVE  \/ DayOfMonth(m, h) = DayOfMonth(DayOfMonth(m, h), h)
         \/ /\ h > InclusiveDays(FirstOfMonth[m], EndOfMonth[m])
            /\ DayOfMonth(m, h) - EndOfMonth[m] =
                 h - InclusiveDays(FirstOfMonth[m], EndOfMonth[m])
<1>1. CASE DayOfMonth(m, h) <= EndOfMonth[m]
  <2>1. FirstOfMonth[DayOfMonth(m, h)] = FirstOfMonth[m]
    <3>1. FirstOfMonth[m] <= DayOfMonth(m, h)
      BY MonthFacts DEF DayOfMonth
    <3> QED BY <1>1, <3>1, WithinMonth
  <2> QED BY <2>1 DEF DayOfMonth
<1>2. CASE ~(DayOfMonth(m, h) <= EndOfMonth[m])
  BY <1>2, MonthFacts DEF DayOfMonth, InclusiveDays
<1> QED BY <1>1, <1>2

LEMMA MonthlyStart ==
  ASSUME schedule \in Schedules, start \in StartDates,
         first = ComputeNextDueDate(start, schedule),
         schedule.frequency = "monthly", schedule.hint # None
  PROVE  StartsOnHint
<1>1. PICK h \in Nat \ {0} : h = schedule.hint /\ h <= MaxMonthDays
  BY ScheduleFacts, CalendarNumbers
<1>2. start \in Days /\ start + 13 * MaxMonthDays <= LastDay
  BY DatesAssumption, CalendarNumbers DEF Days
<1>3. PICK n \in Days :
        /\ n = NextMonth(start) /\ n = EndOfMonth[start] + 1
        /\ FirstOfMonth[n] = n
  BY <1>2, MonthFacts, NextMonthBegins DEF NextMonth
<1>4. first \in Days
  BY FirstDue
<1>5. /\ DayOfMonth(start, h) < start => first = DayOfMonth(n, h)
      /\ ~(DayOfMonth(start, h) < start) => first = DayOfMonth(start, h)
  BY <1>1, <1>3 DEF ComputeNextDueDate
<1>6. DayOfMonth(start, h) <= DayOfMonth(n, h) /\ start <= n
  BY <1>2, <1>3, MonthFacts DEF DayOfMonth
<1>7. DayOfMonth(start, h) \in Int /\ DayOfMonth(n, h) \in Int
      /\ n <= DayOfMonth(n, h)
  BY <1>2, <1>3, MonthFacts DEF DayOfMonth
<1>8. start <= first /\ first <= DayOfMonth(n, h)
  BY <1>2, <1>3, <1>5, <1>6, <1>7, MonthFacts
<1>9. ASSUME NEW d \in start .. first - 1 PROVE ~OnHint(d)
  <2>1. d \in Days /\ start <= d /\ d < first
    BY <1>2, <1>4, <1>9, MonthFacts DEF Days
  <2>2. DayOfMonth(start, h) < start \/ d < DayOfMonth(start, h)
    BY <1>5, <2>1
  <2>3. d < DayOfMonth(n, h)
    BY <1>4, <1>7, <1>8, <2>1 DEF Days
  <2>4. d # DayOfMonth(d, h)
    BY <1>2, <1>3, <2>1, <2>2, <2>3, NotEarlier
  <2> QED BY <1>1, <2>4 DEF OnHint
<1>10. PICK m \in {start, n} : first = DayOfMonth(m, h)
  BY <1>5
<1>11. \/ first = DayOfMonth(first, h)
       \/ /\ h > InclusiveDays(FirstOfMonth[m], EndOfMonth[m])
          /\ first - EndOfMonth[m] =
               h - InclusiveDays(FirstOfMonth[m], EndOfMonth[m])
  BY <1>2, <1>4, <1>10, OnDayOrOver
<1>12. OnHint(first) \/ RunsOver(first)
  BY <1>1, <1>3, <1>11 DEF OnHint, RunsOver
<1> QED BY <1>8, <1>9, <1>12 DEF StartsOnHint

LEMMA WeeklyStart ==
  ASSUME schedule \in Schedules, start \in StartDates,
         first = ComputeNextDueDate(start, schedule),
         schedule.frequency \in {"weekly", "biweekly"}, schedule.hint # None
  PROVE  StartsOnHint
<1>1. PICK h \in 0 .. 6, s \in Int, o \in Int :
        h = schedule.hint /\ s = start /\ o = Day0
  BY ScheduleFacts, DatesAssumption
<1>2. first = s + ((h - ((o + s) % 7)) % 7)
  BY <1>1 DEF ComputeNextDueDate, Weekday
<1>3. PICK f \in Int : f = first /\ s <= f /\ f < s + 7 /\ (o + f) % 7 = h
  BY <1>2
<1>4. \A d \in s .. f - 1 : (o + d) % 7 # h
  BY <1>3
<1>5. \A d \in Int : OnHint(d) <=> (o + d) % 7 = h
  BY <1>1 DEF OnHint, Weekday
<1> QED BY <1>1, <1>3, <1>4, <1>5 DEF StartsOnHint

(***************************************************************************)
(* For every calendar, start date, frequency and hint, the first due date  *)
(* is the first day from the start on that fits the hint, or the overflow  *)
(* of a month that has no such day (recurring_transaction.go:302-343).     *)
(***************************************************************************)
THEOREM StartsOnHintCorrect == Dates => []StartsOnHint
<1> DEFINE Given ==
     /\ schedule \in Schedules /\ start \in StartDates
     /\ first = ComputeNextDueDate(start, schedule)
<1>1. FirstDate => Given
  BY DEF FirstDate
<1>2. Given /\ [Advance]_dates => Given'
  BY DEF Advance, dates
<1>3. Given => StartsOnHint
  <2> SUFFICES ASSUME Given PROVE StartsOnHint
    OBVIOUS
  <2>1. CASE schedule.hint = None \/ schedule.frequency \in {"daily", "custom"}
    <3>1. first = start /\ start \in Int
      BY <2>1, ScheduleFacts, DatesAssumption DEF ComputeNextDueDate
    <3>2. OnHint(first)
      BY <2>1, ScheduleFacts DEF OnHint
    <3> QED BY <3>1, <3>2 DEF StartsOnHint
  <2> QED BY <2>1, MonthlyStart, WeeklyStart, ScheduleFacts
<1> HIDE DEF Given
<1> QED BY <1>1, <1>2, <1>3, PTL DEF Dates

(***************************************************************************)
(* A template's occurrences are the ones it asks for, from the first one   *)
(* on, for every calendar, start date, frequency, hint and interval and    *)
(* any number of advances (recurring_transaction.go:302-343,               *)
(* recurring_engine.go:277-301).                                           *)
(***************************************************************************)
THEOREM OnScheduleCorrect == Dates => []OnSchedule
<1>1. StartsOnHint /\ NoDrift => OnSchedule
  BY DEF OnSchedule
<1> QED BY <1>1, StartsOnHintCorrect, NoDriftCorrect, PTL
=============================================================================
