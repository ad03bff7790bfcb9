----------------------- MODULE TrackingPeriodsProofs -----------------------
(***************************************************************************)
(* The chain of periods is sound for any number of clients, any clock and  *)
(* any calendar.  The inductive invariant IInv adds to the properties what *)
(* every request in flight knows of the period it works on.  WInv adds who *)
(* writes which transaction, and EInv what a close has read: from them     *)
(* follows what a closed period's ledger, budgets, insights and summary    *)
(* are worth.                                                              *)
(***************************************************************************)
EXTENDS TrackingPeriods, SequenceTheorems, TLAPS

-----------------------------------------------------------------------------
(* Bounds of the period ranges, for every calendar and every choice of      *)
(* MinMonthDays, MaxMonthDays and MinBridgeDays.                           *)

\* The longest bridge: a stretch too short to stand alone, and a whole month.
MaxBridgeDays == MaxMonthDays + MinBridgeDays - 1

\* Two months after d are still on the calendar.
Charted(d) == d \in Days /\ d + 2 * MaxMonthDays <= LastDay + 1

\* The numbers of the assumption.
LEMMA CalendarNumbers ==
  /\ LastDay \in Nat
  /\ MinBridgeDays \in Nat /\ MinMonthDays \in Nat /\ MaxMonthDays \in Nat
  /\ 1 <= MinBridgeDays
  /\ MinBridgeDays <= MinMonthDays /\ MinMonthDays <= MaxMonthDays
BY CalendarAssumption

\* What the assumption says of one date, with the numbers' types.
LEMMA MonthFacts ==
  ASSUME NEW d \in Days
  PROVE  /\ LastDay \in Nat /\ d \in Int /\ 0 <= d /\ d <= LastDay
         /\ MinBridgeDays \in Nat /\ MinMonthDays \in Nat /\ MaxMonthDays \in Nat
         /\ 1 <= MinBridgeDays
         /\ MinBridgeDays <= MinMonthDays /\ MinMonthDays <= MaxMonthDays
         /\ FirstOfMonth[d] \in Int /\ EndOfMonth[d] \in Int
         /\ FirstOfMonth[d] <= d /\ d <= EndOfMonth[d]
         /\ MinMonthDays <= EndOfMonth[d] - FirstOfMonth[d] + 1
         /\ EndOfMonth[d] - FirstOfMonth[d] + 1 <= MaxMonthDays
         /\ EndOfMonth[d] + 1 \in Days =>
              FirstOfMonth[EndOfMonth[d] + 1] = EndOfMonth[d] + 1
BY CalendarAssumption DEF Days

(***************************************************************************)
(* The floor of minBridgeDays and the ceiling it implies (period.go:28):   *)
(* a bridge has MinBridgeDays .. MaxBridgeDays days.                       *)
(***************************************************************************)
LEMMA BridgeBounds ==
  ASSUME NEW d, Charted(d)
  PROVE  /\ BridgeEnd(d) \in Int
         /\ MinBridgeDays <= InclusiveDays(d, BridgeEnd(d))
         /\ InclusiveDays(d, BridgeEnd(d)) <= MaxBridgeDays
<1> DEFINE e == EndOfMonth[d]
<1>1. d \in Days /\ d + 2 * MaxMonthDays <= LastDay + 1
  BY DEF Charted
<1>2. CASE InclusiveDays(d, e) < MinBridgeDays
  <2>1. e + 1 \in Days
    BY <1>1, <1>2, MonthFacts DEF InclusiveDays, Days
  <2>2. FirstOfMonth[e + 1] = e + 1
    BY <1>1, <2>1, MonthFacts
  <2>3. /\ EndOfMonth[e + 1] \in Int
        /\ MinMonthDays <= EndOfMonth[e + 1] - e
        /\ EndOfMonth[e + 1] - e <= MaxMonthDays
    BY <1>1, <2>1, <2>2, MonthFacts
  <2>4. BridgeEnd(d) = EndOfMonth[e + 1]
    BY <1>2 DEF BridgeEnd
  <2> QED
    BY <1>1, <1>2, <2>3, <2>4, MonthFacts DEF InclusiveDays, MaxBridgeDays
<1>3. CASE ~(InclusiveDays(d, e) < MinBridgeDays)
  <2>1. BridgeEnd(d) = e
    BY <1>3 DEF BridgeEnd
  <2> QED
    BY <1>1, <1>3, <2>1, MonthFacts DEF InclusiveDays, MaxBridgeDays
<1> QED
  BY <1>2, <1>3

(***************************************************************************)
(* A period range starts where it is asked to, and its length satisfies    *)
(* chk_duration_range and, for a bridge, the floor and the ceiling.        *)
(***************************************************************************)
RangeOK(r) ==
  /\ r.start \in Int /\ r.end \in Int /\ r.transition \in BOOLEAN
  /\ DurationInRange(r)
  /\ r.transition =>
       InclusiveDays(r.start, r.end) \in MinBridgeDays .. MaxBridgeDays

LEMMA FirstPeriodRangeOK ==
  ASSUME NEW d, Charted(d), NEW mode \in Modes,
         NEW duration \in MinMonthDays .. MaxMonthDays
  PROVE  /\ FirstPeriodRange(d, mode, duration).start = d
         /\ RangeOK(FirstPeriodRange(d, mode, duration))
         /\ FirstPeriodRange(d, mode, duration).end \in d .. d + 2 * MaxMonthDays - 1
<1> DEFINE r == FirstPeriodRange(d, mode, duration)
<1>0. d \in Days
  BY DEF Charted
<1>1. CASE mode # CalendarMonth
  <2>1. r = [start |-> d, end |-> d + duration - 1, transition |-> FALSE]
    BY <1>1 DEF FirstPeriodRange
  <2>2. /\ d \in Int /\ duration \in Int /\ duration <= MaxMonthDays
        /\ MinMonthDays <= duration /\ 1 <= MinMonthDays
        /\ MinMonthDays \in Int /\ MaxMonthDays \in Int
    BY <1>0, MonthFacts
  <2>3. RangeOK(r)
    BY <2>1, <2>2 DEF RangeOK, DurationInRange, InclusiveDays
  <2>4. r.start = d /\ r.end \in d .. d + 2 * MaxMonthDays - 1
    BY <2>1, <2>2
  <2> QED
    BY <2>3, <2>4
<1>2. CASE mode = CalendarMonth /\ FirstOfMonth[d] = d
  <2>1. r = [start |-> d, end |-> EndOfMonth[d], transition |-> FALSE]
    BY <1>2 DEF FirstPeriodRange
  <2> QED
    BY <1>0, <1>2, <2>1, MonthFacts DEF RangeOK, DurationInRange, InclusiveDays
<1>3. CASE mode = CalendarMonth /\ FirstOfMonth[d] # d
  <2>1. r = [start |-> d, end |-> BridgeEnd(d), transition |-> TRUE]
    BY <1>3 DEF FirstPeriodRange
  <2> QED
    BY <1>0, <2>1, BridgeBounds, MonthFacts
       DEF RangeOK, DurationInRange, InclusiveDays, MaxBridgeDays
<1> QED
  BY <1>1, <1>2, <1>3

-----------------------------------------------------------------------------
(* What the requests in flight know.                                       *)

\* The first period may still be reshaped; it begins when the user registers.
FirstPeriodBounded ==
  /\ periods[1].start \in 0 .. Horizon
  /\ periods[1].end <= periods[1].start + 2 * MaxMonthDays - 1

\* A request that has resolved a period names an existing one, and closes it
\* only if it is over (the first may have been reshaped since).
RequestOK(r) ==
  /\ r \in Requests
  /\ r.day <= Horizon + ServerSkew
  /\ r.pc \notin {"idle", "resolve"} => r.n \in 1 .. Last
  /\ r.pc \in {"close", "totals", "commit"} /\ r.n # 1 =>
       periods[r.n].end < Horizon + ServerSkew
  /\ r.pc = "reshape" => r.n = 1
  /\ r.pc = "written" => r.key \in Txns /\ r.row.n = r.n

\* Transactions belong to existing periods.
TxnsPlaced == \A t \in Txns : txns[t].state # "none" => txns[t].n \in 1 .. Last

IInv ==
  /\ TypeOK
  /\ ChainOK
  /\ CloseExclusive
  /\ \A n \in 1 .. Last : RangeOK(periods[n])
  /\ FirstPeriodBounded
  /\ TxnsPlaced
  /\ \A w \in Workers : RequestOK(request[w])

-----------------------------------------------------------------------------
(* Requests.                                                               *)

LEMMA PeriodsNumbers ==
  /\ Horizon \in Nat /\ ServerSkew \in Nat /\ ServerSkew <= 1
  /\ Horizon + ServerSkew + 4 * MaxMonthDays <= LastDay
  /\ DefaultDuration \in MinMonthDays .. MaxMonthDays
  /\ Scheduler \notin Clients
BY PeriodsAssumption

LEMMA IdleOK == RequestOK(Idle) /\ Idle \in Requests
<1>1. Rolling \in Modes /\ 0 \in Days
  BY CalendarNumbers DEF Modes, Days
<1>2. Idle \in Requests
  BY <1>1, PeriodsNumbers
     DEF Idle, NoRow, Requests, TxnRows, Configs, LedgerRows, DuringRows
<1> QED
  BY <1>2, PeriodsNumbers DEF RequestOK, Idle

(***************************************************************************)
(* A step that leaves periods and summaries alone and after which w, if it *)
(* closes a period, does so alone.                                         *)
(***************************************************************************)
LEMMA RequestStep ==
  ASSUME IInv, NEW w \in Workers, NEW r, RequestOK(r), Goto(w, r),
         UNCHANGED <<periods, summaries>>,
         today' \in 0 .. Horizon, settings' \in Configs,
         txns' \in [Txns -> TxnRows], TxnsPlaced', overlapping' \in SUBSET Txns,
         budgets' \in Seq([Categories -> Nat]), Len(budgets') = Len(budgets),
         insights' \in Seq([during : DuringRows, final : BOOLEAN]),
         Len(insights') = Len(insights),
         \A n \in 1 .. Last : insights'[n].final = insights[n].final,
         r.pc \in {"totals", "commit"} =>
           /\ r.n = Last
           /\ \A v \in Workers : Closing(v) => v = w
  PROVE  IInv'
<1>1. request' \in [Workers -> Requests]
  BY DEF IInv, TypeOK, Goto, RequestOK
<1>2. TypeOK'
  BY <1>1 DEF IInv, TypeOK
<1>3. ChainOK'
  BY DEF IInv, ChainOK, Contiguous, OneActive, Summarized, Last, Active
<1>4. request'[w] = r /\ \A v \in Workers \ {w} : request'[v] = request[v]
  BY DEF IInv, TypeOK, Goto
<1>5. \A v \in Workers : RequestOK(request[v])'
  BY <1>4 DEF IInv, RequestOK, Last
<1>6. CloseExclusive'
  <2> SUFFICES ASSUME NEW v \in Workers, Closing(v)'
               PROVE  /\ request'[v].n = Last /\ Active(Last)
                      /\ \A u \in Workers : Closing(u)' => u = v
    BY DEF CloseExclusive, Last, Active
  <2>1. Active(Last)
    BY LenProperties DEF IInv, TypeOK, ChainOK, OneActive, Last
  <2>2. CASE v = w
    BY <1>4, <2>1, <2>2 DEF Closing
  <2>3. CASE v # w
    <3>1. Closing(v) /\ request'[v] = request[v]
      BY <1>4, <2>3 DEF Closing
    <3>2. request[v].n = Last /\ \A u \in Workers : Closing(u) => u = v
      BY <3>1 DEF IInv, CloseExclusive
    <3>3. ~Closing(w)'
      BY <1>4, <2>3, <3>1 DEF Closing
    <3> QED
      BY <1>4, <2>1, <3>1, <3>2, <3>3 DEF Closing
  <2> QED
    BY <2>2, <2>3
<1> QED
  BY <1>2, <1>3, <1>5, <1>6
     DEF IInv, RangeOK, DurationInRange, FirstPeriodBounded, Last

\* The same when no table is written.
LEMMA ReadStep ==
  ASSUME IInv, NEW w \in Workers, NEW r, RequestOK(r), Goto(w, r),
         UNCHANGED <<today, tables>>,
         r.pc \in {"totals", "commit"} =>
           /\ r.n = Last
           /\ \A v \in Workers : Closing(v) => v = w
  PROVE  IInv'
<1>1. TxnsPlaced'
  BY DEF IInv, tables, TxnsPlaced, Last
<1>2. /\ today' \in 0 .. Horizon /\ settings' \in Configs
      /\ txns' \in [Txns -> TxnRows] /\ overlapping' \in SUBSET Txns
      /\ budgets' \in Seq([Categories -> Nat])
      /\ insights' \in Seq([during : DuringRows, final : BOOLEAN])
      /\ UNCHANGED <<periods, summaries, budgets, insights>>
  BY DEF IInv, TypeOK, tables
<1> QED
  BY <1>1, <1>2, RequestStep

LEMMA FinishStep ==
  ASSUME IInv, NEW w \in Workers, Finish(w), UNCHANGED <<today, tables>>
  PROVE  IInv'
<1>1. Idle.pc \notin {"totals", "commit"}
  BY DEF Idle
<1> QED
  BY <1>1, IdleOK, ReadStep DEF Finish

-----------------------------------------------------------------------------
(* The request of w, as the invariant knows it.                            *)
LEMMA RequestFacts ==
  ASSUME IInv, NEW w \in Workers
  PROVE  /\ RequestOK(request[w]) /\ request[w] \in Requests
         /\ request[w].n \in Nat /\ request[w].day \in Int
         /\ Last \in Nat /\ 1 <= Last /\ today \in Int /\ today <= Horizon
         /\ periods[Last] \in PeriodRows /\ periods[Last].end \in Int
<1>1. Last \in Nat /\ 1 <= Last
  BY LenProperties DEF IInv, TypeOK, Last, ChainOK, OneActive
<1>2. periods[Last] \in PeriodRows
  BY <1>1, ElementOfSeq DEF IInv, TypeOK, Last
<1>3. RequestOK(request[w]) /\ request[w] \in Requests
  BY DEF IInv, TypeOK
<1>4. request[w].n \in Nat /\ request[w].day \in Int
  BY <1>3 DEF Requests
<1>5. today \in Int /\ today <= Horizon
  BY PeriodsNumbers DEF IInv, TypeOK
<1>6. periods[Last].end \in Int
  BY <1>2, CalendarNumbers DEF PeriodRows, Days
<1> QED
  BY <1>1, <1>2, <1>3, <1>4, <1>5, <1>6

LEMMA StartResolveStep ==
  ASSUME IInv, NEW w \in Workers, StartResolve(w) PROVE IInv'
<1>1. PICK op \in AllOps :
        Goto(w, [Idle EXCEPT !.pc = "resolve", !.op = op, !.day = today])
  BY PeriodsAssumption DEF StartResolve
<1> DEFINE r == [Idle EXCEPT !.pc = "resolve", !.op = op, !.day = today]
<1>2. RequestOK(r)
  <2>1. r \in Requests
    BY IdleOK, RequestFacts DEF Requests
  <2>2. r.pc = "resolve" /\ r.day = today
    BY DEF Idle
  <2> HIDE DEF r
  <2> QED
    BY <2>1, <2>2, RequestFacts, PeriodsNumbers DEF RequestOK
<1>3. r.pc \notin {"totals", "commit"}
  BY DEF Idle
<1> HIDE DEF r
<1> QED
  BY <1>1, <1>2, <1>3, ReadStep DEF StartResolve, r

LEMMA ResolveStep ==
  ASSUME IInv, NEW w \in Workers, Resolve(w) PROVE IInv'
<1> DEFINE p == periods[Last]
           r == request[w]
           c == [r EXCEPT !.pc = "close", !.n = Last, !.end = p.end]
           s == [r EXCEPT !.pc = "resolved", !.n = Last, !.end = p.end,
                          !.mode = p.mode]
<1>1. UNCHANGED <<today, tables>>
  BY DEF Resolve
<1>2. CASE p.end < r.day
  <2>1. Goto(w, c)
    BY <1>2 DEF Resolve
  <2>2. RequestOK(c)
    <3>1. c \in Requests
      BY RequestFacts DEF Requests
    <3>2. c.pc = "close" /\ c.n = Last /\ c.day = r.day
      BY RequestFacts DEF Requests
    <3>3. r.day <= Horizon + ServerSkew
      BY RequestFacts DEF RequestOK
    <3> HIDE DEF c
    <3> QED
      BY <1>2, <3>1, <3>2, <3>3, RequestFacts, PeriodsNumbers DEF RequestOK
  <2>3. c.pc \notin {"totals", "commit"}
    BY RequestFacts DEF Requests
  <2> QED
    BY <1>1, <2>1, <2>2, <2>3, ReadStep
<1>3. CASE ~(p.end < r.day) /\ r.op \in {"read", "settings"}
  BY <1>1, <1>3, FinishStep DEF Resolve, Finish
<1>4. CASE ~(p.end < r.day) /\ r.op \notin {"read", "settings"}
  <2>1. Goto(w, s)
    BY <1>4 DEF Resolve
  <2>2. RequestOK(s)
    <3>1. s \in Requests
      BY RequestFacts DEF Requests, PeriodRows
    <3>2. s.pc = "resolved" /\ s.n = Last /\ s.day = r.day
      BY RequestFacts DEF Requests
    <3>3. r.day <= Horizon + ServerSkew
      BY RequestFacts DEF RequestOK
    <3> HIDE DEF s
    <3> QED
      BY <3>1, <3>2, <3>3, RequestFacts, PeriodsNumbers DEF RequestOK
  <2>3. s.pc \notin {"totals", "commit"}
    BY RequestFacts DEF Requests
  <2> QED
    BY <1>1, <2>1, <2>2, <2>3, ReadStep
<1> QED
  BY <1>2, <1>3, <1>4

LEMMA StartCloseStep ==
  ASSUME IInv, StartClose PROVE IInv'
<1> DEFINE w == Scheduler
           r == [Idle EXCEPT !.pc = "close", !.op = "schedule", !.n = Last,
                             !.end = periods[Last].end]
<1>1. w \in Workers
  BY DEF Workers
<1>2. Goto(w, r) /\ UNCHANGED <<today, tables>> /\ periods[Last].end < today
  BY DEF StartClose
<1>3. RequestOK(r)
  <2>1. r \in Requests
    BY <1>1, IdleOK, RequestFacts DEF Requests
  <2>2. r.pc = "close" /\ r.n = Last /\ r.day = 0
    BY DEF Idle
  <2> HIDE DEF w, r
  <2> QED
    BY <1>1, <1>2, <2>1, <2>2, RequestFacts, PeriodsNumbers DEF RequestOK
<1>4. r.pc \notin {"totals", "commit"}
  BY DEF Idle
<1> HIDE DEF w, r
<1> QED
  BY <1>1, <1>2, <1>3, <1>4, ReadStep

-----------------------------------------------------------------------------
(* ClosePeriodTx.                                                          *)

LEMMA ClosePeriodStep ==
  ASSUME IInv, NEW w \in Workers, ClosePeriod(w) PROVE IInv'
<1> DEFINE n == request[w].n
           r == [request[w] EXCEPT !.pc = "totals"]
<1>1. UNCHANGED <<today, tables>> /\ At(w, "close") /\ ~Locked(n)
  BY DEF ClosePeriod
<1>2. CASE ~Active(n)
  BY <1>1, <1>2, FinishStep DEF ClosePeriod
<1>3. CASE Active(n)
  <2>1. Goto(w, r)
    BY <1>3 DEF ClosePeriod
  <2>2. RequestOK(r)
    BY <1>1, RequestFacts DEF RequestOK, Requests, At
  <2>3. n = Last
    BY <1>1, <1>3, RequestFacts DEF IInv, ChainOK, OneActive, RequestOK, At
  <2>4. \A v \in Workers : Closing(v) => v = w
    BY <1>1, <2>3 DEF IInv, CloseExclusive, Locked
  <2>5. r.n = n
    BY RequestFacts DEF Requests
  <2> QED
    BY <1>1, <2>1, <2>2, <2>3, <2>4, <2>5, ReadStep
<1> QED
  BY <1>2, <1>3

LEMMA SummarizeTotalsStep ==
  ASSUME IInv, NEW w \in Workers, SummarizeTotals(w) PROVE IInv'
<1> DEFINE rows == Ledger(request[w].n)
           r    == [request[w] EXCEPT !.pc = "commit", !.rows = rows]
<1>1. UNCHANGED <<today, tables>> /\ At(w, "totals")
  BY DEF SummarizeTotals
<1>2. CASE ~SavingsRateFits(rows)
  BY <1>1, <1>2, FinishStep DEF SummarizeTotals
<1>3. CASE SavingsRateFits(rows)
  <2>1. Goto(w, r)
    BY <1>3 DEF SummarizeTotals
  <2>2. rows \in LedgerRows
    BY DEF IInv, TypeOK, Ledger, LedgerRows, TxnRows
  <2>3. RequestOK(r)
    BY <1>1, <2>2, RequestFacts DEF RequestOK, Requests, At
  <2>4. request[w].n = Last /\ \A v \in Workers : Closing(v) => v = w
    BY <1>1 DEF IInv, CloseExclusive, Closing, At
  <2>5. r.n = request[w].n
    BY RequestFacts DEF Requests
  <2> HIDE DEF r
  <2> QED
    BY <1>1, <2>1, <2>3, <2>4, <2>5, ReadStep
<1> QED
  BY <1>2, <1>3

\* A prorated amount is an amount.
LEMMA ProrateType ==
  ASSUME NEW a \in Nat, NEW from, NEW to, RangeOK(from), RangeOK(to)
  PROVE  Prorate(a, from, to) \in Nat
<1> DEFINE f == InclusiveDays(from.start, from.end)
           t == InclusiveDays(to.start, to.end)
<1>1. f \in Nat \ {0} /\ t \in Nat \ {0}
  BY CalendarNumbers DEF RangeOK, DurationInRange, InclusiveDays
<1>2. Prorate(a, from, to) = IF from.transition = to.transition \/ f < 1 THEN a
                             ELSE (2 * a * t + f) \div (2 * f)
  BY DEF Prorate
<1> HIDE DEF f, t
<1>3. a * t \in Nat
  BY <1>1
<1>4. 2 * a * t + f \in Nat /\ 2 * f \in Nat \ {0}
  BY <1>1, <1>3
<1>5. \A x \in Nat, y \in Nat \ {0} : x \div y \in Nat
  OBVIOUS
<1>6. (2 * a * t + f) \div (2 * f) \in Nat
  BY <1>4, <1>5
<1> QED
  BY <1>2, <1>6

\* Where the period being closed ends, the calendar goes on long enough.
LEMMA ClosingCharted ==
  ASSUME IInv, NEW w \in Workers, At(w, "commit")
  PROVE  /\ request[w].n = Last /\ Active(Last)
         /\ Charted(periods[Last].end + 1)
         /\ periods[Last].end + 2 * MaxMonthDays <= LastDay
<1> DEFINE p == periods[Last]
<1>1. request[w].n = Last /\ Active(Last)
  BY DEF IInv, CloseExclusive, Closing, At
<1>2. RangeOK(p) /\ p.start \in Int /\ p.end \in Int /\ 0 <= p.start
  BY RequestFacts DEF IInv, RangeOK, PeriodRows, Days
<1>3. p.start <= p.end
  BY <1>2, CalendarNumbers DEF RangeOK, DurationInRange, InclusiveDays
<1>4. p.end <= Horizon + 2 * MaxMonthDays - 1 \/ p.end < Horizon + ServerSkew
  <2>1. CASE Last = 1
    BY <1>2, <2>1, PeriodsNumbers, CalendarNumbers DEF IInv, FirstPeriodBounded
  <2>2. CASE Last # 1
    BY <1>1, <2>2, RequestFacts DEF RequestOK, At
  <2> QED
    BY <2>1, <2>2
<1> HIDE DEF p
<1>5. Charted(p.end + 1) /\ p.end + 2 * MaxMonthDays <= LastDay
  BY <1>2, <1>3, <1>4, PeriodsNumbers, CalendarNumbers DEF Charted, Days
<1> QED
  BY <1>1, <1>5 DEF p

(***************************************************************************)
(* What a successful close does: it closes the last period, which keeps    *)
(* its terms, and appends the next one and the summary.                    *)
(***************************************************************************)
CloseOutcome ==
  /\ periods' \in Seq(PeriodRows)
  /\ Last' = Last + 1
  /\ \A i \in 1 .. Last :
       /\ periods'[i].start = periods[i].start
       /\ periods'[i].end = periods[i].end
       /\ periods'[i].transition = periods[i].transition
       /\ periods'[i].mode = periods[i].mode
       /\ periods'[i].status = "closed"
  /\ periods'[Last + 1].start = periods[Last].end + 1
  /\ periods'[Last + 1].status = "active"
  /\ RangeOK(periods'[Last + 1])
  /\ summaries' \in Seq([totals : LedgerRows, breakdown : LedgerRows])
  /\ Len(summaries') = Len(summaries) + 1
  /\ \A i \in 1 .. Len(summaries) : summaries'[i] = summaries[i]
  /\ budgets' \in Seq([Categories -> Nat])
  /\ Len(budgets') = Len(budgets) + 1
  /\ insights' \in Seq([during : DuringRows, final : BOOLEAN])
  /\ Len(insights') = Len(insights) + 1
  /\ \A i \in 1 .. Last : insights'[i].final
  /\ ~insights'[Last + 1].final

LEMMA CommitCloseOutcome ==
  ASSUME IInv, NEW w \in Workers, CommitClose(w)
  PROVE  \/ Finish(w) /\ UNCHANGED <<today, tables>>
         \/ /\ CloseOutcome
            /\ UNCHANGED <<today, settings, txns, overlapping>>
            /\ \E r \in Requests :
                 /\ Goto(w, r)
                 /\ r.pc \in {"idle", "resolve"}
                 /\ r.day <= Horizon + ServerSkew
<1> DEFINE q      == request[w]
           n      == q.n
           closed == [periods[n] EXCEPT !.status = "closed"]
           range  == NextPeriodRange(periods[n].end, settings.mode, settings.duration)
           next   == Successor(n)
           copies == CarriedOver(n)
           resume == [q EXCEPT !.pc = "resolve", !.n = 0, !.end = 0, !.rows = {}]
           ps     == [periods EXCEPT ![n].status = "closed"]
           row    == [totals |-> q.rows, breakdown |-> Ledger(n)]
           final  == [insights EXCEPT ![n] = [during |-> {}, final |-> TRUE]]
           blank  == [during |-> {}, final |-> FALSE]
<1>1. At(w, "commit") /\ UNCHANGED <<today, settings, txns, overlapping>>
  BY DEF CommitClose
<1>2. CASE ~BudgetsFit(n)
  BY <1>1, <1>2 DEF CommitClose, tables
<1>3. CASE BudgetsFit(n)
  <2>1. /\ periods' = Append(ps, next)
        /\ budgets' = Append(budgets, copies)
        /\ summaries' = Append(summaries, row)
        /\ insights' = Append(final, blank)
        /\ IF q.op = "schedule" THEN Finish(w) ELSE Goto(w, resume)
    BY <1>3 DEF CommitClose
  <2>2. /\ n = Last /\ Active(Last) /\ Charted(periods[Last].end + 1)
        /\ periods[Last].end + 2 * MaxMonthDays <= LastDay
    BY <1>1, ClosingCharted
  <2>3. /\ closed \in PeriodRows /\ closed.start = periods[n].start
        /\ closed.end = periods[n].end /\ closed.mode = periods[n].mode
        /\ closed.transition = periods[n].transition /\ closed.status = "closed"
    BY <2>2, RequestFacts DEF PeriodRows
  <2>4. /\ range.start = periods[n].end + 1 /\ RangeOK(range)
        /\ range.end \in Days
    <3>1. settings.mode \in Modes /\ settings.duration \in MinMonthDays .. MaxMonthDays
      BY DEF IInv, TypeOK, Configs
    <3>2. range = FirstPeriodRange(periods[n].end + 1, settings.mode, settings.duration)
      BY <2>3 DEF NextPeriodRange
    <3>3. /\ range.start = periods[n].end + 1 /\ RangeOK(range)
          /\ range.end \in periods[n].end + 1 .. periods[n].end + 1 + 2 * MaxMonthDays - 1
      BY <2>2, <3>1, <3>2, FirstPeriodRangeOK
    <3> HIDE DEF range
    <3> QED
      BY <2>2, <3>3, RequestFacts, CalendarNumbers DEF Charted, Days
  <2>5. /\ next \in PeriodRows /\ next.start = periods[n].end + 1
        /\ next.status = "active" /\ RangeOK(next)
    <3>1. range.start \in Days /\ range.transition \in BOOLEAN
      BY <2>2, <2>4 DEF Charted, RangeOK
    <3>2. settings.mode \in Modes
      BY DEF IInv, TypeOK, Configs
    <3> HIDE DEF range
    <3> QED
      BY <2>4, <3>1, <3>2
         DEF Successor, NewPeriod, PeriodRows, RangeOK, DurationInRange, range
  <2>6. RangeOK(closed)
    BY <2>2, <2>3, RequestFacts DEF IInv, RangeOK, DurationInRange
  <2>7. /\ budgets \in Seq([Categories -> Nat]) /\ Len(budgets) = Last
        /\ insights \in Seq([during : DuringRows, final : BOOLEAN])
        /\ Len(insights) = Last /\ periods \in Seq(PeriodRows) /\ Last \in Nat
        /\ 1 <= Last
        /\ \A i \in 1 .. Last : insights[i].final <=> i < Last
        /\ summaries \in Seq([totals : LedgerRows, breakdown : LedgerRows])
    BY RequestFacts DEF IInv, TypeOK, ChainOK, Summarized
  <2>8. copies \in [Categories -> Nat]
    <3>1. budgets[n] \in [Categories -> Nat]
      BY <2>2, <2>7, ElementOfSeq
    <3>2. RangeOK(periods[n])
      BY <2>2, <2>7 DEF IInv
    <3> HIDE DEF next
    <3> QED
      BY <2>5, <3>1, <3>2, ProrateType DEF CarriedOver, next
  <2>9. row \in [totals : LedgerRows, breakdown : LedgerRows]
    BY RequestFacts DEF Requests, Ledger, LedgerRows, IInv, TypeOK, TxnRows
  <2>10. /\ final \in Seq([during : DuringRows, final : BOOLEAN])
         /\ Len(final) = Last /\ \A i \in 1 .. Last : final[i].final
         /\ blank \in [during : DuringRows, final : BOOLEAN] /\ ~blank.final
    <3>1. [during |-> {}, final |-> TRUE] \in [during : DuringRows, final : BOOLEAN]
      BY DEF DuringRows
    <3>2. blank \in [during : DuringRows, final : BOOLEAN] /\ ~blank.final
      BY DEF DuringRows
    <3> QED
      BY <2>2, <2>7, <3>1, <3>2, ExceptSeq
  <2>11. /\ ps \in Seq(PeriodRows) /\ Len(ps) = Last
         /\ \A i \in 1 .. Last : ps[i] = IF i = n THEN closed ELSE periods[i]
    BY <2>2, <2>3, <2>7, ExceptSeq DEF Last
  <2>12. CloseOutcome
    <3> HIDE DEF ps, closed, next, copies, row, final, blank, n
    <3>1. /\ periods' \in Seq(PeriodRows) /\ Last' = Last + 1
          /\ \A i \in 1 .. Last : periods'[i] = ps[i]
          /\ periods'[Last + 1] = next
      BY <2>1, <2>5, <2>11, AppendProperties DEF Last
    <3>2. \A i \in 1 .. Last :
            /\ periods'[i].start = periods[i].start
            /\ periods'[i].end = periods[i].end
            /\ periods'[i].transition = periods[i].transition
            /\ periods'[i].mode = periods[i].mode
            /\ periods'[i].status = "closed"
      <4> SUFFICES ASSUME NEW i \in 1 .. Last
                   PROVE  /\ periods'[i].start = periods[i].start
                          /\ periods'[i].end = periods[i].end
                          /\ periods'[i].transition = periods[i].transition
                          /\ periods'[i].mode = periods[i].mode
                          /\ periods'[i].status = "closed"
        OBVIOUS
      <4>1. CASE i = n
        BY <2>3, <2>11, <3>1, <4>1
      <4>2. CASE i # n
        <5>1. ~Active(i)
          BY <2>2, <4>2 DEF IInv, ChainOK, OneActive
        <5>2. periods[i] \in PeriodRows
          BY <2>7, ElementOfSeq DEF Last
        <5>3. periods[i].status = "closed"
          BY <5>1, <5>2 DEF Active, PeriodRows
        <5> QED
          BY <2>11, <3>1, <4>2, <5>3
      <4> QED
        BY <4>1, <4>2
    <3>3. /\ budgets' \in Seq([Categories -> Nat])
          /\ Len(budgets') = Len(budgets) + 1
      BY <2>1, <2>7, <2>8, AppendProperties
    <3>4. /\ summaries' \in Seq([totals : LedgerRows, breakdown : LedgerRows])
          /\ Len(summaries') = Len(summaries) + 1
          /\ \A i \in 1 .. Len(summaries) : summaries'[i] = summaries[i]
      BY <2>1, <2>7, <2>9, AppendProperties
    <3>5. /\ insights' \in Seq([during : DuringRows, final : BOOLEAN])
          /\ Len(insights') = Len(insights) + 1
          /\ \A i \in 1 .. Last : insights'[i].final
          /\ ~insights'[Last + 1].final
      BY <2>1, <2>7, <2>10, AppendProperties
    <3> QED
      BY <2>2, <2>5, <3>1, <3>2, <3>3, <3>4, <3>5 DEF CloseOutcome
  <2>13. \E r \in Requests : /\ Goto(w, r)
                             /\ r.pc \in {"idle", "resolve"}
                             /\ r.day <= Horizon + ServerSkew
    <3>1. CASE q.op = "schedule"
      BY <2>1, <3>1, IdleOK, PeriodsNumbers DEF Finish, RequestOK, Idle
    <3>2. CASE q.op # "schedule"
      <4>0. q \in Requests /\ {} \in LedgerRows /\ 0 \in Nat /\ 0 \in Int
        BY RequestFacts DEF LedgerRows
      <4>1. resume \in Requests /\ resume.pc = "resolve" /\ resume.day = q.day
        BY <4>0 DEF Requests
      <4>2. q.day <= Horizon + ServerSkew
        BY RequestFacts DEF RequestOK
      <4> QED
        BY <2>1, <3>2, <4>1, <4>2
    <3> QED
      BY <3>1, <3>2
  <2> QED
    BY <1>1, <2>12, <2>13
<1> QED
  BY <1>2, <1>3

LEMMA CommitCloseStep ==
  ASSUME IInv, NEW w \in Workers, CommitClose(w) PROVE IInv'
<1>1. CASE Finish(w) /\ UNCHANGED <<today, tables>>
  BY <1>1, FinishStep
<1>2. CASE /\ CloseOutcome
           /\ UNCHANGED <<today, settings, txns, overlapping>>
           /\ \E r \in Requests : /\ Goto(w, r)
                                  /\ r.pc \in {"idle", "resolve"}
                                  /\ r.day <= Horizon + ServerSkew
  <2>1. PICK r \in Requests : /\ Goto(w, r)
                              /\ r.pc \in {"idle", "resolve"}
                              /\ r.day <= Horizon + ServerSkew
    BY <1>2
  <2>2. /\ request' \in [Workers -> Requests] /\ request'[w] = r
        /\ \A v \in Workers \ {w} : request'[v] = request[v]
    BY <2>1 DEF IInv, TypeOK, Goto
  <2>3. TypeOK'
    BY <1>2, <2>2 DEF IInv, TypeOK, CloseOutcome
  <2>4. Last \in Nat /\ 1 <= Last /\ Last' = Last + 1
    BY <1>2, RequestFacts DEF CloseOutcome
  <2>5. Contiguous'
    <3> SUFFICES ASSUME NEW n \in 1 .. Last
                 PROVE  periods'[n + 1].start = periods'[n].end + 1
      BY <2>4 DEF Contiguous
    <3>1. periods'[n].end = periods[n].end
      BY <1>2 DEF CloseOutcome
    <3>2. CASE n = Last
      BY <1>2, <3>1, <3>2 DEF CloseOutcome
    <3>3. CASE n # Last
      <4>1. n \in 1 .. Last - 1 /\ n + 1 \in 1 .. Last
        BY <2>4, <3>3
      <4>2. periods'[n + 1].start = periods[n + 1].start
        BY <1>2, <4>1 DEF CloseOutcome
      <4> QED
        BY <3>1, <4>1, <4>2 DEF IInv, ChainOK, Contiguous
    <3> QED
      BY <3>2, <3>3
  <2>6. OneActive'
    <3>1. \A n \in 1 .. Last : periods'[n].status = "closed"
      BY <1>2 DEF CloseOutcome
    <3>2. periods'[Last + 1].status = "active"
      BY <1>2 DEF CloseOutcome
    <3>3. \A n \in 1 .. Last + 1 : periods'[n].status = "active" <=> n = Last + 1
      BY <2>4, <3>1, <3>2
    <3> QED
      BY <2>4, <3>3 DEF OneActive, Active
  <2>7. Summarized'
    BY <1>2, <2>4 DEF IInv, ChainOK, Summarized, CloseOutcome
  <2>8. CloseExclusive'
    <3>1. \A v \in Workers : ~Closing(v)'
      BY <2>1, <2>2 DEF IInv, CloseExclusive, Closing, CommitClose, At
    <3> QED
      BY <3>1 DEF CloseExclusive
  <2>9. (\A n \in 1 .. Last : RangeOK(periods[n]))'
    <3> SUFFICES ASSUME NEW n \in 1 .. Last + 1 PROVE RangeOK(periods'[n])
      BY <2>4 DEF RangeOK, DurationInRange
    <3>1. CASE n = Last + 1
      BY <1>2, <3>1 DEF CloseOutcome
    <3>2. CASE n # Last + 1
      <4>1. n \in 1 .. Last
        BY <2>4, <3>2
      <4>2. RangeOK(periods[n])
        BY <4>1 DEF IInv
      <4>3. /\ periods'[n].start = periods[n].start
            /\ periods'[n].end = periods[n].end
            /\ periods'[n].transition = periods[n].transition
        BY <1>2, <4>1 DEF CloseOutcome
      <4> QED
        BY <4>2, <4>3 DEF RangeOK, DurationInRange
    <3> QED
      BY <3>1, <3>2
  <2>10. FirstPeriodBounded'
    <3>1. 1 \in 1 .. Last
      BY <2>4
    <3>2. periods'[1].start = periods[1].start /\ periods'[1].end = periods[1].end
      BY <1>2, <3>1 DEF CloseOutcome
    <3> QED
      BY <3>2 DEF IInv, FirstPeriodBounded
  <2>11. ASSUME NEW v \in Workers PROVE RequestOK(request[v])'
    <3>1. CASE v = w
      BY <2>1, <2>2, <3>1 DEF RequestOK
    <3>2. CASE v # w
      <4>1. RequestOK(request[v]) /\ request'[v] = request[v]
        BY <2>2, <3>2 DEF IInv
      <4>2. \A n \in 1 .. Last : n \in 1 .. Last' /\ periods'[n].end = periods[n].end
        BY <1>2, <2>4 DEF CloseOutcome
      <4> QED
        BY <4>1, <4>2 DEF RequestOK
    <3> QED
      BY <3>1, <3>2
  <2>12. TxnsPlaced'
    BY <1>2, <2>4 DEF IInv, TxnsPlaced
  <2> QED
    BY <2>3, <2>5, <2>6, <2>7, <2>8, <2>9, <2>10, <2>11, <2>12 DEF IInv, ChainOK
<1> QED
  BY <1>1, <1>2, CommitCloseOutcome

-----------------------------------------------------------------------------
(* The other steps.                                                        *)

LEMMA MidnightStep == ASSUME IInv, Midnight PROVE IInv'
<1> DEFINE w == Scheduler
           r == request[w]
<1>1. w \in Workers
  BY DEF Workers
<1>2. RequestOK(r) /\ Goto(w, r)
  BY <1>1 DEF IInv, TypeOK, Goto, Midnight
<1>3. r.pc \in {"totals", "commit"} =>
        r.n = Last /\ \A v \in Workers : Closing(v) => v = w
  BY <1>1 DEF IInv, CloseExclusive, Closing
<1>4. UNCHANGED tables /\ today' \in 0 .. Horizon
  BY PeriodsNumbers DEF Midnight, IInv, TypeOK
<1> HIDE DEF r, w
<1> QED
  BY <1>1, <1>2, <1>3, <1>4, RequestStep
     DEF tables, IInv, TypeOK, ChainOK, Summarized, TxnsPlaced, Last

LEMMA UpdateSettingsStep ==
  ASSUME IInv, NEW w \in Workers, UpdateSettings(w) PROVE IInv'
<1>1. PICK op \in AllOps, m \in Modes, d \in Durations \cup {settings.duration},
           day \in today .. today + ServerSkew :
        LET new == [mode |-> IF op = "mode" THEN m ELSE settings.mode,
                    duration |-> d]
        IN  /\ settings' = new
            /\ Goto(w, [Idle EXCEPT !.pc = "resolve", !.op = op, !.day = day,
                                    !.config = new])
  BY PeriodsAssumption DEF UpdateSettings
<1> DEFINE new == [mode |-> IF op = "mode" THEN m ELSE settings.mode, duration |-> d]
           r   == [Idle EXCEPT !.pc = "resolve", !.op = op, !.day = day,
                               !.config = new]
<1>2. new \in Configs
  BY PeriodsAssumption DEF IInv, TypeOK, Configs
<1>3. RequestOK(r)
  <2>1. day \in Int /\ day <= Horizon + ServerSkew
    BY RequestFacts, PeriodsNumbers
  <2>2. r \in Requests
    BY <1>2, <2>1, IdleOK DEF Requests
  <2>3. r.pc = "resolve" /\ r.day = day
    BY DEF Idle
  <2> HIDE DEF r
  <2> QED
    BY <2>1, <2>2, <2>3 DEF RequestOK
<1>4. r.pc \notin {"totals", "commit"}
  BY DEF Idle
<1>5. Goto(w, r) /\ settings' = new
  BY <1>1
<1>6. UNCHANGED <<today, periods, budgets, txns, summaries, insights, overlapping>>
  BY DEF UpdateSettings
<1> HIDE DEF r, new
<1> QED
  BY <1>2, <1>3, <1>4, <1>5, <1>6, RequestStep
     DEF IInv, TypeOK, ChainOK, Summarized, TxnsPlaced, Last

LEMMA WriteRowStep ==
  ASSUME IInv, NEW w \in Workers, NEW t \in Txns, NEW row \in TxnRows,
         row.n \in 1 .. Last, WriteRow(w, t, row), UNCHANGED <<today, tables>>
  PROVE  IInv'
<1> DEFINE r == [Idle EXCEPT !.pc = "written", !.n = row.n, !.key = t, !.row = row]
<1>1. r \in Requests
  BY IdleOK DEF Requests, TxnRows
<1>2. r.pc = "written" /\ r.n = row.n /\ r.day = 0 /\ r.key = t /\ r.row = row
  BY DEF Idle
<1>3. Goto(w, r)
  BY DEF WriteRow
<1> HIDE DEF r
<1>4. RequestOK(r)
  BY <1>1, <1>2, PeriodsNumbers DEF RequestOK
<1> QED
  BY <1>2, <1>3, <1>4, ReadStep

LEMMA CreateTransactionStep ==
  ASSUME IInv, NEW w \in Workers, CreateTransaction(w) PROVE IInv'
<1>1. PICK t \in Txns, d \in ClientDates, a \in Amounts :
        LET n == request[w].n
        IN  \/ WriteRow(w, t, [state |-> "live", n |-> n, date |-> d, amount |-> a])
            \/ Finish(w)
  BY DEF CreateTransaction
<1> DEFINE row == [state |-> "live", n |-> request[w].n, date |-> d, amount |-> a]
<1>2. UNCHANGED <<today, tables>> /\ request[w].n \in 1 .. Last
  BY RequestFacts DEF CreateTransaction, RequestOK, At
<1>3. row \in TxnRows /\ row.n \in 1 .. Last
  BY <1>2, PeriodsAssumption DEF TxnRows
<1> HIDE DEF row
<1>4. CASE WriteRow(w, t, row)
  BY <1>2, <1>3, <1>4, WriteRowStep
<1>5. CASE Finish(w)
  BY <1>2, <1>5, FinishStep
<1> QED
  BY <1>1, <1>4, <1>5 DEF row

LEMMA UpdateTransactionStep ==
  ASSUME IInv, NEW w \in Workers, UpdateTransaction(w) PROVE IInv'
<1>1. PICK t \in Txns, d \in ClientDates, a \in Amounts :
        /\ txns[t].state = "live"
        /\ WriteRow(w, t, [txns[t] EXCEPT !.date = d, !.amount = a])
  BY DEF UpdateTransaction
<1> DEFINE row == [txns[t] EXCEPT !.date = d, !.amount = a]
<1>2. txns[t] \in TxnRows /\ txns[t].n \in 1 .. Last
  BY <1>1 DEF IInv, TypeOK, TxnsPlaced
<1>3. row \in TxnRows /\ row.n \in 1 .. Last
  BY <1>2, PeriodsAssumption DEF TxnRows
<1> HIDE DEF row
<1> QED
  BY <1>1, <1>3, WriteRowStep DEF UpdateTransaction, row

LEMMA DeleteTransactionStep ==
  ASSUME IInv, NEW w \in Workers, DeleteTransaction(w) PROVE IInv'
<1>1. PICK t \in Txns :
        /\ txns[t].state = "live"
        /\ WriteRow(w, t, [txns[t] EXCEPT !.state = "deleted"])
  BY DEF DeleteTransaction
<1> DEFINE row == [txns[t] EXCEPT !.state = "deleted"]
<1>2. txns[t] \in TxnRows /\ txns[t].n \in 1 .. Last
  BY <1>1 DEF IInv, TypeOK, TxnsPlaced
<1>3. row \in TxnRows /\ row.n \in 1 .. Last
  BY <1>2 DEF TxnRows
<1> HIDE DEF row
<1> QED
  BY <1>1, <1>3, WriteRowStep DEF DeleteTransaction, row

\* A request that goes on to refresh the insights of an existing period.
LEMMA RefreshOK ==
  ASSUME NEW n \in 1 .. Last, Last \in Nat,
         NEW op \in AllOps \cup {"none", "schedule"}
  PROVE  LET r == [Idle EXCEPT !.pc = "refresh", !.op = op, !.n = n]
         IN  RequestOK(r) /\ r.pc = "refresh"
<1> DEFINE r == [Idle EXCEPT !.pc = "refresh", !.op = op, !.n = n]
<1>1. r \in Requests
  <2>1. n \in Nat
    OBVIOUS
  <2> QED
    BY <2>1, IdleOK DEF Requests
<1>2. r.pc = "refresh" /\ r.n = n /\ r.day = 0
  BY DEF Idle
<1> HIDE DEF r
<1>3. RequestOK(r)
  BY <1>1, <1>2, PeriodsNumbers DEF RequestOK
<1> QED
  BY <1>2, <1>3 DEF r

LEMMA CommitTransactionStep ==
  ASSUME IInv, NEW w \in Workers, CommitTransaction(w) PROVE IInv'
<1> DEFINE q == request[w]
           r == [Idle EXCEPT !.pc = "refresh", !.op = "none", !.n = q.n]
<1>1. /\ At(w, "written") /\ txns' = [txns EXCEPT ![q.key] = q.row]
      /\ UNCHANGED <<today, settings, periods, budgets, summaries, insights>>
      /\ overlapping' \in {overlapping, overlapping \cup {q.key}}
      /\ Goto(w, [Idle EXCEPT !.pc = "refresh", !.n = q.n])
  BY DEF CommitTransaction, Writing
<1>2. q.row \in TxnRows /\ q.key \in Txns /\ q.n \in 1 .. Last /\ q.row.n = q.n
  BY <1>1, RequestFacts DEF RequestOK, Requests, At
<1>3. Goto(w, r)
  <2>1. Idle.op = "none"
    BY DEF Idle
  <2>2. r = [Idle EXCEPT !.pc = "refresh", !.n = q.n]
    BY <2>1 DEF Idle
  <2> QED
    BY <1>1, <2>2
<1>4. RequestOK(r) /\ r.pc = "refresh"
  BY <1>2, RefreshOK, RequestFacts
<1>5. txns' \in [Txns -> TxnRows] /\ TxnsPlaced'
  BY <1>1, <1>2 DEF IInv, TypeOK, TxnsPlaced, Last
<1>6. r.pc \notin {"totals", "commit"} /\ overlapping' \in SUBSET Txns
  BY <1>1, <1>2, <1>4 DEF IInv, TypeOK
<1> HIDE DEF r
<1> QED
  BY <1>1, <1>3, <1>4, <1>5, <1>6, RequestStep
     DEF IInv, TypeOK, ChainOK, Summarized

LEMMA StartInsightsStep ==
  ASSUME IInv, NEW w \in Workers, StartInsights(w) PROVE IInv'
<1> DEFINE r == [Idle EXCEPT !.pc = "refresh", !.op = "insights", !.n = Last]
<1>1. Goto(w, r) /\ UNCHANGED <<today, tables>>
  BY DEF StartInsights
<1>2. "insights" \in AllOps /\ Last \in Nat /\ Last \in 1 .. Last
  BY RequestFacts DEF AllOps
<1>3. RequestOK(r) /\ r.pc = "refresh"
  BY <1>2, RefreshOK
<1> HIDE DEF r
<1> QED
  BY <1>1, <1>3, ReadStep

LEMMA DeleteInsightsStep ==
  ASSUME IInv, NEW w \in Workers, DeleteInsights(w) PROVE IInv'
<1> DEFINE q == request[w]
           seen == insights[q.n].during \cap (Clients \X Refreshed(q.op))
           r == [q EXCEPT !.pc = "persist", !.seen = seen]
<1>1. At(w, "refresh") /\ UNCHANGED <<today, tables>>
  BY DEF DeleteInsights
<1>2. CASE Finish(w)
  BY <1>1, <1>2, FinishStep
<1>3. CASE Goto(w, r)
  <2>1. seen \in DuringRows
    BY DEF DuringRows, Refreshed, Kinds
  <2>2. r \in Requests /\ r.pc = "persist" /\ r.n = q.n /\ r.day = q.day
    BY <2>1, RequestFacts DEF Requests
  <2> HIDE DEF r
  <2>3. RequestOK(r)
    BY <1>1, <2>2, RequestFacts DEF RequestOK, At
  <2> QED
    BY <1>1, <1>3, <2>2, <2>3, ReadStep
<1> QED
  BY <1>2, <1>3 DEF DeleteInsights

\* A step that writes the budgets or the insights of an existing period.
LEMMA RowStep ==
  ASSUME IInv, NEW w \in Workers, Finish(w),
         UNCHANGED <<today, settings, periods, txns, summaries, overlapping>>,
         budgets' \in Seq([Categories -> Nat]), Len(budgets') = Len(budgets),
         insights' \in Seq([during : DuringRows, final : BOOLEAN]),
         Len(insights') = Len(insights),
         \A n \in 1 .. Last : insights'[n].final = insights[n].final
  PROVE  IInv'
<1>1. Idle.pc \notin {"totals", "commit"} /\ RequestOK(Idle) /\ Goto(w, Idle)
  BY IdleOK DEF Idle, Finish
<1>2. TxnsPlaced'
  BY DEF IInv, TxnsPlaced, Last
<1>3. /\ today' \in 0 .. Horizon /\ settings' \in Configs
      /\ txns' \in [Txns -> TxnRows] /\ overlapping' \in SUBSET Txns
  BY DEF IInv, TypeOK
<1> QED
  BY <1>1, <1>2, <1>3, RequestStep

LEMMA PersistInsightsStep ==
  ASSUME IInv, NEW w \in Workers, w \in Clients, PersistInsights(w) PROVE IInv'
<1> DEFINE r == request[w]
           S == [during : DuringRows, final : BOOLEAN]
<1>1. PICK new \in {{}, {w} \X Refreshed(r.op)} :
        insights' = [insights EXCEPT ![r.n].during = (@ \ r.seen) \cup new]
  BY DEF PersistInsights
<1> DEFINE row == [insights[r.n] EXCEPT !.during = (@ \ r.seen) \cup new]
<1>2. /\ Finish(w) /\ UNCHANGED <<today, settings, periods, budgets, txns, summaries, overlapping>>
      /\ At(w, "persist")
  BY DEF PersistInsights
<1>3. insights \in Seq(S) /\ Len(insights) = Last /\ r.n \in 1 .. Last
  BY <1>2, RequestFacts DEF IInv, TypeOK, ChainOK, Summarized, RequestOK, At
<1>4. insights[r.n] \in S
  BY <1>3, ElementOfSeq
<1>5. new \in DuringRows
  BY DEF DuringRows, Refreshed, Kinds
<1>6. row \in S /\ row.final = insights[r.n].final
  BY <1>4, <1>5 DEF DuringRows
<1>7. insights' = [insights EXCEPT ![r.n] = row]
  BY <1>1
<1> HIDE DEF row, S
<1>8. /\ insights' \in Seq(S) /\ Len(insights') = Len(insights)
      /\ \A n \in 1 .. Last : insights'[n] = IF n = r.n THEN row ELSE insights[n]
  BY <1>3, <1>6, <1>7, ExceptSeq
<1>9. budgets' \in Seq([Categories -> Nat]) /\ Len(budgets') = Len(budgets)
  BY <1>2 DEF IInv, TypeOK
<1> QED
  BY <1>2, <1>6, <1>8, <1>9, RowStep DEF S

\* Setting a budget of an existing period.
LEMMA SetBudgetStep ==
  ASSUME IInv, NEW w \in Workers, Finish(w),
         UNCHANGED <<today, settings, periods, txns, summaries, insights, overlapping>>,
         NEW n \in 1 .. Last, NEW c, NEW a \in Nat,
         SetBudget(n, c, a) \/ UNCHANGED budgets
  PROVE  IInv'
<1> DEFINE row == [budgets[n] EXCEPT ![c] = a]
<1>1. /\ budgets \in Seq([Categories -> Nat]) /\ Len(budgets) = Last
      /\ insights' \in Seq([during : DuringRows, final : BOOLEAN])
      /\ Len(insights') = Len(insights)
  BY DEF IInv, TypeOK, ChainOK, Summarized
<1>2. budgets[n] \in [Categories -> Nat]
  BY <1>1, ElementOfSeq
<1>3. row \in [Categories -> Nat]
  BY <1>2
<1>4. CASE SetBudget(n, c, a)
  <2>1. budgets' = [budgets EXCEPT ![n] = row]
    BY <1>4 DEF SetBudget
  <2> HIDE DEF row
  <2>2. budgets' \in Seq([Categories -> Nat]) /\ Len(budgets') = Len(budgets)
    BY <1>1, <1>3, <2>1, ExceptSeq
  <2> QED
    BY <1>1, <2>2, RowStep
<1>5. CASE UNCHANGED budgets
  BY <1>1, <1>5, RowStep
<1> QED
  BY <1>4, <1>5

LEMMA CreateBudgetStep ==
  ASSUME IInv, NEW w \in Workers, CreateBudget(w) PROVE IInv'
<1>1. PICK c \in Categories, a \in BudgetAmounts :
        SetBudget(request[w].n, c, a) \/ UNCHANGED budgets
  BY DEF CreateBudget
<1>2. request[w].n \in 1 .. Last /\ a \in Nat
  BY RequestFacts, PeriodsAssumption DEF CreateBudget, RequestOK, At
<1> QED
  BY <1>1, <1>2, SetBudgetStep DEF CreateBudget

LEMMA EnsureMutableStep ==
  ASSUME IInv, NEW w \in Workers, EnsureMutable(w) PROVE IInv'
<1>1. PICK n \in 1 .. Last, c \in Categories :
        Goto(w, [Idle EXCEPT !.pc = "budget", !.n = n, !.key = c])
  BY DEF EnsureMutable
<1> DEFINE r == [Idle EXCEPT !.pc = "budget", !.n = n, !.key = c]
<1>2. n \in Nat
  BY RequestFacts
<1>3. r \in Requests
  BY <1>2, IdleOK DEF Requests
<1>4. r.pc = "budget" /\ r.n = n /\ r.day = 0
  BY DEF Idle
<1> HIDE DEF r
<1>5. RequestOK(r)
  BY <1>3, <1>4, PeriodsNumbers DEF RequestOK
<1> QED
  BY <1>1, <1>4, <1>5, ReadStep DEF EnsureMutable, r

LEMMA WriteBudgetStep ==
  ASSUME IInv, NEW w \in Workers, WriteBudget(w) PROVE IInv'
<1> DEFINE n == request[w].n
           c == request[w].key
<1>1. n \in 1 .. Last
  BY RequestFacts DEF WriteBudget, RequestOK, At
<1>2. \E a \in BudgetAmounts \cup {0} : SetBudget(n, c, a) \/ UNCHANGED budgets
  BY DEF WriteBudget
<1>3. BudgetAmounts \cup {0} \subseteq Nat
  BY PeriodsAssumption
<1> HIDE DEF n, c
<1> QED
  BY <1>1, <1>2, <1>3, SetBudgetStep DEF WriteBudget

LEMMA CheckPristineStep ==
  ASSUME IInv, NEW w \in Workers, CheckPristine(w) PROVE IInv'
<1> DEFINE q == request[w]
           r == [q EXCEPT !.pc = "reshape"]
<1>1. At(w, "resolved") /\ UNCHANGED <<today, tables>>
  BY DEF CheckPristine
<1>2. CASE Finish(w)
  BY <1>1, <1>2, FinishStep
<1>3. CASE Goto(w, r) /\ q.n = 1
  <2>1. r \in Requests /\ r.pc = "reshape" /\ r.n = 1 /\ r.day = q.day
    BY <1>3, RequestFacts DEF Requests
  <2>2. q.day <= Horizon + ServerSkew
    BY RequestFacts DEF RequestOK
  <2> HIDE DEF r
  <2>3. RequestOK(r)
    BY <2>1, <2>2, RequestFacts DEF RequestOK
  <2> QED
    BY <1>1, <1>3, <2>1, <2>3, ReadStep
<1> QED
  BY <1>2, <1>3 DEF CheckPristine

(***************************************************************************)
(* What a successful reshape does: the user has one period, which is       *)
(* active and not being closed, and keeps its first day.                   *)
(***************************************************************************)
ReshapeOutcome ==
  /\ Last = 1 /\ ~Locked(1)
  /\ periods' \in Seq(PeriodRows) /\ Last' = 1
  /\ periods'[1].start = periods[1].start
  /\ periods'[1].end <= periods[1].start + 2 * MaxMonthDays - 1
  /\ periods'[1].status = "active"
  /\ RangeOK(periods'[1])

LEMMA ReshapeCases ==
  ASSUME IInv, NEW w \in Workers, ReshapePeriod(w)
  PROVE  /\ Finish(w)
         /\ UNCHANGED <<today, settings, budgets, txns, summaries, insights, overlapping>>
         /\ UNCHANGED periods \/ ReshapeOutcome
<1> DEFINE q     == request[w]
           range == FirstPeriodRange(periods[q.n].start, q.config.mode,
                                     q.config.duration)
           new   == NewPeriod(range, q.config)
<1>1. q.n = 1 /\ ~Locked(1)
  BY RequestFacts DEF ReshapePeriod, RequestOK, At
<1>2. CASE ~Active(1)
  BY <1>1, <1>2 DEF ReshapePeriod
<1>3. CASE Active(1)
  <2>1. Last = 1
    BY <1>3, RequestFacts DEF IInv, ChainOK, OneActive
  <2>2. periods' = [periods EXCEPT ![1] = new]
    BY <1>1, <1>3 DEF ReshapePeriod
  <2>3. periods[1].start \in Int /\ 0 <= periods[1].start /\ periods[1].start <= Horizon
    BY PeriodsNumbers DEF IInv, FirstPeriodBounded
  <2>4. Charted(periods[1].start)
    BY <2>3, PeriodsNumbers, CalendarNumbers DEF Charted, Days
  <2>5. q.config \in Configs
    BY RequestFacts DEF Requests
  <2>6. /\ range.start = periods[1].start /\ RangeOK(range)
        /\ range.end \in periods[1].start .. periods[1].start + 2 * MaxMonthDays - 1
    BY <1>1, <2>4, <2>5, FirstPeriodRangeOK DEF Configs
  <2> HIDE DEF range
  <2>7. range.start \in Days /\ range.end \in Days /\ range.transition \in BOOLEAN
    BY <2>3, <2>6, PeriodsNumbers, CalendarNumbers DEF Days, RangeOK
  <2>8. new \in PeriodRows
    BY <2>5, <2>7 DEF NewPeriod, PeriodRows, Configs
  <2>9. /\ new.start = periods[1].start /\ RangeOK(new) /\ new.status = "active"
        /\ new.end <= periods[1].start + 2 * MaxMonthDays - 1
    BY <2>3, <2>6, CalendarNumbers DEF NewPeriod, RangeOK, DurationInRange
  <2> HIDE DEF new
  <2>10. periods' \in Seq(PeriodRows) /\ Len(periods') = Len(periods) /\ periods'[1] = new
    <3>1. periods \in Seq(PeriodRows) /\ 1 \in 1 .. Len(periods)
      BY <2>1 DEF IInv, TypeOK, Last
    <3> QED
      BY <2>2, <2>8, <3>1, ExceptSeq
  <2>11. ReshapeOutcome
    BY <1>1, <2>1, <2>9, <2>10 DEF ReshapeOutcome, Last
  <2> QED
    BY <2>11 DEF ReshapePeriod
<1> QED
  BY <1>2, <1>3

LEMMA ReshapePeriodStep ==
  ASSUME IInv, NEW w \in Workers, ReshapePeriod(w) PROVE IInv'
<1>1. /\ Finish(w)
      /\ UNCHANGED <<today, settings, budgets, txns, summaries, insights, overlapping>>
  BY ReshapeCases
<1>2. CASE UNCHANGED periods
  BY <1>1, <1>2, FinishStep DEF tables
<1>3. CASE ReshapeOutcome
  <2>1. /\ request' \in [Workers -> Requests] /\ request'[w] = Idle
        /\ \A v \in Workers \ {w} : request'[v] = request[v]
    BY <1>1, IdleOK DEF IInv, TypeOK, Finish, Goto
  <2>2. TypeOK'
    BY <1>1, <1>3, <2>1 DEF IInv, TypeOK, ReshapeOutcome
  <2>3. ChainOK'
    BY <1>1, <1>3 DEF IInv, ChainOK, Contiguous, OneActive, Summarized, Active,
                      ReshapeOutcome
  <2>4. \A v \in Workers : ~Closing(v)
    BY <1>3 DEF IInv, CloseExclusive, Locked, ReshapeOutcome
  <2>5. CloseExclusive'
    BY <2>1, <2>4 DEF CloseExclusive, Closing, Idle
  <2>6. (\A n \in 1 .. Last : RangeOK(periods[n]))'
    BY <1>3 DEF ReshapeOutcome, RangeOK, DurationInRange
  <2>7. FirstPeriodBounded' /\ TxnsPlaced'
    BY <1>1, <1>3 DEF IInv, FirstPeriodBounded, TxnsPlaced, ReshapeOutcome
  <2>8. ASSUME NEW v \in Workers PROVE RequestOK(request[v])'
    <3>1. CASE v = w
      BY <2>1, <3>1, IdleOK, PeriodsNumbers DEF RequestOK, Idle
    <3>2. CASE v # w
      BY <1>3, <2>1, <3>2 DEF IInv, RequestOK, ReshapeOutcome
    <3> QED
      BY <3>1, <3>2
  <2> QED
    BY <2>2, <2>3, <2>5, <2>6, <2>7, <2>8 DEF IInv
<1> QED
  BY <1>2, <1>3, ReshapeCases

-----------------------------------------------------------------------------
(* The invariant.                                                          *)

LEMMA InitIInv == Init => IInv
<1> SUFFICES ASSUME Init PROVE IInv
  OBVIOUS
<1> DEFINE range == FirstPeriodRange(today, Rolling, DefaultDuration)
           first == NewPeriod(range, settings)
<1>1. /\ periods = <<first>> /\ budgets = <<[c \in Categories |-> 0]>>
      /\ insights = <<[during |-> {}, final |-> FALSE]>> /\ summaries = <<>>
      /\ settings = [mode |-> Rolling, duration |-> DefaultDuration]
      /\ txns = [t \in Txns |-> NoRow] /\ overlapping = {}
      /\ request = [w \in Workers |-> Idle] /\ today \in StartDays
  BY DEF Init
<1>2. today \in 0 .. Horizon /\ Charted(today) /\ Rolling \in Modes
  BY <1>1, PeriodsAssumption, PeriodsNumbers, CalendarNumbers
     DEF Charted, Days, Modes
<1>3. settings \in Configs
  BY <1>1, <1>2, PeriodsNumbers DEF Configs
<1>4. /\ first \in PeriodRows /\ RangeOK(first) /\ first.status = "active"
      /\ first.start = today /\ first.end <= today + 2 * MaxMonthDays - 1
  <2>1. /\ range.start = today /\ RangeOK(range)
        /\ range.end \in today .. today + 2 * MaxMonthDays - 1
    BY <1>2, PeriodsNumbers, FirstPeriodRangeOK
  <2> HIDE DEF range
  <2>2. range.start \in Days /\ range.end \in Days /\ range.transition \in BOOLEAN
    BY <1>2, <2>1, PeriodsNumbers, CalendarNumbers DEF Days, RangeOK
  <2>3. /\ first.start = range.start /\ first.end = range.end
        /\ first.transition = range.transition /\ first.mode = settings.mode
        /\ first.status = "active"
    BY DEF NewPeriod
  <2>4. first \in PeriodRows
    BY <1>3, <2>2 DEF NewPeriod, PeriodRows, Configs
  <2>5. today \in Int
    BY <1>2
  <2> HIDE DEF first
  <2>6. RangeOK(first)
    BY <2>1, <2>3 DEF RangeOK, DurationInRange
  <2>7. first.end <= today + 2 * MaxMonthDays - 1
    BY <2>1, <2>3, <2>5, CalendarNumbers
  <2> QED
    BY <2>1, <2>3, <2>4, <2>6, <2>7
<1> HIDE DEF range, first
<1>5. Last = 1 /\ periods[1] = first /\ periods \in Seq(PeriodRows)
  BY <1>1, <1>4 DEF Last
<1>6. TypeOK
  <2>1. [c \in Categories |-> 0] \in [Categories -> Nat]
    OBVIOUS
  <2>2. [during |-> {}, final |-> FALSE] \in [during : DuringRows, final : BOOLEAN]
    BY DEF DuringRows
  <2>3. txns \in [Txns -> TxnRows]
    BY <1>1, CalendarNumbers DEF NoRow, TxnRows, Days
  <2>4. request \in [Workers -> Requests]
    BY <1>1, IdleOK
  <2>5. budgets \in Seq([Categories -> Nat])
    BY <1>1, <2>1
  <2>6. insights \in Seq([during : DuringRows, final : BOOLEAN])
    BY <1>1, <2>2
  <2>7. summaries \in Seq([totals : LedgerRows, breakdown : LedgerRows])
    BY <1>1
  <2> QED
    BY <1>1, <1>2, <1>3, <1>5, <2>3, <2>4, <2>5, <2>6, <2>7 DEF TypeOK
<1>7. ChainOK
  BY <1>1, <1>4, <1>5 DEF ChainOK, Contiguous, OneActive, Summarized, Active
<1>8. CloseExclusive
  BY <1>1 DEF CloseExclusive, Closing, Idle
<1>9. FirstPeriodBounded
  BY <1>2, <1>4, <1>5 DEF FirstPeriodBounded
<1>10. TxnsPlaced
  BY <1>1 DEF TxnsPlaced, NoRow
<1> QED
  BY <1>1, <1>4, <1>5, <1>6, <1>7, <1>8, <1>9, <1>10, IdleOK DEF IInv

LEMMA NextIInv == IInv /\ [Next]_vars => IInv'
<1> SUFFICES ASSUME IInv, [Next]_vars PROVE IInv'
  OBVIOUS
<1>1. ASSUME NEW w \in Workers, Close(w) PROVE IInv'
  BY <1>1, ClosePeriodStep, SummarizeTotalsStep, CommitCloseStep DEF Close
<1>2. ASSUME NEW w \in Workers, Abort(w) PROVE IInv'
  BY <1>2, FinishStep DEF Abort
<1>3. CASE SchedulerStep
  <2>1. Scheduler \in Workers
    BY DEF Workers
  <2> QED
    BY <1>1, <1>2, <1>3, <2>1, StartCloseStep DEF SchedulerStep
<1>4. ASSUME NEW w \in Clients, ClientStep(w) PROVE IInv'
  <2>1. w \in Workers
    BY DEF Workers
  <2> QED
    BY <1>1, <1>2, <1>4, <2>1, StartResolveStep, UpdateSettingsStep, ResolveStep,
       CreateTransactionStep, UpdateTransactionStep, DeleteTransactionStep,
       CommitTransactionStep, StartInsightsStep, DeleteInsightsStep,
       PersistInsightsStep, CheckPristineStep, ReshapePeriodStep,
       CreateBudgetStep, EnsureMutableStep, WriteBudgetStep
       DEF ClientStep
<1>5. CASE UNCHANGED vars
  <2>1. /\ today' = today /\ settings' = settings /\ periods' = periods
        /\ budgets' = budgets /\ txns' = txns /\ summaries' = summaries
        /\ insights' = insights /\ overlapping' = overlapping /\ request' = request
    BY <1>5 DEF vars, tables
  <2>2. TypeOK'
    BY <2>1 DEF IInv, TypeOK
  <2>3. ChainOK' /\ CloseExclusive'
    BY <2>1 DEF IInv, ChainOK, Contiguous, OneActive, Summarized, CloseExclusive,
                Closing, Active, Last
  <2>4. (\A n \in 1 .. Last : RangeOK(periods[n]))'
    BY <2>1 DEF IInv, Last, RangeOK, DurationInRange
  <2>5. FirstPeriodBounded' /\ TxnsPlaced'
    BY <2>1 DEF IInv, Last, FirstPeriodBounded, TxnsPlaced
  <2>6. (\A w \in Workers : RequestOK(request[w]))'
    BY <2>1 DEF IInv, Last, RequestOK
  <2> QED
    BY <2>2, <2>3, <2>4, <2>5, <2>6 DEF IInv
<1> QED
  BY <1>3, <1>4, <1>5, MidnightStep DEF Next

LEMMA InductiveIInv == Spec => []IInv
BY InitIInv, NextIInv, PTL DEF Spec

-----------------------------------------------------------------------------
(* The properties.                                                         *)

(***************************************************************************)
(* Every table and every request in flight keeps its types, whatever the   *)
(* interleaving: in particular no request names a period, a budget or a    *)
(* transaction that is out of range.                                       *)
(***************************************************************************)
THEOREM TypeCorrect == Spec => []TypeOK
<1>1. IInv => TypeOK
  BY DEF IInv
<1> QED
  BY <1>1, InductiveIInv, PTL

(***************************************************************************)
(* Any number of requests and the scheduler may race to close a period:    *)
(* the periods are a chain, one is active, each closed one has a summary.  *)
(***************************************************************************)
THEOREM ChainCorrect == Spec => []ChainOK
<1>1. IInv => ChainOK
  BY DEF IInv
<1> QED
  BY <1>1, InductiveIInv, PTL

(***************************************************************************)
(* The UPDATE of ClosePeriodTx, with its status condition and its row      *)
(* lock, lets one close at a time reach the statements behind it.          *)
(***************************************************************************)
THEOREM CloseIsExclusive == Spec => []CloseExclusive
<1>1. IInv => CloseExclusive
  BY DEF IInv
<1> QED
  BY <1>1, InductiveIInv, PTL

(***************************************************************************)
(* On every calendar that satisfies CalendarAssumption, every period that  *)
(* closes and reshapes create passes chk_duration_range and every bridge   *)
(* has the length that minBridgeDays promises.                             *)
(***************************************************************************)
THEOREM DurationsCorrect == Spec => []DurationsOK
<1>1. IInv => DurationsOK
  BY DEF IInv, DurationsOK, RangeOK, MaxBridgeDays
<1> QED
  BY <1>1, InductiveIInv, PTL

-----------------------------------------------------------------------------
(* TrackingPeriods implements PeriodHistory.                               *)

LEMMA LenHistory ==
  ASSUME IInv PROVE Len(History) = Last - 1 /\ Last - 1 \in Nat
<1>1. Last - 1 \in Nat
  BY DEF IInv, ChainOK, OneActive, TypeOK, Last
<1> QED
  BY <1>1 DEF History

\* A period's length, between the shortest bridge and the longest.
LEMMA CurrentLength ==
  ASSUME IInv PROVE Book!LengthOK(Current)
<1>1. RangeOK(periods[Last])
  BY DEF IInv, ChainOK, OneActive, TypeOK, Last
<1> QED
  BY <1>1, CalendarNumbers
     DEF Current, Terms, Book!LengthOK, RangeOK, DurationInRange, InclusiveDays,
         MaxBridgeDays

\* The next current period's length, after a close or a reshape.
LEMMA NextLength ==
  ASSUME IInv, Last' \in Nat, RangeOK(periods'[Last'])
  PROVE  Book!LengthOK(Current)'
BY CalendarNumbers
   DEF Current, Terms, Book!LengthOK, RangeOK, DurationInRange, InclusiveDays,
       MaxBridgeDays

LEMMA CloseRefines ==
  ASSUME IInv, CloseOutcome PROVE Book!Close
<1>1. /\ Len(History) = Last - 1 /\ Last - 1 \in Nat
      /\ Last' = Last + 1 /\ Last \in Nat
  BY LenHistory DEF CloseOutcome, IInv, TypeOK, Last
<1>2. Len(History') = Last
  BY <1>1 DEF History
<1>3. ASSUME NEW n \in 1 .. Last - 1 PROVE History'[n] = History[n]
  <2>1. Terms(periods'[n]) = Terms(periods[n]) /\ summaries'[n] = summaries[n]
    BY <1>1 DEF CloseOutcome, Terms, IInv, ChainOK, Summarized
  <2> QED
    BY <1>1, <2>1 DEF History
<1>4. History'[Last].period = Current
  <2>1. Last \in 1 .. Last
    BY <1>1
  <2>2. Terms(periods'[Last]) = Terms(periods[Last])
    BY <2>1 DEF CloseOutcome, Terms
  <2>3. Last \in 1 .. Last' - 1
    BY <1>1
  <2>4. History'[Last].period = Terms(periods'[Last])
    BY <2>3 DEF History, Terms
  <2> QED
    BY <2>2, <2>4 DEF Current
<1>5. Current'.start = Current.end + 1
  BY DEF Current, Terms, CloseOutcome
<1>6. Book!LengthOK(Current)'
  BY <1>1, NextLength DEF CloseOutcome
<1> QED
  BY <1>1, <1>3, <1>4, <1>5, <1>6, <1>2 DEF Book!Close, Book!LengthOK

LEMMA ReshapeRefines ==
  ASSUME IInv, ReshapeOutcome PROVE Book!Reshape
<1>1. Len(History) = 0 /\ Len(History') = 0
  BY LenHistory DEF ReshapeOutcome, History
<1>2. Current'.start = Current.start
  BY DEF Current, Terms, ReshapeOutcome
<1>3. Book!LengthOK(Current)'
  BY NextLength DEF ReshapeOutcome
<1> QED
  BY <1>1, <1>2, <1>3 DEF Book!Reshape, Book!LengthOK

LEMMA StutterRefines ==
  ASSUME UNCHANGED <<periods, summaries>> PROVE UNCHANGED <<History, Current>>
BY DEF History, Current, Terms, Last

LEMMA StepRefines ==
  ASSUME IInv, [Next]_vars PROVE [Book!Next]_<<History, Current>>
<1>1. ASSUME NEW w \in Workers, Close(w) PROVE [Book!Next]_<<History, Current>>
  <2>1. CASE ClosePeriod(w) \/ SummarizeTotals(w)
    BY <2>1, StutterRefines DEF ClosePeriod, SummarizeTotals, tables
  <2>2. CASE CommitClose(w)
    BY <2>2, CommitCloseOutcome, CloseRefines, StutterRefines DEF Book!Next, tables
  <2> QED
    BY <1>1, <2>1, <2>2 DEF Close
<1>2. CASE SchedulerStep
  <2>1. Scheduler \in Workers
    BY DEF Workers
  <2> QED
    BY <1>1, <1>2, <2>1, StutterRefines DEF SchedulerStep, StartClose, Abort, tables
<1>3. ASSUME NEW w \in Clients, ClientStep(w) PROVE [Book!Next]_<<History, Current>>
  <2>1. w \in Workers
    BY DEF Workers
  <2>2. CASE ReshapePeriod(w)
    BY <2>1, <2>2, ReshapeCases, ReshapeRefines, StutterRefines DEF Book!Next
  <2>3. CASE UNCHANGED <<periods, summaries>>
    BY <2>3, StutterRefines
  <2>4. \/ Close(w) \/ ReshapePeriod(w) \/ UNCHANGED <<periods, summaries>>
    BY <1>3 DEF ClientStep, StartResolve, UpdateSettings, Resolve,
                CreateTransaction, UpdateTransaction, DeleteTransaction,
                CommitTransaction, StartInsights, DeleteInsights,
                PersistInsights, CheckPristine, CreateBudget, EnsureMutable,
                WriteBudget, Abort, tables
  <2> QED
    BY <1>1, <2>1, <2>2, <2>3, <2>4
<1>4. CASE Midnight \/ UNCHANGED vars
  BY <1>4, StutterRefines DEF Midnight, vars, tables
<1> QED
  BY <1>2, <1>3, <1>4 DEF Next

(***************************************************************************)
(* Requests, the scheduler and their interleavings implement the promised  *)
(* history: closed periods and summaries are never altered, and a change   *)
(* of settings reaches only the user's first period, while it is the only  *)
(* one (domain rule 8).                                                    *)
(***************************************************************************)
THEOREM KeepsHistoryCorrect == Spec => KeepsHistory
<1>1. IInv /\ Init => Book!Init
  <2> SUFFICES ASSUME IInv, Init PROVE Book!Init
    OBVIOUS
  <2>1. Len(History) = 0
    BY LenHistory DEF Init, Last
  <2> QED
    BY <2>1, CurrentLength DEF Book!Init, Book!LengthOK
<1>2. IInv /\ [Next]_vars => [Book!Next]_<<History, Current>>
  BY StepRefines
<1> QED
  BY <1>1, <1>2, InductiveIInv, PTL DEF Spec, KeepsHistory, Book!Spec

-----------------------------------------------------------------------------
(* What a request in flight relies on, and what no step takes from it.     *)

\* The scheduler only closes periods.
SchedulerOK ==
  \/ request[Scheduler].pc = "idle"
  \/ /\ request[Scheduler].pc \in {"close", "totals", "commit"}
     /\ request[Scheduler].op = "schedule"

\* A row that is being written is new or stays in its period, and has one
\* writer.
WritesOK ==
  \A w \in Workers : Writing(w) =>
    /\ \/ txns[request[w].key].state = "none"
       \/ txns[request[w].key].n = request[w].n
    /\ \A v \in Workers : Writing(v) /\ request[v].key = request[w].key => v = w

\* What is true when a request becomes r.
Begun(r) ==
  /\ r.pc \in {"resolved", "written", "persist", "budget"} => Active(r.n)
  /\ r.pc = "commit" => r.rows = Ledger(r.n)
  /\ r.pc = "written" =>
       /\ ~WriteLocked(r.key)
       /\ txns[r.key].state = "none" \/ txns[r.key].n = r.n

\* A step by which the request of w becomes r.
Moves(w, r) == r \in Requests /\ Goto(w, r) /\ Begun(r)

LEMMA MovesIdle ==
  ASSUME NEW w, Finish(w) PROVE Moves(w, Idle)
BY IdleOK DEF Finish, Moves, Begun, Idle

\* The pc's of which Begun says nothing.
LEMMA MovesFreely ==
  ASSUME NEW w, NEW r \in Requests, Goto(w, r),
         r.pc \in {"idle", "resolve", "close", "totals", "refresh", "reshape"}
  PROVE  Moves(w, r)
BY DEF Moves, Begun

LEMMA ActiveLast ==
  ASSUME IInv PROVE Last \in 1 .. Last /\ Active(Last)
BY RequestFacts DEF IInv, ChainOK, OneActive, TypeOK, Last

LEMMA ResolveMoves ==
  ASSUME IInv, NEW w \in Workers, Resolve(w) PROVE \E r : Moves(w, r)
<1> DEFINE p == periods[Last]
           q == request[w]
           c == [q EXCEPT !.pc = "close", !.n = Last, !.end = p.end]
           s == [q EXCEPT !.pc = "resolved", !.n = Last, !.end = p.end,
                          !.mode = p.mode]
<1>1. Goto(w, c) \/ Finish(w) \/ Goto(w, s)
  BY DEF Resolve, Finish
<1>2. c \in Requests /\ c.pc = "close"
  BY RequestFacts DEF Requests
<1>3. s \in Requests /\ s.pc = "resolved" /\ s.n = Last
  BY RequestFacts DEF Requests, PeriodRows
<1> HIDE DEF c, s
<1>4. CASE Goto(w, c)
  BY <1>2, <1>4, MovesFreely
<1>5. CASE Goto(w, s)
  BY <1>3, <1>5, ActiveLast DEF Moves, Begun
<1> QED
  BY <1>1, <1>4, <1>5, MovesIdle

LEMMA SummarizeTotalsMoves ==
  ASSUME IInv, NEW w \in Workers, SummarizeTotals(w) PROVE \E r : Moves(w, r)
<1> DEFINE q    == request[w]
           rows == Ledger(q.n)
           c    == [q EXCEPT !.pc = "commit", !.rows = rows]
<1>1. Goto(w, c) \/ Finish(w)
  BY DEF SummarizeTotals
<1>2. rows \in LedgerRows
  BY DEF IInv, TypeOK, Ledger, LedgerRows, TxnRows
<1> HIDE DEF rows
<1>3. c \in Requests /\ c.pc = "commit" /\ c.rows = rows /\ c.n = q.n
  BY <1>2, RequestFacts DEF Requests
<1> HIDE DEF c
<1>4. CASE Goto(w, c)
  BY <1>3, <1>4 DEF Moves, Begun, rows
<1> QED
  BY <1>1, <1>4, MovesIdle

LEMMA CommitCloseMoves ==
  ASSUME IInv, NEW w \in Workers, CommitClose(w) PROVE \E r : Moves(w, r)
BY CommitCloseOutcome, MovesIdle, MovesFreely

LEMMA ClosePeriodMoves ==
  ASSUME IInv, NEW w \in Workers, ClosePeriod(w) PROVE \E r : Moves(w, r)
<1> DEFINE c == [request[w] EXCEPT !.pc = "totals"]
<1>1. Goto(w, c) \/ Finish(w)
  BY DEF ClosePeriod
<1>2. c \in Requests /\ c.pc = "totals"
  BY RequestFacts DEF Requests
<1> HIDE DEF c
<1> QED
  BY <1>1, <1>2, MovesIdle, MovesFreely

\* A write begins under the trigger.
LEMMA WriteRowMoves ==
  ASSUME IInv, NEW w \in Workers, NEW t \in Txns, NEW row \in TxnRows,
         WriteRow(w, t, row), Active(row.n), ~WriteLocked(t),
         txns[t].state = "none" \/ txns[t].n = row.n
  PROVE  \E r : Moves(w, r)
<1> DEFINE r == [Idle EXCEPT !.pc = "written", !.n = row.n, !.key = t, !.row = row]
<1>1. r \in Requests
  BY IdleOK DEF Requests, TxnRows
<1>2. r.pc = "written" /\ r.n = row.n /\ r.key = t
  BY DEF Idle
<1>3. Goto(w, r)
  BY DEF WriteRow
<1> HIDE DEF r
<1>4. Moves(w, r)
  BY <1>1, <1>2, <1>3 DEF Moves, Begun
<1> QED
  BY <1>4

LEMMA CreateTransactionMoves ==
  ASSUME IInv, NEW w \in Workers, CreateTransaction(w) PROVE \E r : Moves(w, r)
<1>1. PICK t \in Txns, d \in ClientDates, a \in Amounts :
        /\ txns[t].state = "none" /\ ~WriteLocked(t)
        /\ \/ /\ TriggerAccepts(request[w].n, d)
              /\ WriteRow(w, t, [state |-> "live", n |-> request[w].n,
                                 date |-> d, amount |-> a])
           \/ Finish(w)
  BY DEF CreateTransaction
<1> DEFINE row == [state |-> "live", n |-> request[w].n, date |-> d, amount |-> a]
<1>2. row \in TxnRows /\ row.n = request[w].n
  BY RequestFacts, PeriodsAssumption DEF TxnRows
<1> HIDE DEF row
<1>3. CASE TriggerAccepts(request[w].n, d) /\ WriteRow(w, t, row)
  BY <1>1, <1>2, <1>3, WriteRowMoves DEF TriggerAccepts
<1> QED
  BY <1>1, <1>3, MovesIdle DEF row

LEMMA UpdateTransactionMoves ==
  ASSUME IInv, NEW w \in Workers, UpdateTransaction(w) PROVE \E r : Moves(w, r)
<1>1. PICK t \in Txns, d \in ClientDates, a \in Amounts :
        /\ txns[t].state = "live" /\ ~WriteLocked(t)
        /\ TriggerAccepts(txns[t].n, d)
        /\ WriteRow(w, t, [txns[t] EXCEPT !.date = d, !.amount = a])
  BY DEF UpdateTransaction
<1> DEFINE row == [txns[t] EXCEPT !.date = d, !.amount = a]
<1>2. row \in TxnRows /\ row.n = txns[t].n
  BY PeriodsAssumption DEF IInv, TypeOK, TxnRows
<1> HIDE DEF row
<1> QED
  BY <1>1, <1>2, WriteRowMoves DEF TriggerAccepts, row

LEMMA DeleteTransactionMoves ==
  ASSUME IInv, NEW w \in Workers, DeleteTransaction(w) PROVE \E r : Moves(w, r)
<1>1. PICK t \in Txns :
        /\ txns[t].state = "live" /\ ~WriteLocked(t)
        /\ TriggerAccepts(txns[t].n, txns[t].date)
        /\ WriteRow(w, t, [txns[t] EXCEPT !.state = "deleted"])
  BY DEF DeleteTransaction
<1> DEFINE row == [txns[t] EXCEPT !.state = "deleted"]
<1>2. row \in TxnRows /\ row.n = txns[t].n
  BY DEF IInv, TypeOK, TxnRows
<1> HIDE DEF row
<1> QED
  BY <1>1, <1>2, WriteRowMoves DEF TriggerAccepts, row

LEMMA DeleteInsightsMoves ==
  ASSUME IInv, NEW w \in Workers, DeleteInsights(w) PROVE \E r : Moves(w, r)
<1> DEFINE q == request[w]
           seen == insights[q.n].during \cap (Clients \X Refreshed(q.op))
           r == [q EXCEPT !.pc = "persist", !.seen = seen]
<1>1. (Active(q.n) /\ Goto(w, r)) \/ Finish(w)
  BY DEF DeleteInsights
<1>2. seen \in DuringRows
  BY DEF DuringRows, Refreshed, Kinds
<1> HIDE DEF seen
<1>3. r \in Requests /\ r.pc = "persist" /\ r.n = q.n
  BY <1>2, RequestFacts DEF Requests
<1> HIDE DEF r
<1>4. CASE Active(q.n) /\ Goto(w, r)
  BY <1>3, <1>4 DEF Moves, Begun
<1> QED
  BY <1>1, <1>4, MovesIdle

LEMMA EnsureMutableMoves ==
  ASSUME IInv, NEW w \in Workers, EnsureMutable(w) PROVE \E r : Moves(w, r)
<1>1. PICK n \in 1 .. Last, c \in Categories :
        Active(n) /\ Goto(w, [Idle EXCEPT !.pc = "budget", !.n = n, !.key = c])
  BY DEF EnsureMutable
<1> DEFINE r == [Idle EXCEPT !.pc = "budget", !.n = n, !.key = c]
<1>2. n \in Nat
  BY RequestFacts
<1>3. r \in Requests /\ r.pc = "budget" /\ r.n = n
  BY <1>2, IdleOK DEF Requests, Idle
<1> HIDE DEF r
<1> QED
  BY <1>1, <1>3 DEF Moves, Begun, r

\* The requests that start, and the pristine check.
LEMMA OtherMoves ==
  ASSUME IInv, NEW w \in Workers,
         \/ StartResolve(w) \/ UpdateSettings(w) \/ CommitTransaction(w)
         \/ StartInsights(w) \/ CheckPristine(w)
  PROVE  \E r : Moves(w, r)
<1>1. CASE StartResolve(w)
  <2>1. PICK op \in AllOps :
          Goto(w, [Idle EXCEPT !.pc = "resolve", !.op = op, !.day = today])
    BY <1>1, PeriodsAssumption DEF StartResolve
  <2> DEFINE r == [Idle EXCEPT !.pc = "resolve", !.op = op, !.day = today]
  <2>2. r \in Requests /\ r.pc = "resolve"
    BY IdleOK, RequestFacts DEF Requests, Idle
  <2> HIDE DEF r
  <2> QED
    BY <2>1, <2>2, MovesFreely DEF r
<1>2. CASE UpdateSettings(w)
  <2>1. PICK op \in AllOps, m \in Modes, d \in Durations \cup {settings.duration},
             day \in today .. today + ServerSkew :
          Goto(w, [Idle EXCEPT !.pc = "resolve", !.op = op, !.day = day,
                     !.config = [mode |-> IF op = "mode" THEN m ELSE settings.mode,
                                 duration |-> d]])
    BY <1>2, PeriodsAssumption DEF UpdateSettings
  <2> DEFINE new == [mode |-> IF op = "mode" THEN m ELSE settings.mode,
                     duration |-> d]
             r   == [Idle EXCEPT !.pc = "resolve", !.op = op, !.day = day,
                                 !.config = new]
  <2>2. new \in Configs /\ day \in Int
    BY RequestFacts, PeriodsAssumption DEF IInv, TypeOK, Configs
  <2>3. Goto(w, r)
    BY <2>1
  <2> HIDE DEF new
  <2>4. r \in Requests /\ r.pc = "resolve"
    BY <2>2, IdleOK DEF Requests, Idle
  <2> HIDE DEF r
  <2> QED
    BY <2>3, <2>4, MovesFreely
<1>3. CASE CommitTransaction(w)
  <2> DEFINE r == [Idle EXCEPT !.pc = "refresh", !.n = request[w].n]
  <2>1. Goto(w, r)
    BY <1>3 DEF CommitTransaction
  <2>2. r \in Requests /\ r.pc = "refresh"
    BY IdleOK, RequestFacts DEF Requests, Idle
  <2> HIDE DEF r
  <2> QED
    BY <2>1, <2>2, MovesFreely
<1>4. CASE StartInsights(w)
  <2> DEFINE r == [Idle EXCEPT !.pc = "refresh", !.op = "insights", !.n = Last]
  <2>1. Goto(w, r)
    BY <1>4 DEF StartInsights
  <2>2. r \in Requests /\ r.pc = "refresh"
    BY IdleOK, RequestFacts DEF Requests, Idle, AllOps
  <2> HIDE DEF r
  <2> QED
    BY <2>1, <2>2, MovesFreely
<1>5. CASE CheckPristine(w)
  <2> DEFINE r == [request[w] EXCEPT !.pc = "reshape"]
  <2>1. Goto(w, r) \/ Finish(w)
    BY <1>5 DEF CheckPristine
  <2>2. r \in Requests /\ r.pc = "reshape"
    BY RequestFacts DEF Requests
  <2> HIDE DEF r
  <2> QED
    BY <2>1, <2>2, MovesFreely, MovesIdle
<1> QED
  BY <1>1, <1>2, <1>3, <1>4, <1>5

\* The scheduler's steps.
LEMMA SchedulerMoves ==
  ASSUME IInv, SchedulerOK, SchedulerStep
  PROVE  /\ \E r : Moves(Scheduler, r)
         /\ SchedulerOK'
<1> DEFINE s == Scheduler
           q == request[s]
<1>1. s \in Workers
  BY DEF Workers
<1>2. q \in Requests /\ DOMAIN request = Workers
  BY <1>1, RequestFacts DEF IInv, TypeOK
<1>3. CASE StartClose
  <2> DEFINE r == [Idle EXCEPT !.pc = "close", !.op = "schedule", !.n = Last,
                               !.end = periods[Last].end]
  <2>1. Goto(s, r)
    BY <1>3 DEF StartClose
  <2>2. r \in Requests /\ r.pc = "close" /\ r.op = "schedule"
    BY <1>1, IdleOK, RequestFacts DEF Requests, Idle
  <2> HIDE DEF r
  <2> QED
    BY <1>1, <1>2, <2>1, <2>2, MovesFreely DEF SchedulerOK, Goto
<1>4. CASE Finish(s)
  BY <1>1, <1>2, <1>4, MovesIdle DEF SchedulerOK, Finish, Goto, Idle
<1>5. CASE ClosePeriod(s) /\ ~Finish(s)
  <2>1. Goto(s, [q EXCEPT !.pc = "totals"]) /\ q.op = "schedule"
    BY <1>5 DEF ClosePeriod, SchedulerOK, At
  <2> QED
    BY <1>1, <1>2, <1>5, <2>1, ClosePeriodMoves DEF SchedulerOK, Goto, Requests
<1>6. CASE SummarizeTotals(s) /\ ~Finish(s)
  <2>1. q.op = "schedule"
    BY <1>6 DEF SummarizeTotals, SchedulerOK, At
  <2>2. Goto(s, [q EXCEPT !.pc = "commit", !.rows = Ledger(q.n)])
    BY <1>6 DEF SummarizeTotals
  <2> QED
    BY <1>1, <1>2, <1>6, <2>1, <2>2, SummarizeTotalsMoves
       DEF SchedulerOK, Goto, Requests
<1>7. CASE CommitClose(s) /\ ~Finish(s)
  BY <1>7 DEF CommitClose, SchedulerOK, At
<1> QED
  BY <1>3, <1>4, <1>5, <1>6, <1>7 DEF SchedulerStep, Close, Abort

-----------------------------------------------------------------------------
\* The invariant of the ledgers of closed periods.
WInv == IInv /\ SchedulerOK /\ WritesOK

LEMMA ClientMoves ==
  ASSUME IInv, NEW w \in Clients, ClientStep(w) PROVE \E r : Moves(w, r)
<1>1. w \in Workers
  BY DEF Workers
<1>2. CASE Finish(w)
  BY <1>2, MovesIdle
<1>3. \/ Finish(w)
      \/ StartResolve(w) \/ UpdateSettings(w) \/ Resolve(w)
      \/ ClosePeriod(w) \/ SummarizeTotals(w) \/ CommitClose(w)
      \/ CreateTransaction(w) \/ UpdateTransaction(w) \/ DeleteTransaction(w)
      \/ CommitTransaction(w) \/ StartInsights(w) \/ DeleteInsights(w)
      \/ CheckPristine(w) \/ EnsureMutable(w)
  BY DEF ClientStep, Close, PersistInsights, ReshapePeriod, CreateBudget,
         WriteBudget, Abort
<1> QED
  BY <1>1, <1>2, <1>3, OtherMoves, ResolveMoves, ClosePeriodMoves,
     SummarizeTotalsMoves, CommitCloseMoves, CreateTransactionMoves,
     UpdateTransactionMoves, DeleteTransactionMoves, DeleteInsightsMoves,
     EnsureMutableMoves

\* A request is as before, or its worker has made this step.
LEMMA RequestsMove ==
  ASSUME WInv, [Next]_vars
  PROVE  /\ SchedulerOK'
         /\ \/ UNCHANGED request
            \/ \E w \in Workers, r \in Requests :
                 /\ Begun(r) /\ request'[w] = r
                 /\ \A v \in Workers : v # w => request'[v] = request[v]
<1> DEFINE One == \E w \in Workers, r \in Requests :
                    /\ Begun(r) /\ request'[w] = r
                    /\ \A v \in Workers : v # w => request'[v] = request[v]
<1>1. DOMAIN request = Workers
  BY DEF WInv, IInv, TypeOK
<1>2. ASSUME NEW w \in Workers, NEW r, Moves(w, r) PROVE One
  BY <1>1, <1>2 DEF Moves, Goto
<1>3. CASE SchedulerStep
  BY <1>2, <1>3, SchedulerMoves DEF WInv, Workers
<1>4. ASSUME NEW w \in Clients, ClientStep(w) PROVE One /\ SchedulerOK'
  <2>1. PICK r : Moves(w, r)
    BY <1>4, ClientMoves DEF WInv
  <2>2. w \in Workers /\ Scheduler \in Workers /\ w # Scheduler
    BY PeriodsNumbers DEF Workers
  <2>3. request'[Scheduler] = request[Scheduler]
    BY <1>1, <2>1, <2>2 DEF Moves, Goto
  <2> QED
    BY <1>2, <2>1, <2>2, <2>3 DEF WInv, SchedulerOK
<1>5. CASE Midnight \/ UNCHANGED vars
  BY <1>5 DEF Midnight, vars, WInv, SchedulerOK
<1> QED
  BY <1>3, <1>4, <1>5 DEF Next

LEMMA NewRequest ==
  ASSUME WInv, [Next]_vars, NEW w \in Workers
  PROVE  /\ request'[w] \in Requests
         /\ request'[w] = request[w] \/ Begun(request'[w])
BY RequestsMove DEF WInv, IInv, TypeOK

\* Who writes the transactions.
LEMMA TxnsFrame ==
  ASSUME [Next]_vars
  PROVE  \/ UNCHANGED <<txns, overlapping>>
         \/ \E w \in Clients : CommitTransaction(w)
<1>1. CASE SchedulerStep \/ Midnight \/ UNCHANGED vars
  BY <1>1 DEF SchedulerStep, StartClose, Close, Abort, ClosePeriod,
              SummarizeTotals, CommitClose, Midnight, vars, tables
<1>2. ASSUME NEW w \in Clients, ClientStep(w)
      PROVE  UNCHANGED <<txns, overlapping>> \/ CommitTransaction(w)
  BY <1>2 DEF ClientStep, StartResolve, UpdateSettings, Resolve, Close,
              ClosePeriod, SummarizeTotals, CommitClose, CreateTransaction,
              UpdateTransaction, DeleteTransaction, StartInsights,
              DeleteInsights, PersistInsights, CheckPristine, ReshapePeriod,
              CreateBudget, EnsureMutable, WriteBudget, Abort, tables
<1> QED
  BY <1>1, <1>2 DEF Next

\* What a commit writes.
LEMMA CommitFacts ==
  ASSUME WInv, NEW w \in Clients, CommitTransaction(w)
  PROVE  LET q == request[w]
         IN  /\ Writing(w) /\ w \in Workers /\ DOMAIN request = Workers
             /\ q.key \in Txns /\ q.row \in TxnRows /\ q.row.n = q.n
             /\ txns[q.key].state = "none" \/ txns[q.key].n = q.n
             /\ txns' = [txns EXCEPT ![q.key] = q.row]
             /\ request' = [request EXCEPT ![w] =
                              [Idle EXCEPT !.pc = "refresh", !.n = q.n]]
             /\ q.n \in 1 .. Last
             /\ UNCHANGED <<periods, summaries>>
<1>1. w \in Workers /\ Writing(w)
  BY DEF CommitTransaction, Workers
<1>2. RequestOK(request[w]) /\ request[w] \in Requests
  BY <1>1, RequestFacts DEF WInv
<1>3. /\ request[w].key \in Txns /\ request[w].row \in TxnRows
      /\ request[w].row.n = request[w].n /\ request[w].n \in 1 .. Last
  BY <1>1, <1>2 DEF RequestOK, Requests, Writing, At
<1> QED
  BY <1>1, <1>3 DEF WInv, IInv, TypeOK, WritesOK, CommitTransaction, Goto

LEMMA WritesStep ==
  ASSUME WInv, [Next]_vars PROVE WritesOK'
<1>1. CASE UNCHANGED <<txns, overlapping>>
  <2>1. CASE UNCHANGED request
    BY <1>1, <2>1 DEF WInv, WritesOK, Writing, At
  <2>2. CASE \E w \in Workers, r \in Requests :
               /\ Begun(r) /\ request'[w] = r
               /\ \A v \in Workers : v # w => request'[v] = request[v]
    <3>1. PICK w \in Workers, r \in Requests :
               /\ Begun(r) /\ request'[w] = r
               /\ \A v \in Workers : v # w => request'[v] = request[v]
      BY <2>2
    <3>2. CASE r.pc # "written"
      BY <1>1, <3>1, <3>2 DEF WInv, WritesOK, Writing, At
    <3>3. CASE r.pc = "written"
      <4>1. /\ \A v \in Workers : Writing(v) => request[v].key # r.key
            /\ txns[r.key].state = "none" \/ txns[r.key].n = r.n
        BY <3>1, <3>3 DEF Begun, WriteLocked
      <4> QED
        BY <1>1, <3>1, <4>1 DEF WInv, WritesOK, Writing, At
    <3> QED
      BY <3>2, <3>3
  <2> QED
    BY <2>1, <2>2, RequestsMove
<1>2. ASSUME NEW w \in Clients, CommitTransaction(w) PROVE WritesOK'
  <2>1. /\ w \in Workers /\ Writing(w) /\ request[w].key \in Txns
        /\ txns' = [txns EXCEPT ![request[w].key] = request[w].row]
        /\ DOMAIN request = Workers
        /\ request' = [request EXCEPT ![w] = [Idle EXCEPT !.pc = "refresh",
                                                          !.n = request[w].n]]
    BY <1>2, CommitFacts
  <2>2. request'[w].pc = "refresh" /\ \A v \in Workers \ {w} : request'[v] = request[v]
    BY <2>1 DEF Idle
  <2> SUFFICES ASSUME NEW v \in Workers, Writing(v)'
               PROVE  /\ \/ txns'[request'[v].key].state = "none"
                         \/ txns'[request'[v].key].n = request'[v].n
                      /\ \A u \in Workers :
                           Writing(u)' /\ request'[u].key = request'[v].key => u = v
    BY DEF WritesOK
  <2>3. v # w /\ request'[v] = request[v] /\ Writing(v)
    BY <2>2 DEF Writing, At
  <2>4. request[v].key # request[w].key
    BY <2>1, <2>3 DEF WInv, WritesOK
  <2>5. txns'[request[v].key] = txns[request[v].key]
    BY <2>1, <2>4 DEF WInv, IInv, TypeOK
  <2>6. ASSUME NEW u \in Workers, Writing(u)' PROVE Writing(u) /\ request'[u] = request[u]
    BY <2>2, <2>6 DEF Writing, At
  <2> QED
    BY <2>3, <2>5, <2>6 DEF WInv, WritesOK
<1> QED
  BY <1>1, <1>2, TxnsFrame

LEMMA InductiveWInv == Spec => []WInv
<1>1. Init => WInv
  BY InitIInv DEF Init, WInv, SchedulerOK, WritesOK, Writing, At, Idle, Workers
<1>2. WInv /\ [Next]_vars => WInv'
  BY NextIInv, RequestsMove, WritesStep DEF WInv
<1> QED
  BY <1>1, <1>2, PTL DEF Spec

\* The ledger of a period in which a commit writes nothing.
LEMMA LedgerOfOthers ==
  ASSUME WInv, NEW w \in Clients, CommitTransaction(w), NEW n, n # request[w].n
  PROVE  Ledger(n)' = Ledger(n)
<1> DEFINE q == request[w]
<1>1. /\ q.key \in Txns /\ q.row.n # n
      /\ txns[q.key].state = "none" \/ txns[q.key].n # n
      /\ txns' = [txns EXCEPT ![q.key] = q.row]
  BY CommitFacts
<1>2. DOMAIN txns = Txns
  BY DEF WInv, IInv, TypeOK
<1> HIDE DEF q
<1>3. \A t \in Txns : (txns'[t].state = "live" /\ txns'[t].n = n) <=>
                      (txns[t].state = "live" /\ txns[t].n = n)
  BY <1>1, <1>2
<1>4. \A t \in Txns : txns[t].state = "live" /\ txns[t].n = n => txns'[t] = txns[t]
  BY <1>1, <1>2
<1> QED
  BY <1>3, <1>4 DEF Ledger

(***************************************************************************)
(* The trigger is enough to seal a closed period's ledger: whatever        *)
(* requests race with the close, once the last write under way has ended   *)
(* the period's transactions never change again.                           *)
(***************************************************************************)
THEOREM ClosedLedgerSettlesCorrect == Spec => ClosedLedgerSettles
<1> DEFINE Settled == \A n \in 1 .. Last :
              ~Active(n) /\ ~WriteInFlight(n) =>
                ~WriteInFlight(n)' /\ Ledger(n)' = Ledger(n)
<1>1. ASSUME WInv, [Next]_vars, NEW n \in 1 .. Last, ~Active(n), ~WriteInFlight(n)
      PROVE  ~WriteInFlight(n)' /\ Ledger(n)' = Ledger(n)
  <2>1. ASSUME NEW w \in Clients, Writing(w)', request'[w].n = n PROVE FALSE
    <3>1. request'[w] = request[w] \/ Begun(request'[w])
      BY <1>1, NewRequest DEF Workers
    <3>2. ~Begun(request'[w])
      BY <1>1, <2>1 DEF Begun, Writing, At
    <3> QED
      BY <1>1, <2>1, <3>1, <3>2 DEF WriteInFlight, Writing, At
  <2>2. ~WriteInFlight(n)'
    BY <2>1 DEF WriteInFlight
  <2>3. ASSUME UNCHANGED <<txns, overlapping>> PROVE Ledger(n)' = Ledger(n)
    BY <2>3 DEF Ledger
  <2>4. ASSUME NEW w \in Clients, CommitTransaction(w) PROVE Ledger(n)' = Ledger(n)
    <3>1. request[w].n # n
      BY <1>1, <2>4 DEF WriteInFlight, CommitTransaction
    <3> QED
      BY <1>1, <2>4, <3>1, LedgerOfOthers
  <2> QED
    BY <1>1, <2>2, <2>3, <2>4, TxnsFrame
<1>2. WInv /\ [Next]_vars => [Settled]_vars
  BY <1>1
<1> QED
  BY <1>2, InductiveWInv, PTL DEF Spec, ClosedLedgerSettles

-----------------------------------------------------------------------------
(* Budgets and insights of a closed period.                                *)

\* Who writes the budgets and the insights.
LEMMA BudgetsFrame ==
  ASSUME [Next]_vars
  PROVE  \/ UNCHANGED budgets
         \/ \E w \in Clients : CreateBudget(w) \/ WriteBudget(w)
         \/ \E w \in Workers : CommitClose(w)
<1>1. CASE SchedulerStep \/ Midnight \/ UNCHANGED vars
  BY <1>1 DEF SchedulerStep, StartClose, Close, Abort, ClosePeriod,
              SummarizeTotals, Midnight, vars, tables, Workers
<1>2. ASSUME NEW w \in Clients, ClientStep(w)
      PROVE  \/ UNCHANGED budgets \/ CreateBudget(w) \/ WriteBudget(w)
             \/ CommitClose(w)
  BY <1>2 DEF ClientStep, StartResolve, UpdateSettings, Resolve, Close,
              ClosePeriod, SummarizeTotals, CreateTransaction,
              UpdateTransaction, DeleteTransaction, CommitTransaction,
              StartInsights, DeleteInsights, PersistInsights, CheckPristine,
              ReshapePeriod, EnsureMutable, Abort, tables
<1> QED
  BY <1>1, <1>2 DEF Next, Workers

LEMMA InsightsFrame ==
  ASSUME [Next]_vars
  PROVE  \/ UNCHANGED insights
         \/ \E w \in Clients : PersistInsights(w)
         \/ \E w \in Workers : CommitClose(w)
<1>1. CASE SchedulerStep \/ Midnight \/ UNCHANGED vars
  BY <1>1 DEF SchedulerStep, StartClose, Close, Abort, ClosePeriod,
              SummarizeTotals, Midnight, vars, tables, Workers
<1>2. ASSUME NEW w \in Clients, ClientStep(w)
      PROVE  UNCHANGED insights \/ PersistInsights(w) \/ CommitClose(w)
  BY <1>2 DEF ClientStep, StartResolve, UpdateSettings, Resolve, Close,
              ClosePeriod, SummarizeTotals, CreateTransaction,
              UpdateTransaction, DeleteTransaction, CommitTransaction,
              StartInsights, DeleteInsights, CheckPristine,
              ReshapePeriod, CreateBudget, EnsureMutable, WriteBudget, Abort,
              tables
<1> QED
  BY <1>1, <1>2 DEF Next, Workers

\* Appending keeps what a sequence holds.
LEMMA AppendKeeps ==
  ASSUME NEW S, NEW s \in Seq(S), NEW e, NEW i \in 1 .. Len(s)
  PROVE  Append(s, e)[i] = s[i]
<1> DEFINE T == S \cup {e}
<1>1. e \in T /\ s \in Seq(T)
  BY SeqMonotonic
<1> HIDE DEF T
<1> QED
  BY <1>1, AppendProperties

\* What a successful close leaves of a closed period's budgets and insights.
LEMMA CloseKeepsRows ==
  ASSUME IInv, NEW w \in Workers, CommitClose(w), NEW n \in 1 .. Last, ~Active(n)
  PROVE  budgets'[n] = budgets[n] /\ insights'[n] = insights[n]
<1> DEFINE S == [during : DuringRows, final : BOOLEAN]
<1>1. request[w].n = Last /\ Active(Last) /\ Last \in 1 .. Last
  BY ClosingCharted, ActiveLast DEF CommitClose
<1>2. /\ budgets \in Seq([Categories -> Nat]) /\ Len(budgets) = Last
      /\ insights \in Seq(S) /\ Len(insights) = Last /\ n # Last
  BY <1>1 DEF IInv, TypeOK, ChainOK, Summarized
<1>3. CASE UNCHANGED <<budgets, insights>>
  BY <1>3
<1>4. CASE ~UNCHANGED <<budgets, insights>>
  <2> DEFINE final == [insights EXCEPT ![Last] = [during |-> {}, final |-> TRUE]]
  <2>1. PICK copies, blank :
          budgets' = Append(budgets, copies) /\ insights' = Append(final, blank)
    BY <1>1, <1>4 DEF CommitClose
  <2>2. budgets'[n] = budgets[n]
    BY <1>2, <2>1, AppendKeeps
  <2>3. final \in Seq(S) /\ Len(final) = Last /\ final[n] = insights[n]
    <3>1. [during |-> {}, final |-> TRUE] \in S
      BY DEF DuringRows
    <3> HIDE DEF S
    <3> QED
      BY <1>1, <1>2, <3>1, ExceptSeq
  <2> HIDE DEF final
  <2>4. insights'[n] = final[n]
    BY <2>1, <2>3, AppendKeeps
  <2> QED
    BY <2>2, <2>3, <2>4
<1> QED
  BY <1>3, <1>4

(***************************************************************************)
(* ensureMutable looks at the status once, before the write; a closed      *)
(* period's budgets are changed only by the requests that looked while it  *)
(* was active, and not after these have ended.                             *)
(***************************************************************************)
THEOREM ClosedBudgetsSettleCorrect == Spec => ClosedBudgetsSettle
<1> DEFINE Settled == \A n \in 1 .. Last :
              ~Active(n) /\ ~BudgetInFlight(n) =>
                ~BudgetInFlight(n)' /\ budgets'[n] = budgets[n]
<1>1. ASSUME WInv, [Next]_vars, NEW n \in 1 .. Last, ~Active(n), ~BudgetInFlight(n)
      PROVE  ~BudgetInFlight(n)' /\ budgets'[n] = budgets[n]
  <2>1. ASSUME NEW w \in Clients, request'[w].n = n,
               \/ request'[w].pc = "budget"
               \/ request'[w].pc = "resolved" /\ request'[w].op = "newBudget"
        PROVE  FALSE
    <3>1. request'[w] = request[w] \/ Begun(request'[w])
      BY <1>1, NewRequest DEF Workers
    <3>2. ~Begun(request'[w])
      BY <1>1, <2>1 DEF Begun
    <3> QED
      BY <1>1, <2>1, <3>1, <3>2 DEF BudgetInFlight, At
  <2>2. ~BudgetInFlight(n)'
    BY <2>1 DEF BudgetInFlight, At
  <2>3. ASSUME NEW w \in Clients, CreateBudget(w) \/ WriteBudget(w)
        PROVE  budgets'[n] = budgets[n]
    <3>1. request[w].n # n
      BY <1>1, <2>3 DEF BudgetInFlight, CreateBudget, WriteBudget
    <3> DEFINE m == request[w].n
    <3>2. \/ UNCHANGED budgets
          \/ \E c \in Categories, a \in BudgetAmounts : SetBudget(m, c, a)
          \/ \E a \in BudgetAmounts \cup {0} : SetBudget(m, request[w].key, a)
      BY <2>3 DEF CreateBudget, WriteBudget
    <3> HIDE DEF m
    <3>3. ASSUME NEW c, NEW a, SetBudget(m, c, a) PROVE budgets'[n] = budgets[n]
      <4>1. budgets' = [budgets EXCEPT ![m] = [budgets[m] EXCEPT ![c] = a]]
        BY <3>3 DEF SetBudget
      <4>2. n \in DOMAIN budgets
        BY <1>1 DEF WInv, IInv, TypeOK, ChainOK, Summarized
      <4> QED
        BY <3>1, <4>1, <4>2 DEF m
    <3> QED
      BY <3>2, <3>3
  <2>4. ASSUME NEW w \in Workers, CommitClose(w) PROVE budgets'[n] = budgets[n]
    BY <1>1, <2>4, CloseKeepsRows DEF WInv
  <2> QED
    BY <1>1, <2>2, <2>3, <2>4, BudgetsFrame
<1>2. WInv /\ [Next]_vars => [Settled]_vars
  BY <1>1
<1> QED
  BY <1>2, InductiveWInv, PTL DEF Spec, ClosedBudgetsSettle

(***************************************************************************)
(* A refresh of the during insights looks at the status once, too: a       *)
(* closed period's insights are changed only by the refreshes that were    *)
(* under way when it closed.                                               *)
(***************************************************************************)
THEOREM ClosedInsightsSettleCorrect == Spec => ClosedInsightsSettle
<1> DEFINE Settled == \A n \in 1 .. Last :
              ~Active(n) /\ ~RefreshInFlight(n) =>
                ~RefreshInFlight(n)' /\ insights'[n] = insights[n]
<1>1. ASSUME WInv, [Next]_vars, NEW n \in 1 .. Last, ~Active(n), ~RefreshInFlight(n)
      PROVE  ~RefreshInFlight(n)' /\ insights'[n] = insights[n]
  <2>1. ASSUME NEW w \in Clients, request'[w].n = n, request'[w].pc = "persist"
        PROVE  FALSE
    <3>1. request'[w] = request[w] \/ Begun(request'[w])
      BY <1>1, NewRequest DEF Workers
    <3>2. ~Begun(request'[w])
      BY <1>1, <2>1 DEF Begun
    <3> QED
      BY <1>1, <2>1, <3>1, <3>2 DEF RefreshInFlight, At
  <2>2. ~RefreshInFlight(n)'
    BY <2>1 DEF RefreshInFlight, At
  <2>3. ASSUME NEW w \in Clients, PersistInsights(w)
        PROVE  insights'[n] = insights[n]
    <3>1. request[w].n # n
      BY <1>1, <2>3 DEF RefreshInFlight, PersistInsights
    <3> DEFINE m == request[w].n
    <3>2. PICK row : insights' = [insights EXCEPT ![m] = row]
      BY <2>3 DEF PersistInsights
    <3>3. n \in DOMAIN insights
      BY <1>1 DEF WInv, IInv, TypeOK, ChainOK, Summarized
    <3> QED
      BY <3>1, <3>2, <3>3
  <2>4. ASSUME NEW w \in Workers, CommitClose(w) PROVE insights'[n] = insights[n]
    BY <1>1, <2>4, CloseKeepsRows DEF WInv
  <2> QED
    BY <1>1, <2>2, <2>3, <2>4, InsightsFrame
<1>2. WInv /\ [Next]_vars => [Settled]_vars
  BY <1>1
<1> QED
  BY <1>2, InductiveWInv, PTL DEF Spec, ClosedInsightsSettle

-----------------------------------------------------------------------------
(* The summary of a closed period.                                         *)

\* The rows a close has summarised and not committed are those of the ledger
\* but for transactions that committed meanwhile.
RowsExact(w) ==
  Changed(request[w].rows, Ledger(request[w].n)) \subseteq overlapping

ClosingExact == \A w \in Workers : At(w, "commit") => RowsExact(w)

\* What a set of rows differs from two others by.
LEMMA ChangedTwice ==
  ASSUME NEW a, NEW b, NEW c
  PROVE  Changed(a, c) \subseteq Changed(a, b) \cup Changed(b, c)
BY DEF Changed

LEMMA ChangedNothing == ASSUME NEW a PROVE Changed(a, a) = {}
BY DEF Changed

\* A commit changes one transaction's row.
LEMMA LedgerChange ==
  ASSUME WInv, NEW w \in Clients, CommitTransaction(w), NEW n
  PROVE  Changed(Ledger(n), Ledger(n)') \subseteq {request[w].key}
<1> DEFINE k == request[w].key
           Kept(r) == r[1] # k
<1>1. DOMAIN txns = Txns /\ txns' = [txns EXCEPT ![k] = request[w].row]
  BY CommitFacts DEF WInv, IInv, TypeOK
<1>2. \A t \in Txns : t # k => txns'[t] = txns[t]
  BY <1>1
<1>3. \A t \in Txns :
        t # k => (<<t, txns[t].amount>> \in Ledger(n)' <=>
                  <<t, txns[t].amount>> \in Ledger(n))
  <2> SUFFICES ASSUME NEW t \in Txns, t # k
               PROVE  <<t, txns[t].amount>> \in Ledger(n)' <=>
                      <<t, txns[t].amount>> \in Ledger(n)
    OBVIOUS
  <2>1. <<t, txns[t].amount>> \in Ledger(n) <=>
          txns[t].state = "live" /\ txns[t].n = n
    BY DEF Ledger
  <2>2. <<t, txns[t].amount>> \in Ledger(n)' <=>
          txns'[t].state = "live" /\ txns'[t].n = n
    BY <1>2 DEF Ledger
  <2> QED
    BY <1>2, <2>1, <2>2
<1>4. ASSUME NEW r \in Ledger(n), r[1] # k PROVE r \in Ledger(n)'
  <2>1. PICK t \in Txns : r = <<t, txns[t].amount>>
    BY <1>4 DEF Ledger
  <2>2. r[1] = t
    BY <2>1
  <2> QED
    BY <1>3, <1>4, <2>1, <2>2
<1>5. ASSUME NEW r \in Ledger(n)', r[1] # k PROVE r \in Ledger(n)
  <2>1. PICK t \in Txns : r = <<t, txns'[t].amount>>
    BY <1>5 DEF Ledger
  <2>2. r[1] = t
    BY <2>1
  <2>3. r = <<t, txns[t].amount>>
    BY <1>2, <1>5, <2>1, <2>2
  <2> QED
    BY <1>3, <1>5, <2>2, <2>3
<1> QED
  BY <1>4, <1>5 DEF Changed

\* The transactions' ledgers and the history variable, after a commit.
LEMMA OverlappingGrows ==
  ASSUME WInv, NEW w \in Clients, CommitTransaction(w)
  PROVE  /\ overlapping \subseteq overlapping'
         /\ ~(Active(request[w].n) /\ ~Locked(request[w].n)) =>
              request[w].key \in overlapping'
BY DEF CommitTransaction

\* A set of rows that was exact stays exact, if its period is closed or closing.
LEMMA StaysExact ==
  ASSUME WInv, NEW w \in Clients, CommitTransaction(w), NEW n, NEW rows,
         Changed(rows, Ledger(n)) \subseteq overlapping,
         ~Active(n) \/ Locked(n)
  PROVE  Changed(rows, Ledger(n)') \subseteq overlapping'
<1>1. CASE n = request[w].n
  BY <1>1, LedgerChange, OverlappingGrows, ChangedTwice
<1>2. CASE n # request[w].n
  <2>1. Ledger(n)' = Ledger(n)
    BY <1>2, LedgerOfOthers
  <2> QED
    BY <2>1, OverlappingGrows
<1> QED
  BY <1>1, <1>2

\* Who writes the summaries, and what.
LEMMA SummariesFrame ==
  ASSUME [Next]_vars
  PROVE  UNCHANGED summaries \/ \E w \in Workers : CommitClose(w)
<1>1. CASE SchedulerStep \/ Midnight \/ UNCHANGED vars
  BY <1>1 DEF SchedulerStep, StartClose, Close, Abort, ClosePeriod,
              SummarizeTotals, Midnight, vars, tables, Workers
<1>2. ASSUME NEW w \in Clients, ClientStep(w)
      PROVE  UNCHANGED summaries \/ CommitClose(w)
  BY <1>2 DEF ClientStep, StartResolve, UpdateSettings, Resolve, Close,
              ClosePeriod, SummarizeTotals, CreateTransaction,
              UpdateTransaction, DeleteTransaction, CommitTransaction,
              StartInsights, DeleteInsights, PersistInsights, CheckPristine,
              ReshapePeriod, CreateBudget, EnsureMutable, WriteBudget, Abort,
              tables
<1> QED
  BY <1>1, <1>2 DEF Next, Workers

\* The summary a close inserts.
LEMMA CloseSummary ==
  ASSUME IInv, NEW w \in Workers, CommitClose(w)
  PROVE  /\ UNCHANGED <<txns, overlapping>>
         /\ \/ UNCHANGED summaries
            \/ /\ Len(summaries') = Last
               /\ \A n \in 1 .. Last - 1 : summaries'[n] = summaries[n]
               /\ summaries'[Last].totals = request[w].rows
               /\ summaries'[Last].breakdown = Ledger(Last)
<1> DEFINE S   == [totals : LedgerRows, breakdown : LedgerRows]
           row == [totals |-> request[w].rows, breakdown |-> Ledger(Last)]
<1>1. request[w].n = Last
  BY ClosingCharted DEF CommitClose
<1>2. UNCHANGED summaries \/ summaries' = Append(summaries, row)
  BY <1>1 DEF CommitClose
<1>3. /\ summaries \in Seq(S) /\ Len(summaries) = Last - 1 /\ Last \in Nat
  BY RequestFacts DEF IInv, TypeOK, ChainOK, Summarized
<1>4. row \in S
  BY RequestFacts DEF Requests, Ledger, LedgerRows, IInv, TypeOK, TxnRows
<1>5. row.totals = request[w].rows /\ row.breakdown = Ledger(Last)
  OBVIOUS
<1> HIDE DEF S, row
<1>6. UNCHANGED <<txns, overlapping>>
  BY DEF CommitClose
<1>7. CASE summaries' = Append(summaries, row)
  <2>1. /\ Len(summaries') = Len(summaries) + 1
        /\ summaries'[Len(summaries) + 1] = row
        /\ \A n \in 1 .. Len(summaries) : summaries'[n] = summaries[n]
    BY <1>3, <1>4, <1>7, AppendProperties
  <2>2. Len(summaries) + 1 = Last
    BY <1>3
  <2> QED
    BY <1>3, <1>5, <1>6, <2>1, <2>2
<1> QED
  BY <1>2, <1>6, <1>7

EInv == WInv /\ SummaryExact /\ ClosingExact

\* Steps that write no transaction.
LEMMA ClosingExactStep ==
  ASSUME EInv, [Next]_vars, UNCHANGED <<txns, overlapping>>
  PROVE  ClosingExact'
<1> SUFFICES ASSUME NEW w \in Workers, At(w, "commit")' PROVE RowsExact(w)'
  BY DEF ClosingExact
<1>1. \A n : Ledger(n)' = Ledger(n)
  BY DEF Ledger
<1>2. CASE request'[w] = request[w]
  <2>1. RowsExact(w)
    BY <1>2 DEF EInv, ClosingExact, At
  <2> QED
    BY <1>2, <2>1 DEF RowsExact, Ledger
<1>3. CASE Begun(request'[w])
  <2>1. PICK n, rows : n = request'[w].n /\ rows = request'[w].rows
    OBVIOUS
  <2>2. rows = Ledger(n)
    BY <1>3, <2>1 DEF Begun, At
  <2>3. Changed(rows, Ledger(n)') = {}
    BY <1>1, <2>2, ChangedNothing
  <2> QED
    BY <2>1, <2>3 DEF RowsExact, Ledger
<1> QED
  BY <1>2, <1>3, NewRequest DEF EInv

LEMMA EInvStep == EInv /\ [Next]_vars => SummaryExact' /\ ClosingExact'
<1> SUFFICES ASSUME EInv, [Next]_vars PROVE SummaryExact' /\ ClosingExact'
  OBVIOUS
<1>0. /\ WInv /\ IInv /\ Len(summaries) = Last - 1 /\ Last \in Nat
      /\ \A n \in 1 .. Last - 1 : ~Active(n)
  <2>1. WInv /\ IInv /\ ChainOK /\ Last \in Nat
    BY DEF EInv, WInv, IInv, TypeOK, Last
  <2> QED
    BY <2>1 DEF ChainOK, Summarized, OneActive
<1>1. CASE UNCHANGED <<txns, overlapping>>
  <2>1. ClosingExact'
    BY <1>1, ClosingExactStep
  <2>2. \A n : Ledger(n)' = Ledger(n)
    BY <1>1 DEF Ledger
  <2>3. ASSUME UNCHANGED summaries PROVE SummaryExact'
    <3>1. PICK s : s = summaries /\ s = summaries'
      BY <2>3
    <3>2. \A n \in 1 .. Len(s) :
            /\ Changed(s[n].totals, Ledger(n)) \subseteq overlapping
            /\ Changed(s[n].breakdown, Ledger(n)) \subseteq overlapping
      BY <3>1 DEF EInv, SummaryExact
    <3>3. \A n \in 1 .. Len(s) :
            /\ Changed(s[n].totals, Ledger(n)') \subseteq overlapping'
            /\ Changed(s[n].breakdown, Ledger(n)') \subseteq overlapping'
      BY <1>1, <2>2, <3>2
    <3> SUFFICES
          ASSUME NEW n \in 1 .. Len(summaries')
          PROVE  /\ Changed(summaries'[n].totals, Ledger(n)') \subseteq overlapping'
                 /\ Changed(summaries'[n].breakdown, Ledger(n)') \subseteq overlapping'
      BY DEF SummaryExact
    <3> QED
      BY <3>1, <3>3
  <2>4. ASSUME NEW w \in Workers, CommitClose(w),
               Len(summaries') = Last,
               \A n \in 1 .. Last - 1 : summaries'[n] = summaries[n],
               summaries'[Last].totals = request[w].rows,
               summaries'[Last].breakdown = Ledger(Last)
        PROVE  SummaryExact'
    <3>1. request[w].n = Last /\ At(w, "commit")
      BY <1>0, <2>4, ClosingCharted DEF CommitClose
    <3>2. Changed(request[w].rows, Ledger(Last)) \subseteq overlapping
      BY <3>1 DEF EInv, ClosingExact, RowsExact
    <3>3. Changed(Ledger(Last), Ledger(Last)) \subseteq overlapping
      BY ChangedNothing
    <3>4. \A n \in 1 .. Last - 1 :
            /\ Changed(summaries[n].totals, Ledger(n)) \subseteq overlapping
            /\ Changed(summaries[n].breakdown, Ledger(n)) \subseteq overlapping
      BY <1>0 DEF EInv, SummaryExact
    <3> SUFFICES ASSUME NEW n \in 1 .. Last
                 PROVE  /\ Changed(summaries'[n].totals, Ledger(n)) \subseteq overlapping
                        /\ Changed(summaries'[n].breakdown, Ledger(n)) \subseteq overlapping
      BY <1>1, <2>2, <2>4 DEF SummaryExact
    <3>5. CASE n = Last
      BY <2>4, <3>2, <3>3, <3>5
    <3>6. CASE n # Last
      <4>1. n \in 1 .. Last - 1
        BY <1>0, <3>6
      <4> QED
        BY <2>4, <3>4, <4>1
    <3> QED
      BY <3>5, <3>6
  <2> QED
    BY <1>0, <2>1, <2>3, <2>4, SummariesFrame, CloseSummary
<1>2. ASSUME NEW w \in Clients, CommitTransaction(w)
      PROVE  SummaryExact' /\ ClosingExact'
  <2>1. UNCHANGED summaries
    BY <1>2 DEF CommitTransaction
  <2>2. SummaryExact'
    <3> SUFFICES ASSUME NEW n \in 1 .. Len(summaries)
                 PROVE  /\ Changed(summaries[n].totals, Ledger(n)') \subseteq overlapping'
                        /\ Changed(summaries[n].breakdown, Ledger(n)') \subseteq overlapping'
      BY <2>1 DEF SummaryExact
    <3>1. ~Active(n)
      BY <1>0
    <3>2. /\ Changed(summaries[n].totals, Ledger(n)) \subseteq overlapping
          /\ Changed(summaries[n].breakdown, Ledger(n)) \subseteq overlapping
      BY DEF EInv, SummaryExact
    <3> QED
      BY <1>0, <1>2, <3>1, <3>2, StaysExact
  <2>3. ClosingExact'
    <3> SUFFICES ASSUME NEW v \in Workers, At(v, "commit")'
                 PROVE  RowsExact(v)'
      BY DEF ClosingExact
    <3>1. request'[v] = request[v] /\ At(v, "commit")
      <4>1. /\ request' = [request EXCEPT ![w] = [Idle EXCEPT !.pc = "refresh",
                                                              !.n = request[w].n]]
            /\ DOMAIN request = Workers /\ w \in Workers
        BY <1>0, <1>2, CommitFacts
      <4>2. request'[w].pc = "refresh"
        BY <4>1 DEF Idle
      <4> QED
        BY <4>1, <4>2 DEF At
    <3>2. Locked(request[v].n)
      BY <3>1 DEF Locked, Closing, At
    <3>3. Changed(request[v].rows, Ledger(request[v].n)) \subseteq overlapping
      BY <3>1 DEF EInv, ClosingExact, RowsExact
    <3>4. PICK n, rows : n = request[v].n /\ rows = request[v].rows
      OBVIOUS
    <3>5. Changed(rows, Ledger(n)') \subseteq overlapping'
      BY <1>0, <1>2, <3>2, <3>3, <3>4, StaysExact
    <3> QED
      BY <3>1, <3>4, <3>5 DEF RowsExact, Ledger
  <2> QED
    BY <2>2, <2>3
<1> QED
  BY <1>1, <1>2, TxnsFrame

(***************************************************************************)
(* ClosePeriodTx reads the period's transactions three times without       *)
(* stopping their writers; still the totals and the breakdowns it stores   *)
(* are those of the ledger, but for transactions whose commit met the      *)
(* close, for any number of clients.                                       *)
(***************************************************************************)
THEOREM SummaryExactCorrect == Spec => []SummaryExact
<1>1. Init => SummaryExact /\ ClosingExact
  BY DEF Init, SummaryExact, ClosingExact, At, Idle
<1>2. Spec => [](SummaryExact /\ ClosingExact)
  BY <1>1, EInvStep, InductiveWInv, PTL DEF Spec, EInv
<1> QED
  BY <1>2, PTL

-----------------------------------------------------------------------------
(* Periods are closed in time.                                             *)

(***************************************************************************)
(* What a request knows of the days: its own is not ahead of its clock,    *)
(* and the last day it saw of the period it closes is over.  Only the      *)
(* first period's last day may be another one by now.                      *)
(***************************************************************************)
Timely(r) ==
  /\ r.day <= today + Skew(r)
  /\ r.pc \in {"close", "totals", "commit"} =>
       /\ r.n \in 1 .. Last /\ r.end < today + Skew(r)
       /\ r.end # periods[r.n].end => r.n = 1

TInv == IInv /\ \A w \in Workers : Timely(request[w])

LEMMA SkewNat == ASSUME NEW r PROVE Skew(r) \in Nat
BY PeriodsNumbers DEF Skew

LEMMA TimelyFresh ==
  ASSUME IInv, NEW r, r.day = 0, r.pc \notin {"close", "totals", "commit"}
  PROVE  Timely(r)
BY SkewNat DEF Timely, IInv, TypeOK

LEMMA TimelyIdle == ASSUME IInv PROVE Timely(Idle)
BY TimelyFresh DEF Idle

\* A request that goes on.
LEMMA TimelyOn ==
  ASSUME NEW q, Timely(q), NEW r, r.op = q.op, r.day = q.day,
         \/ r.pc \notin {"close", "totals", "commit"}
         \/ /\ q.pc \in {"close", "totals", "commit"}
            /\ r.n = q.n /\ r.end = q.end
  PROVE  Timely(r)
BY DEF Timely, Skew

\* The request of w after its step.
LEMMA GotoRequest ==
  ASSUME IInv, NEW w \in Workers, NEW r, Goto(w, r)
  PROVE  /\ request'[w] = r
         /\ \A v \in Workers : v # w => request'[v] = request[v]
BY DEF IInv, TypeOK, Goto

LEMMA ResolveTimely ==
  ASSUME TInv, NEW w \in Workers, Resolve(w) PROVE Timely(request'[w])
<1> DEFINE p == periods[Last]
           q == request[w]
           c == [q EXCEPT !.pc = "close", !.n = Last, !.end = p.end]
           s == [q EXCEPT !.pc = "resolved", !.n = Last, !.end = p.end,
                          !.mode = p.mode]
<1>1. (p.end < q.day /\ Goto(w, c)) \/ Goto(w, Idle) \/ Goto(w, s)
  BY DEF Resolve
<1>2. /\ c.pc = "close" /\ c.n = Last /\ c.end = p.end
      /\ c.op = q.op /\ c.day = q.day
  BY RequestFacts DEF TInv, Requests
<1>3. s.pc = "resolved" /\ s.op = q.op /\ s.day = q.day
  BY RequestFacts DEF TInv, Requests
<1>4. /\ Timely(q) /\ q.day \in Int /\ today \in Int /\ p.end \in Int
      /\ Last \in 1 .. Last
  BY RequestFacts, ActiveLast DEF TInv
<1>5. Skew(c) = Skew(q) /\ Skew(q) \in Nat
  BY <1>2, SkewNat DEF Skew
<1> HIDE DEF c, s
<1>6. p.end < q.day => Timely(c)
  BY <1>2, <1>4, <1>5 DEF Timely
<1>7. Timely(s)
  BY <1>3, <1>4, TimelyOn
<1> QED
  BY <1>1, <1>6, <1>7, TimelyIdle, GotoRequest DEF TInv

LEMMA CloseTimely ==
  ASSUME TInv, NEW w \in Workers, Close(w) PROVE Timely(request'[w])
<1> DEFINE q == request[w]
           c == [q EXCEPT !.pc = "totals"]
           t == [q EXCEPT !.pc = "commit", !.rows = Ledger(q.n)]
           g == [q EXCEPT !.pc = "resolve", !.n = 0, !.end = 0, !.rows = {}]
<1>1. q.pc \in {"close", "totals", "commit"} /\ Timely(q)
  BY DEF Close, ClosePeriod, SummarizeTotals, CommitClose, At, TInv
<1>2. Goto(w, c) \/ Goto(w, t) \/ Goto(w, g) \/ Goto(w, Idle)
  BY DEF Close, ClosePeriod, SummarizeTotals, CommitClose, Finish
<1>3. /\ c.pc = "totals" /\ c.op = q.op /\ c.day = q.day /\ c.n = q.n
      /\ c.end = q.end
      /\ t.pc = "commit" /\ t.op = q.op /\ t.day = q.day /\ t.n = q.n
      /\ t.end = q.end
      /\ g.pc = "resolve" /\ g.op = q.op /\ g.day = q.day
  BY RequestFacts DEF TInv, Requests
<1> HIDE DEF c, t, g
<1>4. Timely(c) /\ Timely(t) /\ Timely(g)
  BY <1>1, <1>3, TimelyOn
<1> QED
  BY <1>2, <1>4, TimelyIdle, GotoRequest DEF TInv

LEMMA StartTimely ==
  ASSUME TInv, NEW w \in Workers, StartResolve(w) \/ UpdateSettings(w)
  PROVE  Timely(request'[w])
<1>0. today \in Int /\ IInv
  BY RequestFacts DEF TInv
<1>1. CASE StartResolve(w)
  <2>1. PICK op \in Ops :
          Goto(w, [Idle EXCEPT !.pc = "resolve", !.op = op, !.day = today])
    BY <1>1 DEF StartResolve
  <2> DEFINE r == [Idle EXCEPT !.pc = "resolve", !.op = op, !.day = today]
  <2>2. r.pc = "resolve" /\ r.day = today
    BY DEF Idle
  <2> HIDE DEF r
  <2>3. Timely(r)
    BY <1>0, <2>2, SkewNat DEF Timely
  <2> QED
    BY <1>0, <2>1, <2>3, GotoRequest DEF r
<1>2. CASE UpdateSettings(w)
  <2>1. PICK op \in {"settings", "mode"}, m \in OfferedModes,
             d \in Durations \cup {settings.duration},
             day \in today .. today + ServerSkew :
          Goto(w, [Idle EXCEPT !.pc = "resolve", !.op = op, !.day = day,
                     !.config = [mode |-> IF op = "mode" THEN m ELSE settings.mode,
                                 duration |-> d]])
    BY <1>2 DEF UpdateSettings
  <2> DEFINE new == [mode |-> IF op = "mode" THEN m ELSE settings.mode,
                     duration |-> d]
             r   == [Idle EXCEPT !.pc = "resolve", !.op = op, !.day = day,
                                 !.config = new]
  <2>2. r.pc = "resolve" /\ r.op \in {"settings", "mode"} /\ r.day = day
    BY <1>0 DEF Idle
  <2> HIDE DEF r
  <2>3. Timely(r)
    BY <1>0, <2>2, PeriodsNumbers DEF Timely, Skew
  <2> QED
    BY <1>0, <2>1, <2>3, GotoRequest DEF r
<1> QED
  BY <1>1, <1>2

LEMMA WriteRowTimely ==
  ASSUME IInv, NEW w \in Workers, NEW t, NEW row, WriteRow(w, t, row)
  PROVE  Timely(request'[w])
<1> DEFINE r == [Idle EXCEPT !.pc = "written", !.n = row.n, !.key = t, !.row = row]
<1>1. r.pc = "written" /\ r.day = 0 /\ Goto(w, r)
  BY DEF Idle, WriteRow
<1> HIDE DEF r
<1> QED
  BY <1>1, TimelyFresh, GotoRequest

LEMMA OtherTimely ==
  ASSUME TInv, NEW w \in Workers,
         \/ CreateTransaction(w) \/ UpdateTransaction(w) \/ DeleteTransaction(w)
         \/ CommitTransaction(w) \/ StartInsights(w) \/ DeleteInsights(w)
         \/ EnsureMutable(w) \/ CheckPristine(w)
  PROVE  Timely(request'[w])
<1>0. IInv /\ Timely(request[w])
  BY DEF TInv
<1>1. CASE CreateTransaction(w) \/ UpdateTransaction(w) \/ DeleteTransaction(w)
  <2>1. Goto(w, Idle) \/ \E t, row : WriteRow(w, t, row)
    BY <1>1 DEF CreateTransaction, UpdateTransaction, DeleteTransaction, Finish
  <2> QED
    BY <1>0, <2>1, WriteRowTimely, TimelyIdle, GotoRequest
<1>2. CASE CommitTransaction(w) \/ StartInsights(w) \/ EnsureMutable(w)
  <2> DEFINE c == [Idle EXCEPT !.pc = "refresh", !.n = request[w].n]
             g == [Idle EXCEPT !.pc = "refresh", !.op = "insights", !.n = Last]
             b(n, k) == [Idle EXCEPT !.pc = "budget", !.n = n, !.key = k]
  <2>1. \/ Goto(w, c) \/ Goto(w, g)
        \/ \E n \in 1 .. Last, k \in Categories : Goto(w, b(n, k))
    BY <1>2 DEF CommitTransaction, StartInsights, EnsureMutable
  <2>2. c.pc = "refresh" /\ c.day = 0 /\ g.pc = "refresh" /\ g.day = 0
    BY DEF Idle
  <2>3. \A n, k : b(n, k).pc = "budget" /\ b(n, k).day = 0
    BY DEF Idle
  <2> HIDE DEF c, g, b
  <2>4. Timely(c) /\ Timely(g) /\ \A n, k : Timely(b(n, k))
    BY <1>0, <2>2, <2>3, TimelyFresh
  <2> QED
    BY <1>0, <2>1, <2>4, GotoRequest
<1>3. CASE DeleteInsights(w)
  <2> DEFINE q == request[w]
             r == [q EXCEPT !.pc = "persist",
                            !.seen = insights[q.n].during \cap
                                     (Clients \X Refreshed(q.op))]
  <2>1. Goto(w, r) \/ Goto(w, Idle)
    BY <1>3 DEF DeleteInsights, Finish
  <2>2. r.pc = "persist" /\ r.op = q.op /\ r.day = q.day
    BY <1>0, RequestFacts DEF Requests
  <2> HIDE DEF r
  <2> QED
    BY <1>0, <2>1, <2>2, TimelyOn, TimelyIdle, GotoRequest
<1>4. CASE CheckPristine(w)
  <2> DEFINE q == request[w]
             r == [q EXCEPT !.pc = "reshape"]
  <2>1. Goto(w, r) \/ Goto(w, Idle)
    BY <1>4 DEF CheckPristine, Finish
  <2>2. r.pc = "reshape" /\ r.op = q.op /\ r.day = q.day
    BY <1>0, RequestFacts DEF Requests
  <2> HIDE DEF r
  <2> QED
    BY <1>0, <2>1, <2>2, TimelyOn, TimelyIdle, GotoRequest
<1> QED
  BY <1>1, <1>2, <1>3, <1>4

LEMMA TimelyMoves ==
  ASSUME TInv, [Next]_vars
  PROVE  \/ UNCHANGED request
         \/ \E w \in Workers :
              /\ Timely(request'[w])
              /\ \A v \in Workers : v # w => request'[v] = request[v]
<1> DEFINE One(w) == /\ Timely(request'[w])
                     /\ \A v \in Workers : v # w => request'[v] = request[v]
<1>0. IInv
  BY DEF TInv
<1>1. ASSUME NEW w \in Workers, Finish(w) PROVE One(w)
  BY <1>0, <1>1, TimelyIdle, GotoRequest DEF Finish
<1>2. ASSUME NEW w \in Workers, NEW r, Goto(w, r)
      PROVE  \A v \in Workers : v # w => request'[v] = request[v]
  BY <1>0, <1>2, GotoRequest
<1>3. CASE SchedulerStep
  <2> DEFINE p == periods[Last]
             r == [Idle EXCEPT !.pc = "close", !.op = "schedule", !.n = Last,
                               !.end = p.end]
  <2>1. Scheduler \in Workers
    BY DEF Workers
  <2>2. CASE StartClose
    <3>1. Goto(Scheduler, r) /\ p.end < today
      BY <2>2 DEF StartClose
    <3>2. r.pc = "close" /\ r.day = 0 /\ r.n = Last /\ r.end = p.end
      BY DEF Idle
    <3>3. 0 <= today /\ today \in Int /\ p.end \in Int
      BY <1>0, <2>1, RequestFacts DEF IInv, TypeOK
    <3> HIDE DEF r
    <3>4. Timely(r)
      BY <1>0, <3>1, <3>2, <3>3, ActiveLast, SkewNat DEF Timely
    <3> QED
      BY <1>0, <2>1, <3>1, <3>4, GotoRequest
  <2>3. CASE Close(Scheduler)
    <3>1. \E q : Goto(Scheduler, q)
      BY <2>3 DEF Close, ClosePeriod, SummarizeTotals, CommitClose, Finish
    <3> QED
      BY <1>2, <2>1, <2>3, <3>1, CloseTimely
  <2>4. CASE Abort(Scheduler)
    BY <1>1, <2>1, <2>4 DEF Abort
  <2> QED
    BY <1>3, <2>2, <2>3, <2>4 DEF SchedulerStep
<1>4. ASSUME NEW w \in Clients, ClientStep(w) PROVE One(w)
  <2>1. w \in Workers
    BY DEF Workers
  <2>2. \E r : Goto(w, r)
    BY <1>0, <1>4, <2>1, ClientMoves DEF Moves, ReshapePeriod, Finish
  <2>3. Finish(w) \/ Timely(request'[w])
    <3>1. CASE Close(w)
      BY <2>1, <3>1, CloseTimely
    <3>2. CASE Resolve(w)
      BY <2>1, <3>2, ResolveTimely
    <3>3. CASE StartResolve(w) \/ UpdateSettings(w)
      BY <2>1, <3>3, StartTimely
    <3>4. CASE \/ CreateTransaction(w) \/ UpdateTransaction(w)
               \/ DeleteTransaction(w) \/ CommitTransaction(w)
               \/ StartInsights(w) \/ DeleteInsights(w) \/ EnsureMutable(w)
               \/ CheckPristine(w)
      BY <2>1, <3>4, OtherTimely
    <3>5. CASE \/ PersistInsights(w) \/ CreateBudget(w) \/ WriteBudget(w)
               \/ ReshapePeriod(w) \/ Abort(w)
      BY <3>5 DEF PersistInsights, CreateBudget, WriteBudget, ReshapePeriod, Abort
    <3> QED
      BY <1>4, <3>1, <3>2, <3>3, <3>4, <3>5 DEF ClientStep
  <2> QED
    BY <1>1, <1>2, <2>1, <2>2, <2>3
<1>5. CASE Midnight \/ UNCHANGED vars
  BY <1>5 DEF Midnight, vars
<1> QED
  BY <1>3, <1>4, <1>5 DEF Next, Workers

\* The commit of w ends the close of the last period.
ClosedBy(w) ==
  /\ Closing(w) /\ ~Closing(w)'
  /\ request[w].n = Last /\ request[w].pc = "commit"

\* Who writes the periods: a close, or a reshape of the first one.
LEMMA PeriodsFrame ==
  ASSUME TInv, [Next]_vars
  PROVE  /\ today' \in Int /\ today <= today'
         /\ \/ UNCHANGED periods
            \/ Last = 1 /\ Last' = 1
            \/ CloseOutcome /\ \E w \in Workers : ClosedBy(w)
<1> DEFINE Reshaped == Last = 1 /\ Last' = 1
           Closed == CloseOutcome /\ \E w \in Workers : ClosedBy(w)
<1>0. IInv /\ today \in Int
  BY DEF TInv, IInv, TypeOK
<1>1. ASSUME NEW w \in Workers, Close(w)
      PROVE  UNCHANGED today /\ (UNCHANGED periods \/ Closed)
  <2>1. CASE ClosePeriod(w) \/ SummarizeTotals(w)
    BY <2>1 DEF ClosePeriod, SummarizeTotals, tables
  <2>2. CASE CommitClose(w)
    <3>1. request[w].n = Last /\ request[w].pc = "commit" /\ Closing(w)
      BY <1>0, <2>2, ClosingCharted DEF CommitClose, At, Closing
    <3>2. ASSUME NEW r, Goto(w, r), r.pc \in {"idle", "resolve"}
          PROVE  ~Closing(w)'
      BY <1>0, <3>2, GotoRequest DEF Closing
    <3> QED
      BY <1>0, <2>2, <3>1, <3>2, CommitCloseOutcome DEF tables, ClosedBy
  <2> QED
    BY <1>1, <2>1, <2>2 DEF Close
<1>2. CASE SchedulerStep
  <2>1. Scheduler \in Workers
    BY DEF Workers
  <2> QED
    BY <1>0, <1>1, <1>2, <2>1 DEF SchedulerStep, StartClose, Abort, tables
<1>3. ASSUME NEW w \in Clients, ClientStep(w)
      PROVE  UNCHANGED today /\ (UNCHANGED periods \/ Reshaped \/ Closed)
  <2>1. w \in Workers
    BY DEF Workers
  <2>2. CASE ReshapePeriod(w)
    BY <1>0, <2>1, <2>2, ReshapeCases DEF ReshapeOutcome
  <2>3. Close(w) \/ ReshapePeriod(w) \/ UNCHANGED <<today, periods>>
    BY <1>3 DEF ClientStep, StartResolve, UpdateSettings, Resolve,
                CreateTransaction, UpdateTransaction, DeleteTransaction,
                CommitTransaction, StartInsights, DeleteInsights,
                PersistInsights, CheckPristine, CreateBudget, EnsureMutable,
                WriteBudget, Abort, tables
  <2> QED
    BY <1>1, <2>1, <2>2, <2>3
<1>4. CASE Midnight \/ UNCHANGED vars
  BY <1>0, <1>4 DEF Midnight, vars, tables
<1> QED
  BY <1>0, <1>2, <1>3, <1>4 DEF Next

LEMMA InductiveTInv == Spec => []TInv
<1>1. Init => TInv
  BY InitIInv, TimelyIdle DEF TInv, Init
<1>2. TInv /\ [Next]_vars => TInv'
  <2> SUFFICES ASSUME TInv, [Next]_vars PROVE TInv'
    OBVIOUS
  <2>1. IInv /\ IInv' /\ today \in Int /\ Last \in 1 .. Last
    BY NextIInv, ActiveLast DEF TInv, IInv, TypeOK
  <2>2. ASSUME NEW r, Timely(r), r \in Requests PROVE Timely(r)'
    <3>1. Skew(r) \in Nat /\ Skew(r)' = Skew(r)
      BY SkewNat DEF Skew
    <3>2. /\ \A n \in 1 .. Last : n \in 1 .. Last'
          /\ \A n \in 1 .. Last : n # 1 => periods'[n].end = periods[n].end
      BY <2>1, PeriodsFrame DEF CloseOutcome, Last
    <3>3. r.day \in Int /\ r.end \in Int /\ r.n \in Nat
      BY <2>2 DEF Requests
    <3>4. r.day <= today' + Skew(r)
      BY <2>1, <2>2, <3>1, <3>3, PeriodsFrame DEF Timely
    <3>5. ASSUME r.pc \in {"close", "totals", "commit"}
          PROVE  /\ r.n \in 1 .. Last' /\ r.end < today' + Skew(r)
                 /\ r.end # periods'[r.n].end => r.n = 1
      BY <2>1, <2>2, <3>1, <3>2, <3>3, <3>5, PeriodsFrame DEF Timely
    <3> QED
      BY <3>1, <3>4, <3>5 DEF Timely
  <2>3. ASSUME NEW v \in Workers PROVE Timely(request[v])'
    <3>1. PICK r : r = request'[v]
      OBVIOUS
    <3>2. r \in Requests
      BY <2>1, <3>1 DEF IInv, TypeOK
    <3>3. Timely(r)
      BY <3>1, TimelyMoves DEF TInv
    <3>4. Timely(r)'
      BY <2>2, <3>2, <3>3
    <3> QED
      BY <3>1, <3>4 DEF Timely, Skew
  <2> QED
    BY <2>1, <2>3 DEF TInv
<1> QED
  BY <1>1, <1>2, PTL DEF Spec

(***************************************************************************)
(* Whoever closes a period, and whatever changes of the settings run at    *)
(* the same time: the last day it saw of it is over by the clock it goes   *)
(* by, the server's for a request that changes the settings, and it is the *)
(* period's last day still, unless it is the user's first period, which a  *)
(* reshape may have lengthened meanwhile.                                  *)
(***************************************************************************)
THEOREM ClosedWhenOverCorrect == Spec => ClosedWhenOver
<1>1. TInv /\ [Next]_vars =>
        [Last' > Last =>
           \E w \in Workers :
             /\ Closing(w) /\ ~Closing(w)'
             /\ request[w].end < today + Skew(request[w])
             /\ request[w].end # periods[Last].end => Last = 1]_vars
  <2> SUFFICES ASSUME TInv, [Next]_vars, Last' > Last
               PROVE  \E w \in Workers :
                        /\ Closing(w) /\ ~Closing(w)'
                        /\ request[w].end < today + Skew(request[w])
                        /\ request[w].end # periods[Last].end => Last = 1
    OBVIOUS
  <2>1. Last \in Nat
    BY RequestFacts DEF TInv, Workers
  <2>2. PICK w \in Workers : ClosedBy(w)
    BY <2>1, PeriodsFrame DEF Last
  <2> QED
    BY <2>2 DEF ClosedBy, TInv, Timely
<1> QED
  BY <1>1, InductiveTInv, PTL DEF Spec, ClosedWhenOver
=============================================================================
