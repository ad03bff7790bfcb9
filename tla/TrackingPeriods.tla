--------------------------- MODULE TrackingPeriods ---------------------------
(***************************************************************************)
(* The life cycle of one user's tracking periods: requests and the close   *)
(* scheduler share a PostgreSQL database (READ COMMITTED), the overdue     *)
(* period is closed by whoever meets it first, and transactions, budgets,  *)
(* settings and insights are written meanwhile.                            *)
(*                                                                         *)
(* The variables are the committed tables.  A statement outside a database *)
(* transaction is one action; ClosePeriodTx, a transaction write and an    *)
(* insight refresh are several, and what they have not committed yet is in *)
(* the request that runs them.  Account balances, which these handlers     *)
(* also adjust, are module Ledger's.  Every query of the code is filtered  *)
(* by user, so one user is enough.                                         *)
(***************************************************************************)
EXTENDS Calendar, Sequences, FiniteSets, FiniteSetsExt

CONSTANTS
  Clients,          \* requests that may be in flight at the same time
  Scheduler,        \* the goroutine of runCloseScheduler
  Ops,              \* the operations clients call, a subset of AllOps
  Txns,             \* transaction ids
  Categories,       \* budget categories
  Durations,        \* values of tracking_duration_days a client may set
  DefaultDuration,  \* defaultDurationDays
  OfferedModes,     \* values of tracking_period_mode a client may set
  ClientDates,      \* transaction dates a client may send
  Amounts,          \* transaction amounts: income > 0, expense < 0
  BudgetAmounts,    \* budget amounts a client may send, in cents
  StartDays,        \* days on which the user may register
  Horizon,          \* bound: the last day the clock reaches
  ServerSkew,       \* 1 if the server's date may be a day ahead of Bogota's
  None              \* no transaction, no category

AllOps == {"read", "create", "update", "delete", "settings", "mode",
           "newBudget", "editBudget", "insights"}

ASSUME PeriodsAssumption ==
  /\ Scheduler \notin Clients
  /\ Ops \subseteq AllOps
  /\ Durations \subseteq MinMonthDays .. MaxMonthDays
  /\ DefaultDuration \in MinMonthDays .. MaxMonthDays
  /\ OfferedModes \subseteq Modes
  /\ ClientDates \subseteq Days
  /\ Amounts \subseteq Int \ {0}
  /\ BudgetAmounts \subseteq Nat \ {0}
  /\ Horizon \in Nat /\ StartDays \subseteq 0 .. Horizon
  /\ ServerSkew \in {0, 1}
  /\ Horizon + ServerSkew + 4 * MaxMonthDays <= LastDay
  /\ None \notin Txns \cup Categories

VARIABLES
  today,      \* the date in America/Bogota
  settings,   \* user_settings: the tracking mode and duration
  periods,    \* tracking_periods by sequence_number
  budgets,    \* budgets of each period, by category; 0 = no budget
  txns,       \* transactions
  summaries,  \* tracking_period_summaries of the closed periods
  insights,   \* tracking_period_insights of each period
  overlapping, \* history: transactions whose commit met the period's close
  request     \* what each request in flight and the scheduler are doing

tables == <<settings, periods, budgets, txns, summaries, insights, overlapping>>
vars   == <<today, tables, request>>

-----------------------------------------------------------------------------
Workers == Clients \cup {Scheduler}
Last    == Len(periods)
Active(n) == periods[n].status = "active"

NoRow == [state |-> "none", n |-> 0, date |-> 0, amount |-> 0]
Idle  == [pc |-> "idle", op |-> "none", day |-> 0, n |-> 0, end |-> 0,
          mode |-> Rolling, config |-> [mode |-> Rolling, duration |-> DefaultDuration],
          key |-> None, row |-> NoRow, rows |-> {}, seen |-> {}]

At(w, pc) == request[w].pc = pc
Goto(w, r) == request' = [request EXCEPT ![w] = r]
Finish(w)  == Goto(w, Idle)

\* The live transactions of period n with their amounts, as committed.
Ledger(n) == {<<t, txns[t].amount>> :
                t \in {x \in Txns : txns[x].state = "live" /\ txns[x].n = n}}

\* ClosePeriodTx holds the row lock of period n from its UPDATE to its commit.
Closing(w) == request[w].pc \in {"totals", "commit"}
Locked(n)  == \E w \in Workers : Closing(w) /\ request[w].n = n

\* A transaction row that w has written and not committed.
Writing(w)   == At(w, "written")
WriteLocked(t) == \E w \in Workers : Writing(w) /\ request[w].key = t

\* Mutant: without the trigger's check of the period's status.
TriggerAcceptsClosed(n, date) ==
  periods[n].start <= date /\ date <= periods[n].end

\* Trigger validate_transaction_period, on the committed period row.
TriggerAccepts(n, date) ==
  /\ Active(n)
  /\ periods[n].start <= date /\ date <= periods[n].end

(***************************************************************************)
(* What the summary stores of a set of ledger rows.  savings_rate is a     *)
(* NUMERIC(5,2), in percent of the income and rounded to two decimals: a   *)
(* rate of -1000 % or less does not fit and the INSERT fails.              *)
(***************************************************************************)
Total(rows)    == MapThenSumSet(LAMBDA r : r[2], rows)
Income(rows)   == Total({r \in rows : r[2] > 0})
Expenses(rows) == -Total({r \in rows : r[2] < 0})

\* Mutant: the rate is computed of a period without income, too.
SavingsRateOfNoIncome(rows) ==
  (Expenses(rows) - Income(rows)) * 20000 < 199999 * Income(rows)

SavingsRateFits(rows) ==
  LET inc == Income(rows)
  IN  inc > 0 => (Expenses(rows) - inc) * 20000 < 199999 * inc

NewPeriod(range, config) ==
  [start |-> range.start, end |-> range.end, transition |-> range.transition,
   mode |-> config.mode, status |-> "active"]

\* What a close of period n opens, under the settings of its commit.
Successor(n) ==
  NewPeriod(NextPeriodRange(periods[n].end, settings.mode, settings.duration),
            settings)

\* The budgets of period n as they are carried over to its successor.
CarriedOver(n) ==
  [c \in Categories |-> Prorate(budgets[n][c], periods[n], Successor(n))]

\* A budget's amount is positive: one that is prorated to 0.00 does not fit.
BudgetsFit(n) ==
  \A c \in Categories : budgets[n][c] > 0 => CarriedOver(n)[c] > 0

-----------------------------------------------------------------------------
(* OnboardUser: settings and the first period, which starts today.         *)
Init ==
  /\ today \in StartDays
  /\ settings = [mode |-> Rolling, duration |-> DefaultDuration]
  /\ periods = <<NewPeriod(FirstPeriodRange(today, Rolling, DefaultDuration),
                           settings)>>
  /\ budgets = <<[c \in Categories |-> 0]>>
  /\ txns = [t \in Txns |-> NoRow]
  /\ summaries = <<>>
  /\ insights = <<[during |-> {}, final |-> FALSE]>>
  /\ overlapping = {}
  /\ request = [w \in Workers |-> Idle]

Midnight ==
  /\ today < Horizon
  /\ today' = today + 1
  /\ UNCHANGED <<tables, request>>

-----------------------------------------------------------------------------
(* Starting a request, and resolving the active period.                    *)

\* Requests that begin with the service's activePeriod loop.
StartResolve(w) ==
  /\ At(w, "idle")
  /\ \E op \in Ops \cap {"read", "create", "newBudget"} :
       Goto(w, [Idle EXCEPT !.pc = "resolve", !.op = op, !.day = today])
  /\ UNCHANGED <<today, tables>>

\* Mutant: without validateSettingsInput.
UpdateSettingsUnvalidated(w) ==
  /\ At(w, "idle")
  /\ \E d \in 0 .. MaxMonthDays :
       /\ settings' = [settings EXCEPT !.duration = d]
       /\ Goto(w, [Idle EXCEPT !.pc = "resolve", !.op = "settings", !.day = today])
  /\ UNCHANGED <<today, periods, budgets, txns, summaries, insights, overlapping>>

\* UserSettingsService.Update writes the row first; its clock is time.Now.
UpdateSettings(w) ==
  /\ At(w, "idle")
  /\ \E op \in Ops \cap {"settings", "mode"}, m \in OfferedModes,
        d \in Durations \cup {settings.duration},
        day \in today .. today + ServerSkew :
       LET mode == IF op = "mode" THEN m ELSE settings.mode
           new  == [mode |-> mode, duration |-> d]
       IN  /\ settings' = new
           /\ Goto(w, [Idle EXCEPT !.pc = "resolve", !.op = op, !.day = day,
                                   !.config = new])
  /\ UNCHANGED <<today, periods, budgets, txns, summaries, insights, overlapping>>

\* Mutant: a period that ends today is due.
StartCloseToday ==
  /\ At(Scheduler, "idle")
  /\ periods[Last].end <= today
  /\ Goto(Scheduler, [Idle EXCEPT !.pc = "close", !.op = "schedule", !.n = Last,
                                  !.end = periods[Last].end])
  /\ UNCHANGED <<today, tables>>

\* One run of CloseDuePeriods: the user's active period, if it is due.
StartClose ==
  /\ At(Scheduler, "idle")
  /\ periods[Last].end < today
  /\ Goto(Scheduler, [Idle EXCEPT !.pc = "close", !.op = "schedule", !.n = Last,
                                  !.end = periods[Last].end])
  /\ UNCHANGED <<today, tables>>

\* One iteration of activePeriod: read the active row, use it or close it.
Resolve(w) ==
  /\ At(w, "resolve")
  /\ LET p == periods[Last]
         r == request[w]
     IN  Goto(w, IF p.end < r.day
                   THEN [r EXCEPT !.pc = "close", !.n = Last, !.end = p.end]
                 ELSE IF r.op \in {"read", "settings"} THEN Idle
                 ELSE [r EXCEPT !.pc = "resolved", !.n = Last,
                                !.end = p.end, !.mode = p.mode])
  /\ UNCHANGED <<today, tables>>

-----------------------------------------------------------------------------
(* ClosePeriodTx.                                                          *)

\* Mutant: without AND status = 'active'.
ClosePeriodBlind(w) ==
  /\ At(w, "close") /\ ~Locked(request[w].n)
  /\ Goto(w, [request[w] EXCEPT !.pc = "totals"])
  /\ UNCHANGED <<today, tables>>

\* Mutant: the status is read by a SELECT, which takes no lock.
ClosePeriodUnlocked(w) ==
  /\ At(w, "close") /\ Active(request[w].n)
  /\ Goto(w, [request[w] EXCEPT !.pc = "totals"])
  /\ UNCHANGED <<today, tables>>

\* UPDATE ... WHERE status = 'active'; no row means ErrNotFound.
ClosePeriod(w) ==
  /\ At(w, "close")
  /\ ~Locked(request[w].n)
  /\ IF Active(request[w].n)
       THEN Goto(w, [request[w] EXCEPT !.pc = "totals"])
       ELSE Finish(w)
  /\ UNCHANGED <<today, tables>>

\* Mutant: without AND deleted_at IS NULL.
SummarizeAllRows(w) ==
  /\ At(w, "totals")
  /\ LET n == request[w].n
     IN  Goto(w, [request[w] EXCEPT !.pc = "commit", !.rows =
                    {<<t, txns[t].amount>> :
                       t \in {x \in Txns : txns[x].state # "none" /\ txns[x].n = n}}])
  /\ UNCHANGED <<today, tables>>

\* SummarizePeriodTotals and the INSERT of the summary row.
SummarizeTotals(w) ==
  /\ At(w, "totals")
  /\ LET rows == Ledger(request[w].n)
     IN  IF SavingsRateFits(rows)
           THEN Goto(w, [request[w] EXCEPT !.pc = "commit", !.rows = rows])
           ELSE Finish(w)
  /\ UNCHANGED <<today, tables>>

\* The rest of ClosePeriodTx, from the breakdowns to the commit.
CommitClose(w) ==
  /\ At(w, "commit")
  /\ LET r == request[w]
     IN  IF BudgetsFit(r.n)
           THEN /\ periods' = Append([periods EXCEPT ![r.n].status = "closed"],
                                     Successor(r.n))
                /\ budgets' = Append(budgets, CarriedOver(r.n))
                /\ summaries' = Append(summaries, [totals |-> r.rows,
                                                   breakdown |-> Ledger(r.n)])
                /\ insights' = Append([insights EXCEPT ![r.n] =
                                         [during |-> {}, final |-> TRUE]],
                                      [during |-> {}, final |-> FALSE])
                /\ IF r.op = "schedule" THEN Finish(w)
                   ELSE Goto(w, [r EXCEPT !.pc = "resolve", !.n = 0, !.end = 0,
                                          !.rows = {}])
           ELSE /\ Finish(w)
                /\ UNCHANGED <<periods, budgets, summaries, insights>>
  /\ UNCHANGED <<today, settings, txns, overlapping>>

-----------------------------------------------------------------------------
(* Transactions: the row is written under the trigger, then committed.     *)

WriteRow(w, t, row) ==
  Goto(w, [Idle EXCEPT !.pc = "written", !.n = row.n, !.key = t, !.row = row])

\* TransactionService.Create in the period that was resolved.
CreateTransaction(w) ==
  /\ At(w, "resolved") /\ request[w].op = "create"
  /\ \E t \in Txns, d \in ClientDates, a \in Amounts :
       LET n == request[w].n
       IN  /\ txns[t].state = "none" /\ ~WriteLocked(t)
           /\ IF d <= request[w].end /\ TriggerAccepts(n, d)
                THEN WriteRow(w, t, [state |-> "live", n |-> n, date |-> d,
                                     amount |-> a])
                ELSE Finish(w)
  /\ UNCHANGED <<today, tables>>

\* TransactionService.Update: a new date and amount, in the same period.
UpdateTransaction(w) ==
  /\ At(w, "idle") /\ "update" \in Ops /\ w \in Clients
  /\ \E t \in Txns, d \in ClientDates, a \in Amounts :
       /\ txns[t].state = "live" /\ ~WriteLocked(t)
       /\ TriggerAccepts(txns[t].n, d)
       /\ WriteRow(w, t, [txns[t] EXCEPT !.date = d, !.amount = a])
  /\ UNCHANGED <<today, tables>>

\* TransactionService.Delete: the trigger fires on this UPDATE too.
DeleteTransaction(w) ==
  /\ At(w, "idle") /\ "delete" \in Ops /\ w \in Clients
  /\ \E t \in Txns :
       /\ txns[t].state = "live" /\ ~WriteLocked(t)
       /\ TriggerAccepts(txns[t].n, txns[t].date)
       /\ WriteRow(w, t, [txns[t] EXCEPT !.state = "deleted"])
  /\ UNCHANGED <<today, tables>>

\* The commit; the during insights are refreshed in a transaction of its own.
CommitTransaction(w) ==
  /\ Writing(w)
  /\ LET r == request[w]
     IN  /\ txns' = [txns EXCEPT ![r.key] = r.row]
         /\ overlapping' = IF Active(r.n) /\ ~Locked(r.n) THEN overlapping
                           ELSE overlapping \cup {r.key}
         /\ Goto(w, [Idle EXCEPT !.pc = "refresh", !.n = r.n])
  /\ UNCHANGED <<today, settings, periods, budgets, summaries, insights>>

-----------------------------------------------------------------------------
(* During insights: a transaction write refreshes the immediate ones, GET  *)
(* insights all.  A row is named by who generated it and its kind.         *)

Kinds == {"immediate", "lazy"}
Refreshed(op) == IF op = "insights" THEN Kinds ELSE {"immediate"}

\* GetInsights on the active period.
StartInsights(w) ==
  /\ At(w, "idle") /\ "insights" \in Ops /\ w \in Clients
  /\ Goto(w, [Idle EXCEPT !.pc = "refresh", !.op = "insights", !.n = Last])
  /\ UNCHANGED <<today, tables>>

\* Mutant: without the check of the period's status.
DeleteInsightsUnchecked(w) ==
  /\ At(w, "refresh")
  /\ Goto(w, [request[w] EXCEPT !.pc = "persist",
             !.seen = insights[request[w].n].during \cap
                        (Clients \X Refreshed(request[w].op))])
  /\ UNCHANGED <<today, tables>>

\* The status check and the DELETE, which sees the committed rows.
DeleteInsights(w) ==
  /\ At(w, "refresh")
  /\ LET r == request[w]
     IN  IF Active(r.n)
           THEN Goto(w, [r EXCEPT !.pc = "persist",
                                  !.seen = insights[r.n].during \cap
                                           (Clients \X Refreshed(r.op))])
           ELSE Finish(w)
  /\ UNCHANGED <<today, tables>>

\* The INSERTs and the commit.  The data may call for no insight at all.
PersistInsights(w) ==
  /\ At(w, "persist")
  /\ LET r == request[w]
     IN  \E new \in {{}, {w} \X Refreshed(r.op)} :
           insights' = [insights EXCEPT ![r.n].during = (@ \ r.seen) \cup new]
  /\ Finish(w)
  /\ UNCHANGED <<today, settings, periods, budgets, txns, summaries, overlapping>>

-----------------------------------------------------------------------------
(* The onboarding carve-out: reshapePristineFirstPeriod.                   *)

\* Mutant: without the condition that the period is the user's first.
CheckPristineAny(w) ==
  /\ At(w, "resolved") /\ request[w].op = "mode"
  /\ LET r == request[w]
     IN  IF r.config.mode # r.mode /\ Ledger(r.n) = {}
           THEN Goto(w, [r EXCEPT !.pc = "reshape"])
           ELSE Finish(w)
  /\ UNCHANGED <<today, tables>>

CheckPristine(w) ==
  /\ At(w, "resolved") /\ request[w].op = "mode"
  /\ LET r == request[w]
     IN  IF r.n = 1 /\ r.mode # r.config.mode /\ Ledger(r.n) = {}
           THEN Goto(w, [r EXCEPT !.pc = "reshape"])
           ELSE Finish(w)
  /\ UNCHANGED <<today, tables>>

\* UPDATE ... WHERE status = 'active': it waits for a close to end.
ReshapePeriod(w) ==
  /\ At(w, "reshape")
  /\ ~Locked(request[w].n)
  /\ LET r     == request[w]
         range == FirstPeriodRange(periods[r.n].start, r.config.mode,
                                   r.config.duration)
     IN  periods' = IF Active(r.n)
                      THEN [periods EXCEPT ![r.n] = NewPeriod(range, r.config)]
                      ELSE periods
  /\ Finish(w)
  /\ UNCHANGED <<today, settings, budgets, txns, summaries, insights, overlapping>>

-----------------------------------------------------------------------------
(* Budgets: the period's status is checked before the write, not by it.    *)

SetBudget(n, c, amount) == budgets' = [budgets EXCEPT ![n][c] = amount]

\* Unique per period and category: a second one is refused.
CreateBudget(w) ==
  /\ At(w, "resolved") /\ request[w].op = "newBudget"
  /\ \E c \in Categories, a \in BudgetAmounts :
       IF budgets[request[w].n][c] = 0 THEN SetBudget(request[w].n, c, a)
                                       ELSE UNCHANGED budgets
  /\ Finish(w)
  /\ UNCHANGED <<today, settings, periods, txns, summaries, insights, overlapping>>

\* Mutant: without ensureMutable's check of the status.
EnsureNothing(w) ==
  /\ At(w, "idle") /\ "editBudget" \in Ops /\ w \in Clients
  /\ \E n \in 1 .. Last, c \in Categories :
       /\ budgets[n][c] > 0
       /\ Goto(w, [Idle EXCEPT !.pc = "budget", !.n = n, !.key = c])
  /\ UNCHANGED <<today, tables>>

EnsureMutable(w) ==
  /\ At(w, "idle") /\ "editBudget" \in Ops /\ w \in Clients
  /\ \E n \in 1 .. Last, c \in Categories :
       /\ budgets[n][c] > 0 /\ Active(n)
       /\ Goto(w, [Idle EXCEPT !.pc = "budget", !.n = n, !.key = c])
  /\ UNCHANGED <<today, tables>>

\* UpdateBudget or, with amount 0, DeleteBudget of the row that was checked.
WriteBudget(w) ==
  /\ At(w, "budget")
  /\ LET n == request[w].n
         c == request[w].key
     IN  IF budgets[n][c] > 0
           THEN \E a \in BudgetAmounts \cup {0} : SetBudget(n, c, a)
           ELSE UNCHANGED budgets
  /\ Finish(w)
  /\ UNCHANGED <<today, settings, periods, txns, summaries, insights, overlapping>>

-----------------------------------------------------------------------------
(* A validation error, a lost connection or a crash: the database          *)
(* transaction, if one is open, is rolled back.                            *)
Abort(w) ==
  /\ ~At(w, "idle")
  /\ Finish(w)
  /\ UNCHANGED <<today, tables>>

Close(w) == ClosePeriod(w) \/ SummarizeTotals(w) \/ CommitClose(w)

ClientStep(w) ==
  \/ StartResolve(w) \/ UpdateSettings(w) \/ Resolve(w) \/ Close(w)
  \/ CreateTransaction(w) \/ UpdateTransaction(w) \/ DeleteTransaction(w)
  \/ CommitTransaction(w)
  \/ StartInsights(w) \/ DeleteInsights(w) \/ PersistInsights(w)
  \/ CheckPristine(w) \/ ReshapePeriod(w)
  \/ CreateBudget(w) \/ EnsureMutable(w) \/ WriteBudget(w)
  \/ Abort(w)

SchedulerStep == StartClose \/ Close(Scheduler) \/ Abort(Scheduler)

Next == Midnight \/ SchedulerStep \/ \E w \in Clients : ClientStep(w)

Spec == Init /\ [][Next]_vars

(***************************************************************************)
(* The scheduler runs on startup and every hour, and its attempts are not  *)
(* lost to errors for ever: from some time on the database is available to *)
(* it.  A lock that is waited for is granted, its queue being first in,    *)
(* first out.  A client's database transaction that closes a period ends,  *)
(* by commit or by rollback.                                               *)
(***************************************************************************)
Fairness ==
  /\ WF_vars(StartClose)
  /\ SF_vars(Close(Scheduler))
  /\ <>[][Abort(Scheduler) => Close(Scheduler)]_vars
  /\ \A w \in Clients : WF_vars(Closing(w) /\ (Close(w) \/ Abort(w)))

FairSpec == Spec /\ Fairness

-----------------------------------------------------------------------------
(* Type correctness.                                                       *)

Configs    == [mode : Modes, duration : MinMonthDays .. MaxMonthDays]
PeriodRows == [start : Days, end : Days, transition : BOOLEAN, mode : Modes,
               status : {"active", "closed"}]
TxnRows    == [state : {"none", "live", "deleted"}, n : Nat, date : Days,
               amount : Int]
LedgerRows == SUBSET (Txns \X Int)
DuringRows == SUBSET (Clients \X Kinds)
Requests   ==
  [pc : {"idle", "resolve", "close", "totals", "commit", "resolved", "written",
         "refresh", "persist", "reshape", "budget"},
   op : AllOps \cup {"none", "schedule"}, day : Int, n : Nat, end : Int,
   mode : Modes, config : Configs, key : Txns \cup Categories \cup {None},
   row : TxnRows, rows : LedgerRows, seen : DuringRows]

\* Every row and every request in flight holds values of its column types.
TypeOK ==
  /\ today \in 0 .. Horizon
  /\ settings \in Configs
  /\ periods \in Seq(PeriodRows)
  /\ budgets \in Seq([Categories -> Nat])
  /\ txns \in [Txns -> TxnRows]
  /\ summaries \in Seq([totals : LedgerRows, breakdown : LedgerRows])
  /\ insights \in Seq([during : DuringRows, final : BOOLEAN])
  /\ overlapping \in SUBSET Txns
  /\ request \in [Workers -> Requests]

-----------------------------------------------------------------------------
(* The chain of periods.                                                   *)

\* Each period begins the day after its predecessor ends.
Contiguous == \A n \in 1 .. Last - 1 : periods[n + 1].start = periods[n].end + 1

\* Exactly the last period is active.
OneActive == Last >= 1 /\ \A n \in 1 .. Last : Active(n) <=> n = Last

\* Exactly the closed periods have a summary and final insights.
Summarized ==
  /\ Len(summaries) = Last - 1
  /\ Len(insights) = Last /\ Len(budgets) = Last
  /\ \A n \in 1 .. Last : insights[n].final <=> n < Last

(***************************************************************************)
(* However many requests and the scheduler race to close a period, the     *)
(* user has one active period, at the end of a chain without gaps or       *)
(* overlaps, and every closed period was summarised exactly once.          *)
(***************************************************************************)
ChainOK == Contiguous /\ OneActive /\ Summarized

(***************************************************************************)
(* Between its UPDATE and its commit a close is alone: the period it       *)
(* closes is the last one, still active, and nobody else is closing.       *)
(***************************************************************************)
CloseExclusive ==
  \A w \in Workers : Closing(w) =>
    /\ request[w].n = Last /\ Active(Last)
    /\ \A v \in Workers : Closing(v) => v = w

(***************************************************************************)
(* Whatever sequence of settings changes, closes and reshapes led to it, a *)
(* period satisfies chk_duration_range, and a transition period has the    *)
(* floor and the ceiling that minBridgeDays promises (15 to 45 days).      *)
(***************************************************************************)
DurationsOK ==
  \A n \in 1 .. Last :
    /\ DurationInRange(periods[n])
    /\ periods[n].transition =>
         InclusiveDays(periods[n].start, periods[n].end) \in
           MinBridgeDays .. MaxMonthDays + MinBridgeDays - 1

\* How far ahead of Bogota's the clock may be that request r goes by.
Skew(r) == IF r.op \in {"settings", "mode"} THEN ServerSkew ELSE 0

(***************************************************************************)
(* A period is closed only after its last day (main.go:209), with two      *)
(* exceptions: a request that changes the settings goes by the server's    *)
(* date, which may be a day ahead (user_settings.go:100), and the user's   *)
(* first period may be reshaped between the close's reading that it is     *)
(* over and its UPDATE, which does not look at the dates again             *)
(* (tracking_periods.sql:28); the close had then seen another last day,    *)
(* and that one was over.                                                  *)
(***************************************************************************)
ClosedWhenOver ==
  [][Last' > Last =>
       \E w \in Workers :
         /\ Closing(w) /\ ~Closing(w)'
         /\ request[w].end < today + Skew(request[w])
         /\ request[w].end # periods[Last].end => Last = 1]_vars

-----------------------------------------------------------------------------
(* The ledger of a closed period and its summary.                          *)

\* Some request has written a transaction of period n without committing it.
WriteInFlight(n) == \E w \in Clients : Writing(w) /\ request[w].n = n

(***************************************************************************)
(* The trigger keeps every write out of a closed period but those that     *)
(* were already under way when it closed: once these have ended, none      *)
(* begins, and the period's transactions no longer change.                 *)
(***************************************************************************)
ClosedLedgerSettles ==
  [][\A n \in 1 .. Last :
       ~Active(n) /\ ~WriteInFlight(n) =>
         ~WriteInFlight(n)' /\ Ledger(n)' = Ledger(n)]_vars

Changed(a, b) == {r[1] : r \in (a \ b) \cup (b \ a)}

(***************************************************************************)
(* The totals of a closed period and its breakdowns are those of the       *)
(* period's transactions, but for transactions that committed while it was *)
(* being closed or that were under way when it was.                        *)
(***************************************************************************)
SummaryExact ==
  \A n \in 1 .. Len(summaries) :
    /\ Changed(summaries[n].totals, Ledger(n)) \subseteq overlapping
    /\ Changed(summaries[n].breakdown, Ledger(n)) \subseteq overlapping

-----------------------------------------------------------------------------
(* Budgets and insights of a closed period.                                *)

\* Some request has checked that period n is active and will write a budget.
BudgetInFlight(n) ==
  \E w \in Clients :
    /\ request[w].n = n
    /\ At(w, "budget") \/ (At(w, "resolved") /\ request[w].op = "newBudget")

\* Some request has deleted the during insights of n and will insert new ones.
RefreshInFlight(n) == \E w \in Clients : At(w, "persist") /\ request[w].n = n

(***************************************************************************)
(* A closed period's budgets change only through requests that checked it  *)
(* while it was active; once these have ended they no longer change.       *)
(***************************************************************************)
ClosedBudgetsSettle ==
  [][\A n \in 1 .. Last :
       ~Active(n) /\ ~BudgetInFlight(n) =>
         ~BudgetInFlight(n)' /\ budgets'[n] = budgets[n]]_vars

(***************************************************************************)
(* The same of its insights: only a refresh that was under way when the    *)
(* period closed can still change them.                                    *)
(***************************************************************************)
ClosedInsightsSettle ==
  [][\A n \in 1 .. Last :
       ~Active(n) /\ ~RefreshInFlight(n) =>
         ~RefreshInFlight(n)' /\ insights'[n] = insights[n]]_vars

-----------------------------------------------------------------------------
(* Keeping up with the calendar.                                           *)

Overdue == periods[Last].end < today

\* Expenses of 10.99995 times the income or more: a savings rate of -1000.00.
Overspent ==
  LET rows == Ledger(Last)
  IN  Income(rows) > 0 /\ 20000 * Expenses(rows) >= 219999 * Income(rows)

\* A budget whose share of a period of the other kind is less than 0.005.
Vanishing ==
  LET old == periods[Last]
      new == Successor(Last)
  IN  /\ old.transition # new.transition
      /\ \E c \in Categories :
           /\ budgets[Last][c] > 0
           /\ 2 * budgets[Last][c] * InclusiveDays(new.start, new.end)
                < InclusiveDays(old.start, old.end)

(***************************************************************************)
(* An overdue period is eventually closed, by the scheduler if nobody else *)
(* comes, until the active period is a current one, except while one of    *)
(* two figures makes every attempt fail: a savings rate of -1000 % or      *)
(* less, that is expenses of about eleven times the income, which does not *)
(* fit NUMERIC(5,2) (store_periods.go:262), or a budget so small that its  *)
(* share of the next period is 0.00, which CHECK (amount > 0) refuses      *)
(* (store_periods.go:90).                                                  *)
(***************************************************************************)
PeriodsKeepUp == Overdue ~> ~Overdue \/ Overspent \/ Vanishing

-----------------------------------------------------------------------------
(* What the subsystem promises: module PeriodHistory.                      *)

Terms(p) == [start |-> p.start, end |-> p.end, mode |-> p.mode,
             transition |-> p.transition]
History == [n \in 1 .. Last - 1 |->
             [period |-> Terms(periods[n]), summary |-> summaries[n]]]
Current == Terms(periods[Last])

Book == INSTANCE PeriodHistory WITH
          history <- History, current <- Current,
          Lengths <- MinBridgeDays .. MaxMonthDays + MinBridgeDays - 1

(***************************************************************************)
(* Closes, settings changes and reshapes, in whatever order requests and   *)
(* the scheduler interleave them, do what PeriodHistory promises: periods  *)
(* without gaps or overlaps, closed periods and their summaries never      *)
(* altered, and (domain rule 8) no change of settings that reaches back    *)
(* into an existing period, the user's first while it is the only one      *)
(* excepted.                                                               *)
(***************************************************************************)
KeepsHistory == Book!Spec
=============================================================================
