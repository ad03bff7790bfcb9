# Balvia backend: a TLA+ verification project

Balvia is a personal-finance backend: one Go process (`cmd/api`), one
PostgreSQL database, HTTP clients on phones.  Money is recorded in *tracking
periods* that roll over by themselves; a closed period is meant to be
immutable.  The database runs at READ COMMITTED and there is no application
lock anywhere, so what keeps the data right is the conditions in the SQL
statements, three triggers, a few unique indexes, and the order of statements.

This directory models that: the modules are translated from the Go services,
the SQL queries and the migrations; TLC checks them on small instances; TLAPS
proves the core results for every instance.  Paths below are relative to the
repository's root.  `PROJECT.json` lists, definition by definition, the source
lines each one stands for, the runs, the hazards and the findings.

## 1. Inventory

| Component | State | Operations | Where |
|---|---|---|---|
| Period domain | none (date arithmetic) | first and next range, bridges, lengths | `internal/domain/period.go` |
| Period close | `tracking_periods`, `tracking_period_summaries`, `tracking_period_insights`, `budgets` | `ClosePeriodTx`: close, summarise, create the next period, carry the budgets over, final insights | `internal/database/store_periods.go` |
| Close scheduler | none of its own | `CloseDuePeriods` on start and every hour | `cmd/api/main.go`, `internal/services/period.go` |
| Period queries | none | list, summary, sub-period blocks, insights | `internal/services/tracking_period.go` |
| User settings | `user_settings` | update; reshape of a pristine first period | `internal/services/user_settings.go` |
| Transactions | `transactions`, `accounts.current_balance` | create, update, delete | `internal/services/transaction.go`, `internal/database/store_transactions.go` |
| Accounts | `accounts` | create, restate, rename, delete | `internal/services/account.go` |
| Budgets | `budgets` | create, update, delete in a period | `internal/services/budget.go` |
| During insights | `tracking_period_insights` | refresh after a write (immediate) or on read (all) | `internal/database/store_insights.go` |
| Recurring templates | `recurring_transactions` | create, replace, delete; first due date | `internal/services/recurring_transaction.go` |
| Recurring engine | `transactions`, `recurring_transactions` | catch-up, hourly and on the listing request | `internal/services/recurring_engine.go`, `internal/database/store_recurring.go` |
| Onboarding | user, settings, first period, accounts | register and create everything in one transaction | `internal/services/onboarding.go` |
| Sync pull | none; `updated_at` of every table, the client's cursor | changes since a time, in pages | `internal/services/sync.go`, `internal/handlers/sync.go` |
| Sync push | none; `client_id` of transactions, `updated_at` of every table | a batch of changes made offline, replayed item by item | `internal/services/sync.go`, `sync_push_entities.go` |
| Savings goals | `savings_goals`, contributions | CRUD, contribute, achieve | `internal/services/savings_goal.go`, `internal/database/store_savings_goals.go` |
| Authentication | `users`, `refresh_tokens` | register, log in, rotate, revoke | `internal/services/auth.go`, `internal/handlers/auth.go` |
| Insight generators | none (functions of the period's aggregates) | during and final insights | `internal/database/analytics.go`, `analytics_during.go` |
| Categories | `categories` | CRUD | `internal/services/category.go` |
| AI, crypto, config, middleware, handlers, sqlc | none shared | see section 8 | `internal/ai`, ... |

**How they interact.**  Every request is a goroutine that calls one service,
which calls the store; two more goroutines run the close scheduler and the
recurring scheduler.  They share nothing but the database.  Almost every
operation first *resolves the active period*: it reads it, closes it through
`ClosePeriodTx` if it ended before today, and repeats.  The period that comes
out of this loop is then used in later statements.  A trigger refuses a
transaction row whose period is not active or whose date is outside of it.
`ClosePeriodTx` reads transactions, settings and budgets and writes
everything else.  A transaction write refreshes the during insights after its
own commit.  The recurring engine resolves the period, then inserts
transactions through the same trigger and the same balance adjustment.  A
contribution to a goal is booked in the active period too, but no trigger looks
at it.  Push calls the same services as the REST endpoints; pull reads every
table, one query after the other.

**What is hard here.**

* several requests and the scheduler closing the same period;
* a period resolved in one statement, used in another, closed or reshaped in
  between;
* a summary made of several statements while writes that passed the trigger
  are still to commit;
* balances that are only ever shifted, never recomputed;
* a template advanced from a snapshot by two runs, or under a PUT;
* bridges, short months, leap years, rounding, columns with few digits;
* failures half-way, which must leave everything to be tried again, and a
  scheduler that must get there in the end;
* phones that go offline: answers are lost and requests sent again while their
  first run is still under way; pages of a pull are read at different times and
  ordered by a clock that is older than the commit it orders;
* two families of insights, with thresholds and roundings of their own, that
  speak about the same period.

**What makes each part correct.**  Periods: one active, no gap, no overlap,
legal lengths, closed once and only when over, closed ones immutable, summary
equal to ledger, settings never reach back, overdue ones eventually closed.
Ledger: balance = opening balance + live movements; no history rewritten by an
opening balance.  Recurring: each occurrence at most once, none skipped,
none after the end or deletion, dates without drift, and the engine catches
up.  Pull: a client that goes on pulling has
everything, except what is named.  Push: what is created once is created once,
except what is named, and the answer is true.  Goals: amount = sum of contributions; achieved when
reached.  Sessions: one usable token each.  Insights: what is said during a
period and at its close goes together.

## 2. Modules

```
Calendar ---+-- PeriodWalk -----.
   |        `-- RecurringDates -+------ MCDates (MCGregorian)
   |                            `- DatesProofs
   `---- TrackingPeriods ------------- MCTrackingPeriods
              |   `- INSTANCE PeriodHistory     (abstract)
              `- TrackingPeriodsProofs
Ledger -------- INSTANCE AtomicLedger (abstract) --- MCLedger
   `- LedgerProofs
SavingsGoals -.------------------------ MCSavingsGoals
              |- TotalsProofs
Insights -----'------------------------ MCInsights
RecurringEngine (checked as it is) --- RecurringEngineProofs
SyncPull ------ SyncPullProofs -------- MCSyncPull
SyncPush ------ SyncPushProofs -------- MCSyncPush
Sessions ------ SessionsProofs -------- MCSessions
```

**Calendar** has the date arithmetic as pure operators: `FirstPeriodRange`,
`NextPeriodRange`, `BridgeEnd` (`period.go`), `Prorate` (the budget factor of
`store_periods.go`), `SubPeriods` (the blocks of a biweekly or weekly view).  A
date is a day number, and the Gregorian calendar is two functions,
`FirstOfMonth` and `EndOfMonth`, with the assumption that months have
`MinMonthDays .. MaxMonthDays` days and follow one another.

**PeriodWalk** is the chain of periods of one user through years, with mode and
duration chosen freely at each close.  It looks at dates alone.

**TrackingPeriods** is the core.  Its variables are the committed tables plus
one record per request in flight.  A statement outside of a database
transaction is one action.  `ClosePeriodTx` is three (`ClosePeriod`, which
takes the row lock or finds the period closed; `SummarizeTotals`;
`CommitClose`), because a transaction that commits between its statements is
seen by some and not by others.  A transaction write is two (the INSERT or
UPDATE under the trigger, the COMMIT), followed by the insight refresh, again
two (status check and DELETE, INSERTs with COMMIT).  A settings update is four
(write the row; the `activePeriod` loop; the pristine check; the reshape).
`Abort` ends any request at any point and drops what it has not committed: it
stands for validation errors, lost connections and crashes.

| Code | Action |
|---|---|
| `TransactionService.activePeriod` and its copies in other services | `StartResolve`, `Resolve`, and back to `Resolve` from `CommitClose` |
| `PeriodService.CloseDuePeriods` | `StartClose`, `Close(Scheduler)` |
| `SQLStore.ClosePeriodTx` | `ClosePeriod`, `SummarizeTotals`, `CommitClose` |
| `TransactionService.Create/Update/Delete` | `CreateTransaction`, `UpdateTransaction`, `DeleteTransaction`, `CommitTransaction` |
| `RefreshImmediateDuringInsights`, `RefreshAllDuringInsights` | `StartInsights`, `DeleteInsights`, `PersistInsights` |
| `UserSettingsService.Update`, `reshapePristineFirstPeriod` | `UpdateSettings`, `Resolve`, `CheckPristine`, `ReshapePeriod` |
| `BudgetService.Create/Update/Delete` | `CreateBudget`; `EnsureMutable`, `WriteBudget` |
| `OnboardingService.Onboard` | `Init` |

**PeriodHistory** is the abstract promise: a book of closed periods with their
summaries that only grows, and one current period that continues it, and whose
end and mode may be chosen anew only while the book is empty.
`TrackingPeriods` implements it with the mapping `History`, `Current`.

**Ledger** has accounts, transactions and requests at the grain of SQL
statements.  What a database transaction has not committed, its balance
adjustments included, is in `request`; the domain of `delta` is the set of
account rows it has locked.  An edit reads the old row (`ReadOld`, no lock),
takes its effect back (`Adjust`), writes the row (`Rewrite`), applies the new
effect (`Adjust`), commits.  Creation and deletion write the row first.
`CountMovements` and `UpdateAccount` are the two statements of a restated
opening balance.

**AtomicLedger** is its abstract form: a change of a transaction and of all the
balances it touches is one step.  `Ledger` implements it with the identity
mapping of the two tables; the requests are hidden.

**RecurringEngine** is the catch-up loop of one template.  `ListDue` takes the
snapshot the run works on; `ResolveActivePeriod` closes what is over; each
occurrence then is the idempotency check (`HasTransactionForDate`), the insert
(`CreateTransaction`, which waits on the unique index for another run's
uncommitted insert) and the advance with the COMMIT (`AdvanceTemplate`).  A
period is a number here.  **RecurringDates** has the dates: `ComputeNextDueDate`
and `AdvanceByFrequency` for all six frequencies.

**SavingsGoals** has goals, the amounts contributed to them by period, and the
goal total of each closed period's summary.  `AddContribution` is four steps
(`Begin`, `Resolve`, `Verify`, `Apply`), the close of a period two, so that a
contribution can be resolved before a close and booked after it.  A close may
come `ServerSkew` days early, as one by a settings update does.

**SyncPull** has committed rows with `updated_at`, the open transactions of
everybody else, one pull (a query per collection, each with its own snapshot),
and the device: its copy and its cursor.  Time is in ticks, finer than the
second that the wire keeps.  The server's part is the code's; the client is the
one of `docs/API_CONTRACT.md:320-326` and is marked external in `PROJECT.json`.

**SyncPush** has the outbox of one device, what it was told, and up to two runs
of the request on the server, next to edits of other devices and a rollover.
A batch is decoded as a whole (`Refuse`) and then parsed item by item (`Parse`);
look-up, conflict check and write of an item are separate steps.  Rows are of
five kinds, because the code treats transactions, soft-deleted entities,
budgets with and without a category and contributions differently.  What a
create makes is a row like any other: other devices edit and delete it, and a
rollover copies a budget.  A transaction that is written stamps its account too
(`AdjustAccountBalance`).

**Sessions** has the refresh tokens of one user and the requests that register,
log in, refresh and log out, statement by statement (`Find`,
`RevokeRefreshToken`, `Issue`; none of them is in a transaction), and devices
that stop waiting and ask again.  A session is what descends from one sign-in;
the code has no such notion, the model keeps it as history.

**Insights** is the generators as functions of a period's expenses, income,
budgets and goal, over the days of one period; the goal is contributed to,
edited (`Update`) and deleted.  Amounts are in cents, to which
the code rounds projections and estimates, percentages in tenths; the quotients
under a rounding are exact.  The totals are sums over the groups of the queries,
as theirs are.

Definitions whose comment begins with "Mutant" are not part of any
specification.  They are plausible bugs in the definition that follows, kept
to see that a property notices them.

## 3. Runs

| Run | Checks | Instance |
|---|---|---|
| `PeriodsWrites` | `CloseExclusive`, `SummaryExact`, `ClosedLedgerSettles`, `ClosedBudgetsSettle`, `ClosedInsightsSettle` | 2 clients and the scheduler, 1 transaction id, 1 category, all kinds of writes and readings of the insights, one rollover; 2.0 million states up to symmetry |
| `PeriodsSettings` | `TypeOK`, `ChainOK`, `DurationsOK`, `ClosedWhenOver`, `KeepsHistory` | 2 clients and the scheduler, both modes, 2 durations, a first period that can be reshaped, two rollovers, server clock up to a day ahead; 1.2 million states up to symmetry |
| `PeriodsKeepUp` | `PeriodsKeepUp` (liveness) | 1 client, the scheduler, changes of mode, a budget of one cent carried into bridges of 2 and 3 days, an income and an expense that overflow the savings rate, failures anywhere; 489 000 states |
| `Dates` | `LengthsOK`, `BridgeOnce`, `ViewsPartition`, `BudgetRestored`, `OnSchedule`, `EveryMonth` | the real calendar of 2027 to 2029; periods from every day of January, durations 28 to 31; schedules from every start date in three months of a common and a leap year, every frequency; 279 000 states |
| `Ledger` | `Balanced`, `OpeningSettles`, `ImplementsAtomicLedger` | 2 requests (one may edit), 2 accounts, 2 transactions, all three types; 772 000 states up to symmetry |
| `Recurring` | `TypeOK`, `AtMostOnce`, `NothingSkipped`, `PostsOnlyDue`, `EngineKeepsUp` (liveness) | 2 overlapping runs, 3 occurrences, 2 periods, templates with and without an end, replaced, paused, deleted; 269 000 states |
| `SavingsGoals` | `CurrentIsSum`, `AchievedUnlessPut`, `SummaryMissesTheLate` | 2 contributions at once, 2 goals, 2 targets, PUTs, deletes, three rollovers, server clock up to a day ahead; 1.6 million states up to symmetry |
| `SyncPull` | `LostOnlyIfOvertaken`, `CatchesUp` (liveness) | 4 rows in 2 collections (budgets, then savings goals, in the order of the queries), pages of 2, 3 ticks to a second, 3 writing transactions, two ways the rows' times may lie; 227 000 states |
| `SyncPush` | `CreatedOnce`, `ToldTruly`, `NoBlindOverwrite`, `OutboxDrains` (liveness) | 8 outboxes of up to 3 items, a limit of 2 to a batch, 2 runs at once, one loss, one failing statement, one edit or delete elsewhere, a rollover; 450 000 states |
| `Sessions` | `OneUsable`, `SignedOut` | 3 requests at once, 3 tokens, 1 device; 734 000 states up to symmetry |
| `Insights` | `NoSurpriseAtClose`, `NothingTakenBack`, `LeadersAreLargest`, `AlertsFollow` | 3 days and one past the end, up to 6 expenses of 2 amounts in 2 categories or none, 2 previous totals or none to compare with, 3 budgets, a goal that is contributed to, edited and deleted; 177 000 states |
| `LedgerEditRace` | `Balanced`: violated | 2 editors; see section 5 |

**What the passing runs show.**

*Periods.*  However requests and the scheduler interleave, exactly one close of
a period reaches its commit (`ClosePeriod`'s `WHERE status = 'active'` under the
row lock does it: reading the status without the lock is caught by
`CloseExclusive`, omitting the condition by `ChainOK`).  The summary differs
from the transactions of the closed period at most by transactions whose commit
met the close (`SummaryExact`).  After a close only requests that were already
past their check can touch the period, and each of them once
(`ClosedLedgerSettles`, `ClosedBudgetsSettle`, `ClosedInsightsSettle`): the
trigger checks and writes in one statement, `ensureMutable` and the insight
refresh do not, and the three properties say precisely how far that goes.
Settings changes never reach back into an existing period, the pristine first
one excepted (`KeepsHistory`).  What a close saw of a period when it found it
over is still so when it commits, and over by the clock it went by; the first
period is again the exception (`ClosedWhenOver`).  `PeriodsKeepUp` says that an
overdue period is closed in the end unless one of two figures does not fit its
column, and by which margin: a savings rate too low by a hundredth is closed, and
so is a budget whose share is half a cent.

*Dates.*  `LengthsOK`: 28 to 31 days, bridges 15 to 45.  `BridgeOnce`: in
calendar mode a bridge is followed by whole months.  `ViewsPartition`: 2 and 4
blocks that cover each day once.  `BudgetRestored`: a budget that went through
a bridge is off by no more than the two roundings to the cent.  `OnSchedule`:
the first due date is the first day from the start on that fits the hint, or
the overflow of a month that has no such day (`StartsOnHint`), and the
occurrences stay where it puts them, also after a shorter month (`NoDrift`).
`EveryMonth`: none of them leaves a month out.

*Ledger.*  With at most one edit in flight, balances are always opening balance
plus live movements, also while accounts are deleted or restated and while
statements fail; every commit is one atomic booking.  An opening balance may be
restated with movements only by the request that had counted none.

*Recurring.*  Check and unique index together keep every occurrence to one live
transaction.  Overlapping runs move the due date back and forth and skip
nothing.  A template deleted under a run stops the run with its insert rolled
back.  An occurrence of a closed period is moved into the active one and does
not block the template (`EngineKeepsUp` fails without `clampToActivePeriod`).

*Goals.*  `current_amount` is the sum of the contributions, because the INSERT
and the guarded UPDATE share a transaction.  A goal that reached its target is
achieved, unless a PUT came later.  A closed summary may miss contributions,
but only those that were under way for it when the close added up or, if a
settings update closes it a day early, began before that close committed.

*Pull.*  Ties, the truncation of times and rows that move between two pages lose
nothing.  What a device can miss for good is named: budgets deleted outright,
rows whose transaction began before a query and committed after it, rows
written after the query of their collection and before another one's that was
cut later still, and rows a page leaves out that have the time of its last one,
if that is a whole second (`Passes`).  `CatchesUp` names one case more, a
page that one second fills.

*Push.*  The unique index on `client_id`, not the look-up before it, is what
makes a transaction unique; other entities have no such key, and each lost
answer may create one more.  A budget of a category has its key in the table: it
is made again only if another device deleted it in between, and a copy carried
into the next period counts as it.  Answers are true: what is refused was not
done, with the exceptions `ToldTruly` lists.  Every item is answered in the end,
also next to a malformed one, if the body can be decoded and is within the limit
(`OutboxDrains`).

*Sessions.*  Rotation leaves one usable token per session whatever times out,
except where two refreshes found the same token before either revoked it:
both get a new one.  Signing out ends a session, unless a refresh is under way.

*Insights.*  The two families agree: the close exceeds no budget that was not
alerted, and on the last day the pace and the comparison say what the
close will say.  Ties in the rankings change which category is named, not how
much was spent in it.  Another expense makes neither the pace nor the comparison
nor a budget's alert milder (the small and the unusual expenses are judged
against one another, and another expense may end those two), and a day without
one makes pace and comparison no worse, except on the first day the previous
period's estimate reaches a cent: until then the code has nothing to divide by and calls the
change 0%, so that a previous total of one cent makes the comparison jump to
"warning" from one day to the next (`Comparable`).  A goal's alert ends by a contribution, an edit, its deletion or
its target date, never by itself.

## 4. Bounds, and why they are enough

* **Calendar.**  `TrackingPeriods` runs on months of 4 and 5 days with bridges
  of at least 2, for 28 to 31 and 15: the same order relations (a bridge shorter
  than a month, two months the ceiling) and every case of `BridgeEnd`, in days a
  run can afford.  `Dates` uses the real calendar, and the proofs hold for every
  calendar that satisfies the assumption.
* **Clients.**  Every race the properties are about is between two requests or
  a request and the scheduler.  The proofs of `ChainOK`, `CloseExclusive` and
  `KeepsHistory` are for any number.
* **`Horizon`** bounds the clock, and with it the rollovers: two in
  `PeriodsSettings`, so that a request which resolved a period can find it
  closed, and its successor too; one in `PeriodsWrites`, where everything is
  about one period and its close, and in `PeriodsKeepUp`, where a close that has
  failed is repeated on the same period.
  The loop limits of 120 rollovers and 1200 occurrences in the code are
  not modelled: no instance comes near them.
* **One user.**  Every query is filtered by user.
* **Amounts.**  `Ledger` needs one amount: a wrong account, sign or a repeated
  adjustment shows with any; `Openings = {0, 3}` tells a shift from a set.
  `TrackingPeriods` has an income of 2 and an expense of 1, so that the savings
  rate is defined; `PeriodsKeepUp` has 1 and 11, which overflow it, and a budget
  of one cent, whose share of 2 days of 5 is 0.00 and of 3 days of 5 is a cent.  `Insights`
  has prices of 1 and 70 cents against an income of 71, a previous period of 1 or
  of 60 and budgets around them: small enough and large enough for every
  threshold to be met from both sides, and for an estimate that rounds to 0.
  The proofs are for any amounts.
* **Edits.**  `Ledger` allows one edit at a time (`Editors`) and `Recurring`
  replaces the template between runs only (`EditsDuringRuns`), because the
  properties fail without that: section 5 says how.
* **Sync.**  A page of 2 with 3 rows of a kind is the smallest that has a next
  page; 3 ticks in a second tell a whole second, a time within it and the next.
  Two transactions suffice for one to overtake a query and for one to change a
  row between two pages.  In push, what goes wrong is between two runs of one
  item, or one run and one other writer; two items tell whether one holds up
  the other, and three are more than `MaxBatch`, which is 2 for the code's 100.
  `MaxLosses`, `MaxFaults`, `MaxEdits` bound what the outside does:
  `OutboxDrains` needs answers to stop getting lost at some time.
* **Goals.**  Contributions of different goals meet only in the total of a
  period, those of one goal in its amount: two of each.
* **Sessions.**  Three overlapping requests are a refresh, its retry, and a
  logout or another sign-in; the proofs are for any number.
* **Deletions.**  `RecurringEngine` lets the user delete the transaction of an
  occurrence once: an occurrence can be generated again by an older snapshot,
  and then deleted again, and so on.
* **`CHECK_DEADLOCK FALSE`** where the system or the bound really ends:
  `Dates` stops at its last day, `Recurring` when the template is deleted and
  the clock is at `Horizon`, `SavingsGoals`, `SyncPush` and `Insights` when every
  bound is used up, `Sessions` when every token is used.  `PeriodsWrites`, `PeriodsSettings`, `PeriodsKeepUp` and `Ledger` check
  deadlock and have none: the cycles of row locks that PostgreSQL detects end in
  `Rollback`.

Symmetry is used in `PeriodsWrites`, `PeriodsSettings`, `SavingsGoals`,
`Sessions` and the two `Ledger` runs, for clients, transactions, accounts, goals,
tokens and the like, which no definition tells apart; never in a run with a
liveness property.

## 5. Findings

**Two edits of one transaction corrupt a balance for good** (`LedgerEditRace`,
`store_transactions.go:74`).  Both read the old row without a lock and both take
its effect back.  `accounts.sql:29-30` calls `current_balance = initial_balance +
movements` an invariant.

Seen while modelling, without a run of their own because a passing property
names the case or a bound leaves it out:

*Periods*

* a summary may miss a transaction of its period: the totals are read under READ
  COMMITTED, and a write whose trigger ran before the close may commit after
  they were read (`store_periods.go:49`; the exception in `SummaryExact`);
* a period may never be closed: `savings_rate` is NUMERIC(5,2), expenses of about
  eleven times the income do not fit, the INSERT fails, and so does every later
  attempt, in every request that resolves the active period
  (`store_periods.go:262`; `Overspent` in `PeriodsKeepUp`);
* a budget of a few cents prorated into a bridge may round to 0.00, which the
  table's check refuses, and the close fails as often as it is tried
  (`store_periods.go:90`; `Vanishing` in `PeriodsKeepUp`);
* a period may be closed before its end: the scheduler reads an overdue first
  period, a reshape extends it, and the close asks for `status = 'active'` only
  (`tracking_periods.sql:28`; the exception `Last = 1` in `ClosedWhenOver`, without
  which `PeriodsSettings` fails);
* a budget can be written and during insights can be left in a period closed
  since the check (`budget.go:202`, `store_insights.go:33`), and two concurrent
  refreshes can both insert their during insights;
* a reshape can overtake a transaction that was accepted for the old dates
  (`user_settings.go:164-169`);
* `user_settings.go:100` takes the server's date, everything else Bogota's: for
  five hours of the day a settings update may close a period a day early
  (`Skew` in `ClosedWhenOver`; `PeriodsSettings` shows that chain and history
  stay sound);
* a request that loses the race for a close reports not found instead of using
  the new period (`API_CONTRACT.md:47-48` promises that lazy closing is
  invisible);
* `uq` on budgets does not bound rows with a NULL category: two global budgets
  may exist.

*Recurring*

* a PUT on a template may be lost to a run: `advanceTemplate` writes due date and
  activity from the run's snapshot, so that occurrences of the new schedule are
  skipped and a paused template is active again (`store_recurring.go:103`; set
  `EditsDuringRuns = TRUE` in `Recurring.cfg`);
* a transaction that the user deleted is generated again by a run with an older
  snapshot (the idempotency check ignores deleted rows, by design);
* a monthly template without `day_of_month` that starts on the 31st falls to the
  28th in February and stays there, where the comment at
  `recurring_engine.go:279-281` has it return to 31 March.

*Sync*

* `server_time` is taken before the queries, but a transaction open at that
  moment commits later with an earlier `updated_at`, and no pull returns it
  (`sync.go:238-240`);
* the collections are queried one after the other (`sync.go:249-319`).  If one
  that was queried late is cut at a row written after another was queried,
  the next `since`, its last `updated_at`, lies past what was written to the
  other one in between, and no pull returns that (`NextPage`); it takes a page
  full of rows written during the request;
* `sync.go:74` has the client repeat "the same since" until `has_more` is false,
  which returns the first page for ever; `API_CONTRACT.md:325` has it move on,
  which the model does;
* a page filled by rows of one second is followed by itself, because
  `updated_at` loses its fraction on the wire (`Crowded`);
* `rejected` is permanent for the client (the status table of
  `API_CONTRACT.md`), and it is also the answer when a statement fails for no
  fault of the item (`serverError`, `sync.go:611-618`): such a change is lost;
* `client_updated_at` is "informational for creates and deletes"
  (`sync.go:127-130`), but `entityPusher.apply` checks it for deletes, of
  everything but transactions;
* "payload wins" over the typed fields (`sync.go:137`), but transactions read
  only the typed ones; and the decoder, said to refuse unknown fields, accepts
  them;
* a contribution, an account or a budget without a category (NULLs do not
  collide in the table's key) whose answer was lost is created twice; a budget of
  a category is, if another device deleted it before the retry, so that the
  retry undoes that delete (`made` in `CreatedOnce`);
* "one malformed item must never poison the whole batch" (`handlers/sync.go:95-97`,
  `API_CONTRACT.md:328`: "un ítem malo nunca aborta el resto"), but
  `transaction_payload` is typed: an `account_id` that is no UUID, or an `amount`
  that is a number, fails `BodyParser` (83-85), and the batch is a 400 on every
  retry; the response names no item.  So is one of more than 100 items (90-93).
  The other items stay pending for ever: the first two lines of `OutboxDrains`,
  and without either `SyncPush` fails;
* a transaction stamps its account, so that an edit of that account later in the
  same batch conflicts with the device's own transaction (`Touched`).

*Goals, insights*

* a PUT with the status the device last saw undoes `achieved`, and a goal set to
  `achieved` by a PUT never gets its `achieved_at`;
* a contribution can be booked in a period closed since it was resolved, and is
  then in no summary (`owed` in `SummaryMissesTheLate`); when a settings update
  closes a period on its last day, so can one that begins meanwhile;
* without an income the spending pace is never more than "info", where the
  comment (`analytics_during.go:104`) says critical;
* a goal behind schedule stops raising an alert once its target date has passed;
* a budget's warning threshold may lie above its critical one;
* `vs_previous` figures of a summary are computed for bridges too
  (`store_periods.go:324-342`), where the insights suppress them.

## 6. Fairness

For periods and templates only the two schedulers are assumed to make progress;
no client has to do or finish anything, except that a database transaction does
not stay open for ever.  The devices of `SyncPull` and `SyncPush` go on
synchronising.

* `TrackingPeriods!Fairness`.  `WF(StartClose)`: the goroutine of
  `runCloseScheduler` runs on start and on an hourly ticker.
  `SF(Close(Scheduler))`: its statements wait for row locks that other closes
  take and release; PostgreSQL's queue for a lock is first in, first out.
  `<>[][Abort(Scheduler) => Close(Scheduler)]`: from some time on the scheduler
  is not hit by outside failures.  It does *not* say that its closes succeed:
  a close that fails by what it computes is a `Close` step that ends in `Idle`
  and is retried for ever (`Overspent`, `Vanishing`).  For clients, only that a close they
  have begun ends, by commit or rollback, since a connection does not keep its
  transaction open for ever.
* `RecurringEngine!Fairness`.  The same for `runRecurringScheduler`; runs that
  began go on; the scheduler's is granted strong fairness because
  `CreateTransaction` waits for the other run's insert to end.
* `SyncPull!Fairness`.  The device goes on pulling, queries and pages go on, and
  from some time on no pull is abandoned.  Nothing is assumed of the writers.
* `SyncPush!Fairness`.  A request runs to its end and the device sends what is
  still pending.  How often answers may be lost is bounded, so that they stop
  being lost.

The other modules state safety only.

## 7. Proofs

All proofs are checked by TLAPS (SMT, Zenon, LS4).  `LastDay`, the calendar,
the durations, `Clients`, `Horizon`, `StartDays` and everything else are
parameters; the assumptions are `CalendarAssumption` (months of bounded length
that follow one another), `PeriodsAssumption`, `WalkAssumption`,
`DatesAssumption`, `EngineAssumption`, `LedgerAssumption`, `SessionsAssumption`,
`SavingsGoalsAssumption` and `SyncPushAssumption` (types, finitely many handlers
and transactions, positive targets, views of no more blocks than the shortest
period has days, and a calendar that reaches beyond the clock), which TLC
evaluates in the runs.  Three theorems assume more, and say so in their
statement: `LedgerImplementsAtomicLedger` and `BalancedCorrect` (`OneEditor`),
`ToldTrulyCorrect` (`CreatesApart`).

**DatesProofs.**  About `PeriodWalk`: `LengthsCorrect`, `BridgeIsOneOff`,
`ViewsPartitionCorrect`, `BudgetRestoredCorrect`.  A bridge ends at a month's end
and has `MinBridgeDays .. MaxMonthDays + MinBridgeDays - 1` days (`BridgeBounds`);
the case that needs thought is one that would be too short and is extended to
the end of the *next* month, where the calendar must still be defined.  That a
bridge is a one-off needs in addition that a period born in calendar mode
ends at a month's end, so that the next begins on a 1st.  The blocks of a view
begin at the multiples of `days \div n`, which are at least that far apart
(`Multiples`) and leave the last block the rest: a day lies in the block of its
quotient.  A budget is rounded twice, each time by at most a half (`Rounded`);
`TwoRoundings` adds up what that leaves, in integers.

About `RecurringDates`: `OnScheduleCorrect` (from `StartsOnHintCorrect` and
`NoDriftCorrect`) and `EveryMonthCorrect`.  That no day before the first due date
fits needs that months do not overlap (`LaterMonth`), which the assumption says
only of one month at a time.  `DatesInv` adds
to `NoDrift` that the occurrence of a monthly or yearly template is on the
calendar and that a monthly one, *with a hint or without*, lies in the
`count`-th month after the first.  Without that, a hint is of no use: the
next month is counted from an occurrence that may have been clamped.
`MonthsAfter` is a recursive function, and `MonthsAfterStep` is what is needed of
it (a month more is the month that follows); it is proved from the existence
and uniqueness of the list of months, by a least counterexample
(`LeastNat`), which the well-founded-induction theorems give without taking an
operator as a parameter.  A year is twelve such steps (`TwelveMonths`).

**TrackingPeriodsProofs.**  Four invariants, each on top of the first.

`IInv` gives `TypeCorrect`, `ChainCorrect`, `CloseIsExclusive`,
`DurationsCorrect` and the refinement `KeepsHistoryCorrect`.  It is `TypeOK`,
`ChainOK`, `CloseExclusive`, legal ranges of all
periods, bounds of the first one, the placement of transactions, and
`RequestOK`, what each request knows of the period it works on.  None of the
properties is inductive alone: that a commit appends one successor to the chain
needs that nobody else is closing; that nobody else is needs the lock; that
the new period lies within the calendar needs that a request that closes had
seen the end of its period pass (or that the period is the first, which
may have been reshaped since and is bounded by itself); and that a reshape does
not move a successor needs that a request in "reshape" works on the first
period and that it is still active, hence the last.  The proof has one lemma
per action, most of them through `RequestStep` (nothing but the request and
harmless columns change); `CommitCloseStep` and `ReshapePeriodStep` do the work.
The refinement then follows action by action: `CommitClose` is `Close`,
`ReshapePeriod` is `Reshape`, everything else leaves `History` and `Current`.

`WInv` adds that the scheduler only closes (`SchedulerOK`) and that a row that
is being written is new or stays in its period and has one writer (`WritesOK`).
`ClosedLedgerSettlesCorrect`, `ClosedBudgetsSettleCorrect` and
`ClosedInsightsSettleCorrect` follow: `Moves` says what is true when a request
takes a step (it begins a write, a budget or an insert of insights only on a
period that is active *now*), so that no write into a closed period begins, and a
frame lemma for each table says which steps change it.

`EInv` adds `SummaryExact` and `ClosingExact`: already between its reads and
its commit, what a close has read differs from the ledger at most by
`overlapping` transactions.  A commit that changes the ledger of a period that
is being closed puts its transaction there; one that changes a closed period
was under way when it closed, and was put there then
(`SummaryExactCorrect`).

`TInv` adds what a request knows of the days (`Timely`): its own date is not ahead
of the clock it goes by, the last day it saw of the period it closes is before
that date, and only the first period's last day may have moved since
(`ClosedWhenOverCorrect`).  The frame lemma says who writes the periods, a commit
of a close that ends with it or a reshape while there is one period.

**RecurringEngineProofs.**  For any number of runs, intervals, period lengths and
clocks.  `EngineTypeCorrect` and `AtMostOnceCorrect` hold whatever the user
edits: the inductive invariant `SafeInv` says that a run that has inserted an
occurrence and not committed finds no live transaction of it (nobody else can
commit one, since the unique index makes them wait) and that no two runs have
inserted the same one.  `NothingSkippedCorrect` and `PostsOnlyDueCorrect` assume
`~EditsDuringRuns`.  Their invariant `ScheduleInv` relates each run's snapshot to
the row it no longer equals: the run's occurrence and the template's due
date are both points of the schedule that starts at `origin`, and each has every
point before it covered, generated or deleted by the user since.  So it
does not matter which of two runs writes the due date last.  The arithmetic
(between two occurrences there is none) is three lemmas on multiples of
`Interval`.

**SessionsProofs.**  `OneUsableCorrect` and `SignedOutCorrect`, for any number of
devices, requests and tokens.  Neither is inductive: that a refresh may issue a
token needs that it has taken the one there was and that no other refresh of
the session will.  `Single(s)` says so for a session that is not forked: at most
one usable token, a refresh about to revoke is alone and of that token, and a
refresh about to issue is alone and there is no usable token.  `Over(s)` says
that a session signed out has neither.  `Rooted` says that nothing names a token
that was not issued, so that a new token disturbs no session.  Most steps go
through `CallStep` (one call moves, and is no refresh about to revoke or issue);
`StepFind`, `StepRevoke` and `StepIssue` do the work.

**LedgerProofs.**  For any number of requests, accounts, transactions and
amounts.  `LedgerTypeCorrect` and `OpeningSettlesCorrect` hold for any number of
editors.  Their invariant `IInv` says that a live row names accounts that exist
(`Sound`), that the accounts a request has locked are live and that what its
commit does to its row is a legal change (`RequestOK`), and that two requests
have locked different rows (`Apart`).  `LedgerImplementsAtomicLedger` assumes
`OneEditor`, without which it is false (`LedgerEditRace`).  It adds `Owed`: for
every account that has not been deleted, the adjustments a request has made and
those it has still to make add up to the difference between the row it will
commit and the row that is there; an edit that has not written its row yet
owes the taking back of the row it read.  An adjustment moves its leg from
`todo` to `delta` and keeps the sum; one that meets a deleted account loses
it, but then nothing is owed to that account any more.  The step that needs
`OneEditor` is another request's commit: it must not change the row an edit
has read, unless it deletes it, and then the edit fails.  A commit has nothing
left to adjust, so that `delta` *is* the difference, which is `Record`; a
restatement moves balance and opening balance together (`Restated`).
`BalancedCorrect` then is a theorem about `AtomicLedger`'s steps: one that records
a change of a row moves the balance by what the sum of the effects moves
(`SumChange`), and an account is opened without movements, since a live row names
accounts that exist.  What `SumFunctionOnSet` of the community modules does when
one value changes (`SumChange`), and its type and sign (`SumType`), are lemmas of
this module and of `TotalsProofs`.  The operator is a fold, a recursive
function on the subsets of the set; they take a least subset for which it goes
wrong (`LeastPart`), so that no induction principle is needed.

**TotalsProofs**, about `SavingsGoals`.  For any goals, targets, lengths of periods and
contributions under way.  `AchievedUnlessPutCorrect`: the strengthening says
that a goal that does not exist yet has nothing in it; targets being positive,
it is below its target when it is created.  `CurrentIsSumCorrect` is inductive
with the types.  `SummaryMissesTheLateCorrect` is not: `Covered` says that a total,
from the moment a close reads it, and what was owed then cover all that has
been booked in the period *and all that still may be* (`Pending`), so that a
contribution that is booked late moves an amount from one to the other.  A
contribution that has not resolved its period may only be booked in the active
one (`BoundFor`), so that none that begins after the close has committed counts
for it; one that begins before, while the period still lasts, is owed.  That the
periods are over when they close is not needed, and would not be true.

**TotalsProofs**, about `Insights`.  For any categories, prices, incomes,
budgets, thresholds, goals, previous periods and lengths of periods.  An insight
is a function of the data, so that the invariant is that the data are of their
types (`DataInv`, `InsightsTypeCorrect`), and what there is to prove is about the
functions.  `NoSurpriseAtCloseCorrect` and `NothingTakenBackCorrect` compare a
during insight with its final counterpart: a rounded percentage reaches a whole
threshold whenever the exact one does (`RoundDivReaches`), and on the last day
projection and estimate are the totals themselves (`LastDayProjection`,
`LastDayEstimate`), since rounding an exact quotient changes nothing.  For the
small expenses, the categories of the final insight are among those of the early
one, and a sum over more of a set of naturals is no smaller.
`LeadersAreLargestCorrect` needs that an order of a finite set leaves no element
out, and that a list in which each entry is no smaller than the next has the larger
before the smaller however far apart they are (by a least counterexample).
`AlertsFollowCorrect` is an action property.  Another expense adds to every sum
it is in and takes from none (`SumMonotone`), a day only divides the total by more
and raises the estimate, and a severity is a monotone function of these
(`RoundDivOrder` carries that through the roundings).  This proof is where the
exception for an estimate of 0 was met.

**SyncPullProofs.**  `LostOnlyIfOvertakenCorrect`, for any collections, rows, page
sizes, fractions of a second and transactions, and pulls abandoned anywhere.
The property speaks of the time between two pulls; the invariant `PullInv` says
what holds in the middle of one.  Whatever the device does not have is after
the `since` of the request (`Kept`), and after each query, what the page has of a
row is still so or the row was written later than the pulls have come in its
collection, while a row that the query did not return is no older than the
last row of a page that was cut (`Paged`).  So the next `since`, the oldest of
these last rows, brings what was cut off, and `server_time`, which
precedes every query, brings what was written later.  That a page is a prefix in
the order of the query, and all of it when there is no extra row, is
`PageInOrder` and `AllUnlessTruncated`.  The two ways in which a page goes past
a row (`Passes`) are the places where the proof does not go through without.

**SyncPushProofs.**  For any outboxes, handlers, rows, entities and any number of
retries, edits, crashes and failing statements.
`CreatedOnceCorrect` counts (`TriesOK`): what has been made of an item, the
requests that still have it to do, and one more if the device is about to send it
again, are together at most one more than the answers that were lost.  This is
inductive because a device waits for one request at a time, and the request it
waits for has, or will have, an answer to everything pending (`RequestOK`).  For
transactions the unique client_id does better: what has been made left a row;
and of the budgets made of a category, all but one that is live have been deleted
(`MadeOK`).  `NoBlindOverwriteCorrect` needs that a request about to write to a
row that still has the version it saw was right to find no conflict (`SeenOK`).
`ToldTrulyCorrect` assumes `CreatesApart`: no two items of an outbox create one
row, and none deletes what another creates, or books transactions on it, which a
device has no id for yet.
Its invariant `TInv` says that every answer is true when it is given, while the
request goes on, and when it arrives; that the row of a create there is none of
is still to be made (`RowsMade`), and that one which appeared between a create's
look-up and its write was made by another run of the same item (`LookedUp`).
Most of the work is that what an answer says stays true (`Forward`, `ToldStays`):
rejections are stated with reasons that last (`Refused`).

**Only model-checked:** liveness (`PeriodsKeepUp`, `EngineKeepsUp`, `CatchesUp`,
`OutboxDrains`), which is out of this prover's reach.

## 8. Simplifications, and what is not modelled

* `Abort`, `Rollback` and `Fail` may strike at any time; which error it was is
  not kept.
* The statements of `ClosePeriodTx` from the breakdowns to the commit are one
  step: they read transactions, settings and budgets once each, and
  what they write is seen only at the commit.  The JSONB breakdowns are
  represented by the rows they are computed from, as are the totals.
* `UserSettingsService.Update` resolves the active period twice when it
  reshapes; the model resolves it once.
* Proration is exact up to the rounding to the cent; the code's factor has 16
  digits.  So have its quotients in the insights before they are rounded: where
  an exact one is half a cent or half a tenth, the code's may round the other way.
* `vs_previous` comparisons of a summary are not modelled; those of the insights
  are.
* API server and database are taken to share a clock in `SyncPull`.
* A pushed item's checks in the service and its write are one step in
  `SyncPush`; `TrackingPeriods` and `Ledger` take those apart.  Accounts,
  categories, goals and templates are one kind of row, all transactions of an
  outbox are of one account, and of what a payload holds only whether it can be
  decoded matters.
* `SavingsGoals` has periods of one length, none of which is reshaped, and leaves
  out a goal's dates and linked account, `Sessions` the
  access tokens, hashing and signing.  `RevokeAllUserRefreshTokens` is never
  called.
* The texts of insights are left out, and the insights that only list figures
  (`genTopMerchants`, `genMonthlyWrapUp`, `genGoalAchievementSummary`); so is
  the unusual expense (`genUnusualExpense`), which has no final counterpart.
* Balances, `TrackingPeriods`' transactions and `RecurringEngine`'s are separate
  modules over the same table: a period does not read balances, and a balance
  does not read periods.  `MaterialiseRecurring` in `Ledger` is the engine's
  insert, which does not look whether the account is still there.
* **Not modelled:** creation of categories (a single INSERT); AI categorisation
  (one read and an external call); encryption, configuration, logging,
  middleware; HTTP handlers beyond the beginning and the end of the requests
  above (parsing and formatting around one service call); list and look-up
  queries that no property depends on.

## 9. Plan

Done, in this order: `Calendar` and `PeriodWalk`; `TrackingPeriods` with
`PeriodHistory`; their proofs; `Ledger` with `AtomicLedger`; `RecurringEngine`
and `RecurringDates`; the proofs of `RecurringEngine`; `SavingsGoals`,
`SyncPull`, `SyncPush`, `Sessions`, `Insights`; the proofs of `Sessions`,
`Ledger`, `SavingsGoals` and `SyncPush`; the proofs about sums (`Balanced`, the
totals of goals), about closed periods, about dates, about a pull, and about
`Insights`; the first due date.

To do:

1. Composition: the engine's insert inside `TrackingPeriods`, so that a generated
   transaction meets a real close.
