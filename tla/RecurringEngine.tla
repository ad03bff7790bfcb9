--------------------------- MODULE RecurringEngine ---------------------------
(***************************************************************************)
(* The materialisation of one recurring template: the scheduler and the    *)
(* requests that list recurring transactions run the same catch-up loop,   *)
(* on a snapshot of the template, while the user edits or deletes it and   *)
(* deletes transactions it generated.                                      *)
(*                                                                         *)
(* MaterialiseRecurringTx is three steps: the idempotency check, the       *)
(* insert, and the advance of the template with the COMMIT.  A template    *)
(* recurs every Interval days (the other frequencies are module            *)
(* RecurringDates').  Period n covers the days n * PeriodDays ..           *)
(* (n + 1) * PeriodDays - 1; how one is closed is TrackingPeriods'.        *)
(***************************************************************************)
EXTENDS Integers, FiniteSets

CONSTANTS
  Runs,        \* runs of the engine that may overlap
  Scheduler,   \* the one runRecurringScheduler starts
  Interval,    \* days between two occurrences
  PeriodDays,  \* length of a tracking period
  Horizon,     \* bound: the last day the clock reaches
  Starts,      \* start dates a client may give a template
  FirstWaits,  \* days from the start date to the first due date
  Ends,        \* end dates a client may give it, None for no end
  EditsDuringRuns,  \* may the template be replaced while a run is under way?
  None         \* no date

Days == 0 .. Horizon

ASSUME EngineAssumption ==
  /\ Scheduler \in Runs
  /\ Interval \in Nat \ {0} /\ PeriodDays \in Nat \ {0}
  /\ Horizon \in Nat
  /\ Starts \subseteq Nat /\ FirstWaits \subseteq Nat
  /\ Ends \subseteq Int \cup {None}
  /\ EditsDuringRuns \in BOOLEAN
  /\ None \notin Int

VARIABLES
  today,     \* the date in America/Bogota
  active,    \* the number of the active tracking period
  template,  \* the row of recurring_transactions
  origin,    \* history: its first due date when it was last replaced
  live,      \* live transactions generated for each occurrence date
  dropped,   \* occurrences whose transaction the user deleted
  run        \* what each run of the engine is doing

vars == <<today, active, template, origin, live, dropped, run>>

PeriodStart(n) == n * PeriodDays
PeriodEnd(n)   == n * PeriodDays + PeriodDays - 1

NoTemplate == [state |-> "absent", on |-> FALSE, due |-> None, end |-> None]

Idle ==
  [pc |-> "idle", template |-> NoTemplate, today |-> 0, period |-> 0,
   occurrence |-> 0, inserted |-> FALSE]

InFlight == \E e \in Runs : run[e].pc # "idle"

\* Selected by ListDueRecurringTransactions and by ProcessUserRecurring.
Due(t, d) == t.state = "live" /\ t.on /\ t.due # None /\ t.due <= d

-----------------------------------------------------------------------------
Init ==
  /\ today = 0 /\ active = 0
  /\ template = NoTemplate /\ origin = None
  /\ live = [d \in Days |-> 0] /\ dropped = {}
  /\ run = [e \in Runs |-> Idle]

Tick ==
  /\ today < Horizon /\ today' = today + 1
  /\ UNCHANGED <<active, template, origin, live, dropped, run>>

\* Another request, or the close scheduler, closes an overdue period.
RollOver ==
  /\ PeriodEnd(active) < today /\ active' = active + 1
  /\ UNCHANGED <<today, template, origin, live, dropped, run>>

(***************************************************************************)
(* POST creates the template and PUT replaces it.  Both require an end     *)
(* date after the start date and compute the due date from the start date: *)
(* up to a month later, and so perhaps after the end date.                 *)
(***************************************************************************)
WriteTemplate ==
  \E s \in Starts, wait \in FirstWaits, end \in Ends, on \in BOOLEAN :
    /\ template.state \in {"absent", "live"}
    /\ EditsDuringRuns \/ ~InFlight
    /\ end # None => end > s
    /\ template' = [state |-> "live", on |-> on, due |-> s + wait,
                    end |-> end]
    /\ origin' = s + wait
    /\ UNCHANGED <<today, active, live, dropped, run>>

DeleteTemplate ==
  /\ template.state = "live"
  /\ template' = [template EXCEPT !.state = "deleted"]
  /\ UNCHANGED <<today, active, origin, live, dropped, run>>

\* Mutant of DeleteTransaction: without deleted_at IS NULL.
DeleteTwice ==
  \E d \in Days \ dropped :
    /\ live' = [live EXCEPT ![d] = @ - 1]
    /\ dropped' = dropped \cup {d}
    /\ UNCHANGED <<today, active, template, origin, run>>

\* Bound: the user deletes the transaction of an occurrence only once.
DeleteTransaction ==
  \E d \in Days \ dropped :
    /\ live[d] > 0
    /\ live' = [live EXCEPT ![d] = @ - 1]
    /\ dropped' = dropped \cup {d}
    /\ UNCHANGED <<today, active, template, origin, run>>

-----------------------------------------------------------------------------
Goto(e, q) == run' = [run EXCEPT ![e] = q]

\* A run keeps the template as it is listed, and the day it begins on.
ListDue(e) ==
  /\ run[e].pc = "idle" /\ Due(template, today)
  /\ Goto(e, [Idle EXCEPT !.pc = "resolve", !.template = template,
                          !.today = today, !.occurrence = template.due])
  /\ UNCHANGED <<today, active, template, origin, live, dropped>>

\* Periods that have ended are closed on the way to the active one.
ResolveActivePeriod(e) ==
  LET q == run[e] IN
  /\ q.pc = "resolve"
  /\ IF PeriodEnd(active) < q.today
     THEN active' = active + 1 /\ UNCHANGED run
     ELSE /\ Goto(e, [q EXCEPT !.pc = "next", !.period = active])
          /\ UNCHANGED active
  /\ UNCHANGED <<today, template, origin, live, dropped>>

PastEnd(d, t) == t.end # None /\ d > t.end

CaughtUp(e) ==
  /\ run[e].pc = "next" /\ run[e].occurrence > run[e].today
  /\ Goto(e, Idle)
  /\ UNCHANGED <<today, active, template, origin, live, dropped>>

\* An occurrence after the end date switches the template off.
DeactivateTemplate(e) ==
  LET q == run[e] IN
  /\ q.pc = "next" /\ q.occurrence <= q.today
  /\ PastEnd(q.occurrence, q.template)
  /\ template' = IF template.state = "live"
                 THEN [template EXCEPT !.on = FALSE, !.due = None]
                 ELSE template
  /\ Goto(e, Idle)
  /\ UNCHANGED <<today, active, origin, live, dropped>>

HasTransactionForDate(e) ==
  LET q == run[e] IN
  /\ q.pc = "next" /\ q.occurrence <= q.today
  /\ ~PastEnd(q.occurrence, q.template)
  /\ Goto(e, [q EXCEPT !.pc = IF live[q.occurrence] > 0 THEN "advance"
                                                       ELSE "insert"])
  /\ UNCHANGED <<today, active, template, origin, live, dropped>>

\* Mutant of ClampToActivePeriod: the occurrence keeps its own date.
UnclampedDate(q) == q.occurrence

\* The transaction's date, brought into the period the run resolved.
ClampToActivePeriod(q) ==
  LET d == q.occurrence IN
  IF d < PeriodStart(q.period) THEN PeriodStart(q.period)
  ELSE IF d > PeriodEnd(q.period) THEN PeriodEnd(q.period)
  ELSE IF d > q.today THEN q.today ELSE d

\* The trigger on transactions: an open period, and a date inside it.
TriggerAccepts(n, d) == n = active /\ d \in PeriodStart(n) .. PeriodEnd(n)

\* The unique index waits for a concurrent insert of the same occurrence.
IndexWaits(e) ==
  \E f \in Runs \ {e} :
    run[f].inserted /\ run[f].occurrence = run[e].occurrence

\* Mutant of CreateTransaction: no unique index on the occurrence.
CreateWithoutIndex(e) ==
  LET q == run[e] IN
  /\ q.pc = "insert"
  /\ Goto(e, IF TriggerAccepts(q.period, ClampToActivePeriod(q))
             THEN [q EXCEPT !.pc = "advance", !.inserted = TRUE] ELSE Idle)
  /\ UNCHANGED <<today, active, template, origin, live, dropped>>

CreateTransaction(e) ==
  LET q == run[e] IN
  /\ q.pc = "insert" /\ ~IndexWaits(e)
  /\ Goto(e, IF live[q.occurrence] = 0
                /\ TriggerAccepts(q.period, ClampToActivePeriod(q))
             THEN [q EXCEPT !.pc = "advance", !.inserted = TRUE] ELSE Idle)
  /\ UNCHANGED <<today, active, template, origin, live, dropped>>

\* Mutant of NextDue: advances from the day of the run, not from the occurrence.
NextDueFromToday(q) ==
  LET d == q.today + Interval
  IN  IF PastEnd(d, q.template) THEN None ELSE d

\* The due date after this one, None if this is the last.
NextDue(q) ==
  LET d == q.occurrence + Interval
  IN  IF PastEnd(d, q.template) THEN None ELSE d

\* Mutant of AdvanceTemplate: without deleted_at IS NULL.
AdvanceDeleted(e) ==
  LET q == run[e]  next == NextDue(q) IN
  /\ q.pc = "advance"
  /\ template' = [template EXCEPT !.due = next, !.on = next # None]
  /\ live' = [live EXCEPT ![q.occurrence] = IF q.inserted THEN @ + 1 ELSE @]
  /\ Goto(e, IF next = None THEN Idle
             ELSE [q EXCEPT !.pc = "next", !.occurrence = next,
                            !.inserted = FALSE])
  /\ UNCHANGED <<today, active, origin, dropped>>

(***************************************************************************)
(* advanceTemplate and COMMIT: due date and activity are those of the      *)
(* snapshot's schedule, whatever the row holds by now.  There is no row if *)
(* the template has been deleted: an error, and the insert is rolled back. *)
(***************************************************************************)
AdvanceTemplate(e) ==
  LET q == run[e]  next == NextDue(q) IN
  /\ q.pc = "advance"
  /\ IF template.state = "live"
     THEN /\ template' = [template EXCEPT !.due = next, !.on = next # None]
          /\ live' = [live EXCEPT ![q.occurrence] =
                                    IF q.inserted THEN @ + 1 ELSE @]
          /\ Goto(e, IF next = None THEN Idle
                     ELSE [q EXCEPT !.pc = "next", !.occurrence = next,
                                    !.inserted = FALSE])
     ELSE Goto(e, Idle) /\ UNCHANGED <<template, live>>
  /\ UNCHANGED <<today, active, origin, dropped>>

\* Any statement may fail; the transaction is rolled back and the run over.
Fail(e) ==
  /\ run[e].pc # "idle"
  /\ Goto(e, Idle)
  /\ UNCHANGED <<today, active, template, origin, live, dropped>>

ProcessTemplate(e) ==
  \/ ResolveActivePeriod(e)
  \/ CaughtUp(e)
  \/ DeactivateTemplate(e)
  \/ HasTransactionForDate(e)
  \/ CreateTransaction(e)
  \/ AdvanceTemplate(e)

Next ==
  \/ Tick \/ RollOver
  \/ WriteTemplate \/ DeleteTemplate \/ DeleteTransaction
  \/ \E e \in Runs : ListDue(e) \/ ProcessTemplate(e) \/ Fail(e)

Spec == Init /\ [][Next]_vars

(***************************************************************************)
(* The scheduler runs every hour (cmd/api/main.go:239-269); every run that *)
(* begins goes on, the scheduler's also past the waits for an insert of    *)
(* another run, which PostgreSQL ends when that transaction ends (strong   *)
(* fairness); and from some time on no statement of the scheduler's runs   *)
(* fails by itself.                                                        *)
(***************************************************************************)
Fairness ==
  /\ WF_vars(ListDue(Scheduler))
  /\ \A e \in Runs \ {Scheduler} : WF_vars(ProcessTemplate(e))
  /\ SF_vars(ProcessTemplate(Scheduler))
  /\ <>[][Fail(Scheduler) => ProcessTemplate(Scheduler)]_vars

FairSpec == Spec /\ Fairness

-----------------------------------------------------------------------------
(* Properties.                                                             *)

DueDates == Int \cup {None}

Templates ==
  [state : {"absent", "live", "deleted"}, on : BOOLEAN, due : DueDates,
   end : DueDates]

RunRows ==
  [pc : {"idle", "resolve", "next", "insert", "advance"}, template : Templates,
   today : Days, period : Nat, occurrence : Int, inserted : BOOLEAN]

\* Every row and every run holds values of its column types.
TypeOK ==
  /\ today \in Days /\ active \in Nat
  /\ template \in Templates /\ origin \in DueDates
  /\ live \in [Days -> Nat] /\ dropped \subseteq Days
  /\ run \in [Runs -> RunRows]

(***************************************************************************)
(* No occurrence has two live transactions, however many runs generate it  *)
(* at once (store_recurring.go:42-58 and migration 000015): the check is   *)
(* made before the insert, and the unique index decides between two runs.  *)
(***************************************************************************)
AtMostOnce == \A d \in Days : live[d] <= 1

Scheduled(d) ==
  /\ origin # None /\ \E k \in 0 .. d : d = origin + k * Interval
  /\ ~PastEnd(d, template)

(***************************************************************************)
(* "All missed occurrences are generated one by one"                       *)
(* (recurring_engine.go:112-114): an occurrence the template has moved     *)
(* past, or any of one that has come to its end, has been generated (the   *)
(* user may have deleted it since).  Overlapping runs move the due date    *)
(* back and forth and still skip none, unless the template is replaced     *)
(* under a run: the run then advances it along the schedule it had before. *)
(***************************************************************************)
NothingSkipped ==
  \A d \in Days :
    /\ template.state = "live" /\ Scheduled(d)
    /\ template.due = None \/ d < template.due
    => live[d] > 0 \/ d \in dropped

(***************************************************************************)
(* A transaction is generated only for an occurrence that is scheduled,    *)
(* not in the future and not after the end date, and never once the        *)
(* template is deleted, also when it is deleted between the insert and the *)
(* advance (recurring_engine.go:161-173, AdvanceRecurringTransaction).     *)
(***************************************************************************)
PostsOnlyDue ==
  [][\A d \in Days :
       live'[d] > live[d] =>
         d <= today /\ template.state = "live" /\ Scheduled(d)]_vars

(***************************************************************************)
(* A due template does not stay due: the scheduler generates what it owes, *)
(* also when requests generate the same occurrences at the same time, when *)
(* an occurrence fell in a period closed since, and when a period is       *)
(* closed under a run (recurring_engine.go:193-194, 222-245).              *)
(***************************************************************************)
EngineKeepsUp == Due(template, today) ~> ~Due(template, today)
=============================================================================
