----------------------------- MODULE SavingsGoals -----------------------------
(***************************************************************************)
(* Savings goals and their contributions.  A contribution names no period: *)
(* the server resolves the active one, rolling over those that have ended, *)
(* and books it there in a later transaction, while other contributions,   *)
(* PUTs, deletes and the closing of periods go on.  A close reads the      *)
(* total and commits later; only one at a time gets that far (CloseExclu-  *)
(* sive in TrackingPeriods).  A goal's start date never changes and its    *)
(* target date has no part here: both are left out.                        *)
(***************************************************************************)
EXTENDS Integers, FiniteSets, FiniteSetsExt

CONSTANTS
  Goals,
  Calls,             \* contributions the server may be running
  Amounts,           \* of contributions
  Targets,           \* target_amount
  Statuses,          \* a client may send, of ValidGoalStatuses
  Length,            \* days in a period: the one numbered p ends before
                     \* day (p + 1) * Length
  MaxDay,            \* bound: the last day
  ServerSkew,        \* days the server's own date may be ahead of Bogota's
  MaxContributions   \* bound: contributions begun

ASSUME SavingsGoalsAssumption ==
  /\ IsFiniteSet(Goals) /\ IsFiniteSet(Calls)
  /\ Amounts \subseteq Nat \ {0} /\ Targets \subseteq Nat \ {0}
  /\ Statuses \subseteq {"active", "achieved", "abandoned", "paused"}
  /\ Length \in Nat \ {0} /\ MaxDay \in Nat /\ ServerSkew \in Nat
  /\ MaxContributions \in Nat

VARIABLES
  today,        \* in Bogota
  active,       \* the active period; those before it are closed
  closing,      \* the total a close under way has read, or NotClosing
  goals,
  contributed,  \* amounts of the contributions of a goal booked in a period
  summaries,    \* goal_contributions_total in the summary of a closed period
  calls,        \* what each AddContribution is doing
  begun,        \* contributions begun
  put,          \* history: goals with a PUT after their last contribution
  owed          \* history: what was under way for a period when its total was
                \* read, or began between that and the close's commit

period == <<active, closing, summaries, owed>>

vars == <<today, period, goals, contributed, calls, begun, put>>

NotClosing == -1

Periods == 0 .. (MaxDay + ServerSkew) \div Length

NoGoal == [state |-> "none", target |-> 0, current |-> 0, status |-> "active"]

Idle == [pc |-> "idle", goal |-> "none", amount |-> 0, day |-> 0, period |-> 0]

Live(g) == goals[g].state = "live"

\* GoalContributionsTotalForPeriod: deleted goals count.
Total(p) == SumFunctionOnSet([g \in Goals |-> contributed[g][p]], Goals)

-----------------------------------------------------------------------------
(* Goals.                                                                  *)

CreateSavingsGoal(g) ==
  /\ goals[g].state = "none"
  /\ \E target \in Targets :
       goals' = [goals EXCEPT ![g] =
                   [NoGoal EXCEPT !.state = "live", !.target = target]]
  /\ UNCHANGED <<today, period, contributed, calls, begun, put>>

\* PUT replaces target and status, whatever the client saw of the goal.
UpdateSavingsGoal(g) ==
  /\ Live(g)
  /\ \E target \in Targets, status \in Statuses :
       goals' = [goals EXCEPT ![g].target = target, ![g].status = status]
  /\ put' = put \cup {g}
  /\ UNCHANGED <<today, period, contributed, calls, begun>>

SoftDeleteSavingsGoal(g) ==
  /\ Live(g) /\ goals' = [goals EXCEPT ![g].state = "deleted"]
  /\ UNCHANGED <<today, period, contributed, calls, begun, put>>

-----------------------------------------------------------------------------
(* Periods.                                                                *)

\* day is past the active period.
Past(day) == day >= (active + 1) * Length

\* A call that has resolved its period, or would resolve p now.
BoundFor(c, p) ==
  IF calls[c].pc = "resolve" THEN p = active /\ ~Past(calls[c].day)
                             ELSE p = calls[c].period

\* What the calls under way may still book in period p.
Pending(p) ==
  SumFunctionOnSet([c \in Calls |-> IF BoundFor(c, p) THEN calls[c].amount
                                                     ELSE 0], Calls)

\* ClosePeriodTx up to its last read; the scheduler, or a request of a day
\* past the period: a call, or one that lists transactions or budgets.  An
\* update of the settings goes by the server's own date, and may close it up
\* to ServerSkew days early.
StartClose ==
  /\ Past(today + ServerSkew) /\ closing = NotClosing
  /\ closing' = Total(active)
  /\ owed' = [owed EXCEPT ![active] = Pending(active)]
  /\ UNCHANGED <<today, active, summaries, goals, contributed, calls, begun,
                 put>>

CommitClose ==
  /\ closing # NotClosing /\ closing' = NotClosing
  /\ active' = active + 1
  /\ summaries' = [summaries EXCEPT ![active] = closing]
  /\ UNCHANGED <<today, owed, goals, contributed, calls, begun, put>>

RollBack ==
  /\ closing # NotClosing /\ closing' = NotClosing
  /\ UNCHANGED <<today, active, summaries, owed, goals, contributed, calls,
                 begun, put>>

Midnight ==
  /\ today < MaxDay /\ today' = today + 1
  /\ UNCHANGED <<period, goals, contributed, calls, begun, put>>

-----------------------------------------------------------------------------
(* AddContribution.                                                        *)

\* The goal is the user's and not deleted.
Begin(c) ==
  /\ calls[c].pc = "idle" /\ begun < MaxContributions /\ begun' = begun + 1
  /\ \E g \in Goals, amount \in Amounts :
       /\ Live(g)
       /\ calls' = [calls EXCEPT ![c] = [Idle EXCEPT !.pc = "resolve", !.goal = g,
                                  !.amount = amount, !.day = today]]
       /\ owed' = IF closing # NotClosing /\ ~Past(today)
                  THEN [owed EXCEPT ![active] = @ + amount] ELSE owed
  /\ UNCHANGED <<today, active, closing, summaries, goals, contributed, put>>

\* Mutant of ActivePeriod: the period of the contribution's date.
PeriodOfDate(p) == p \in 0 .. active

ActivePeriod(p) == p = active

\* activePeriod, of the day the call began: it waits for the periods that
\* ended before that day to be closed.
Resolve(c) ==
  /\ calls[c].pc = "resolve" /\ ~Past(calls[c].day)
  /\ \E p \in Periods :
       /\ ActivePeriod(p)
       /\ calls' = [calls EXCEPT ![c].pc = "verify", ![c].period = p]
  /\ UNCHANGED <<today, period, goals, contributed, begun, put>>

\* CreateContributionTx, up to its INSERT.
Verify(c) ==
  /\ calls[c].pc = "verify"
  /\ calls' = [calls EXCEPT ![c] =
                 IF Live(calls[c].goal) THEN [@ EXCEPT !.pc = "apply"]
                                        ELSE Idle]
  /\ UNCHANGED <<today, period, goals, contributed, begun, put>>

\* Mutant of Reaches: the CASE compares the amount before.
ReachedBefore(goal, amount) ==
  goal.current >= goal.target /\ goal.status # "achieved"

Reaches(goal, amount) ==
  goal.current + amount >= goal.target /\ goal.status # "achieved"

\* ApplyGoalContribution.
Raised(goal, amount) ==
  [goal EXCEPT !.current = @ + amount,
               !.status = IF Reaches(goal, amount) THEN "achieved" ELSE @]

\* Mutant of Booked: the INSERT commits by itself.
BookedFirst(c) == TRUE

\* A goal deleted since rolls the INSERT back.
Booked(c) == Live(calls[c].goal)

\* The INSERT, the UPDATE of the goal and the COMMIT.
Apply(c) ==
  LET g == calls[c].goal
      amount == calls[c].amount
  IN
  /\ calls[c].pc = "apply"
  /\ calls' = [calls EXCEPT ![c] = Idle]
  /\ contributed' = IF Booked(c)
                    THEN [contributed EXCEPT ![g][calls[c].period] = @ + amount]
                    ELSE contributed
  /\ IF Live(g)
     THEN goals' = [goals EXCEPT ![g] = Raised(@, amount)] /\ put' = put \ {g}
     ELSE UNCHANGED <<goals, put>>
  /\ UNCHANGED <<today, period, begun>>

\* The server stops, or a statement fails: nothing was committed.
Fail(c) ==
  /\ calls[c].pc # "idle" /\ calls' = [calls EXCEPT ![c] = Idle]
  /\ UNCHANGED <<today, period, goals, contributed, begun, put>>

-----------------------------------------------------------------------------
Init ==
  /\ today = 0 /\ active = 0 /\ closing = NotClosing /\ begun = 0
  /\ goals = [g \in Goals |-> NoGoal]
  /\ contributed = [g \in Goals |-> [p \in Periods |-> 0]]
  /\ summaries = [p \in Periods |-> 0] /\ owed = [p \in Periods |-> 0]
  /\ calls = [c \in Calls |-> Idle] /\ put = {}

Next ==
  \/ \E g \in Goals :
       CreateSavingsGoal(g) \/ UpdateSavingsGoal(g) \/ SoftDeleteSavingsGoal(g)
  \/ \E c \in Calls : Begin(c) \/ Resolve(c) \/ Verify(c) \/ Apply(c) \/ Fail(c)
  \/ StartClose \/ CommitClose \/ RollBack \/ Midnight

Spec == Init /\ [][Next]_vars

-----------------------------------------------------------------------------
(* Properties.                                                             *)

(***************************************************************************)
(* current_amount is the sum of the goal's contributions, whatever runs at *)
(* once, fails half way or deletes the goal in between                     *)
(* (store_savings_goals.go:41-80).                                         *)
(***************************************************************************)
CurrentIsSum ==
  \A g \in Goals :
    goals[g].current = SumFunctionOnSet(contributed[g], Periods)

(***************************************************************************)
(* A goal at its target is achieved unless a PUT came after its last       *)
(* contribution: the status in the body replaces 'achieved' even if the    *)
(* device had not seen it, and the target may move (savings_goal.go:157).  *)
(* The next contribution achieves the goal again.                          *)
(***************************************************************************)
AchievedUnlessPut ==
  \A g \in Goals :
    Live(g) /\ goals[g].current >= goals[g].target /\ g \notin put =>
      goals[g].status = "achieved"

(***************************************************************************)
(* The total in the summary of a closed period is never too high, and it   *)
(* misses no more than the contributions that were under way for the       *)
(* period when the close added up: no trigger refuses them                 *)
(* (savings_goal.go:191-209).  A close by an update of the settings, on    *)
(* the server's date (user_settings.go:100), may come while the period     *)
(* still lasts; it also misses those that begin before it commits.         *)
(***************************************************************************)
SummaryMissesTheLate ==
  \A p \in 0 .. active - 1 :
    summaries[p] <= Total(p) /\ Total(p) <= summaries[p] + owed[p]
=============================================================================
