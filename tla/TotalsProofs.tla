----------------------------- MODULE TotalsProofs ----------------------------
(***************************************************************************)
(* Proofs about SavingsGoals and Insights, whose properties are about sums *)
(* over finite sets.                                                       *)
(*                                                                         *)
(* For any number of goals and overlapping contributions, all amounts,     *)
(* targets and lengths of periods: a goal at its target is achieved unless *)
(* a PUT came after its last contribution, what it has received is the sum *)
(* of its contributions, and the summary of a period misses no more than   *)
(* what was under way when it was closed.                                  *)
(*                                                                         *)
(* For any categories, amounts, budgets and lengths of periods: what the   *)
(* insights of the open period say and what the close says go together,    *)
(* day by day.                                                             *)
(***************************************************************************)
EXTENDS SavingsGoals, Insights, FiniteSetTheorems, WellFoundedInduction, TLAPS

GoalStatuses == {"active", "achieved", "abandoned", "paused"}

GoalRows ==
  [state : {"none", "live", "deleted"}, target : Nat, current : Nat,
   status : GoalStatuses]

CallRows ==
  [pc : {"idle", "resolve", "verify", "apply"}, goal : Goals \cup {"none"},
   amount : Nat, day : Int, period : Int]

(***************************************************************************)
(* A goal that does not exist yet has nothing in it, so that it is below   *)
(* its target, which is positive, when it is created.                      *)
(***************************************************************************)
GoalOK(g) ==
  /\ goals[g].state = "none" => goals[g].current = 0
  /\ Live(g) /\ goals[g].current >= goals[g].target /\ g \notin put =>
       goals[g].status = "achieved"

\* A contribution under way is to a goal.
CallOK(c) == calls[c].pc # "idle" => calls[c].goal \in Goals

IInv ==
  /\ today \in Int /\ goals \in [Goals -> GoalRows]
  /\ calls \in [Calls -> CallRows]
  /\ \A g \in Goals : GoalOK(g)
  /\ \A c \in Calls : CallOK(c)

-----------------------------------------------------------------------------
(* Each step keeps the invariant.                                          *)

\* Nothing exists, nothing is under way.
LEMMA InitInvariant == Init => IInv
<1> SUFFICES ASSUME Init PROVE IInv
  OBVIOUS
<1>1. NoGoal \in GoalRows /\ NoGoal.state = "none" /\ NoGoal.current = 0
  BY DEF NoGoal, GoalRows, GoalStatuses
<1>2. Idle \in CallRows /\ Idle.pc = "idle"
  BY DEF Idle, CallRows
<1> QED BY <1>1, <1>2 DEF Init, IInv, GoalOK, CallOK, Live

\* One goal changes at most.
LEMMA GoalStep ==
  ASSUME IInv, NEW g \in Goals, NEW row \in GoalRows,
         goals' = [goals EXCEPT ![g] = row],
         \A h \in Goals \ {g} : h \in put <=> h \in put',
         today' = today, calls' \in [Calls -> CallRows],
         \A c \in Calls : CallOK(c)',
         row.state # "none",
         row.state = "live" /\ row.current >= row.target /\ g \notin put' =>
           row.status = "achieved"
  PROVE  IInv'
<1>1. /\ goals' \in [Goals -> GoalRows] /\ goals'[g] = row
      /\ \A h \in Goals \ {g} : goals'[h] = goals[h]
  BY DEF IInv
<1>2. \A h \in Goals : GoalOK(h)'
  BY <1>1 DEF IInv, GoalOK, Live
<1> QED BY <1>1, <1>2 DEF IInv

\* One contribution goes on, goals stay as they are.
LEMMA CallStep ==
  ASSUME IInv, NEW c \in Calls, NEW call \in CallRows,
         calls' = [calls EXCEPT ![c] = call],
         call.pc # "idle" => call.goal \in Goals,
         UNCHANGED <<today, goals, put>>
  PROVE  IInv'
<1>1. /\ calls' \in [Calls -> CallRows] /\ calls'[c] = call
      /\ \A d \in Calls \ {c} : calls'[d] = calls[d]
  BY DEF IInv
<1>2. \A d \in Calls : CallOK(d)'
  BY <1>1 DEF IInv, CallOK
<1>3. \A g \in Goals : GoalOK(g)'
  BY DEF IInv, GoalOK, Live
<1> QED BY <1>1, <1>2, <1>3 DEF IInv

\* Goals, contributions under way and PUTs stay as they are.
LEMMA PeriodStep ==
  ASSUME IInv, today' \in Int, UNCHANGED <<goals, calls, put>>
  PROVE  IInv'
  BY DEF IInv, GoalOK, CallOK, Live

\* Creation, PUT and deletion of a goal.
LEMMA StepGoal ==
  ASSUME IInv, NEW g \in Goals,
         \/ CreateSavingsGoal(g) \/ UpdateSavingsGoal(g)
         \/ SoftDeleteSavingsGoal(g)
  PROVE  IInv'
<1>1. PICK old \in GoalRows : old = goals[g] /\ GoalOK(g)
  BY DEF IInv
<1>2. CASE CreateSavingsGoal(g)
  <2>1. PICK target \in Targets :
          /\ goals' = [goals EXCEPT ![g] =
               [NoGoal EXCEPT !.state = "live", !.target = target]]
          /\ UNCHANGED <<today, calls, put>>
    BY <1>2 DEF CreateSavingsGoal
  <2>2. PICK row : row = [NoGoal EXCEPT !.state = "live", !.target = target]
    OBVIOUS
  <2>3. row = [state |-> "live", target |-> target, current |-> 0,
               status |-> "active"]
    BY <2>2 DEF NoGoal
  <2>4. target \in Nat /\ target > 0
    BY SavingsGoalsAssumption
  <2>5. /\ row \in GoalRows /\ row.state = "live"
        /\ ~(row.current >= row.target)
    BY <2>3, <2>4 DEF GoalRows, GoalStatuses
  <2>6. goals' = [goals EXCEPT ![g] = row]
    BY <2>1, <2>2
  <2>7. calls' \in [Calls -> CallRows] /\ \A c \in Calls : CallOK(c)'
    BY <2>1 DEF IInv, CallOK
  <2> QED BY <2>1, <2>5, <2>6, <2>7, GoalStep
<1>3. CASE UpdateSavingsGoal(g)
  <2>1. PICK target \in Targets, status \in Statuses :
          /\ goals' = [goals EXCEPT ![g].target = target, ![g].status = status]
          /\ put' = put \cup {g} /\ UNCHANGED <<today, calls>> /\ Live(g)
    BY <1>3 DEF UpdateSavingsGoal
  <2>2. PICK row : row = [old EXCEPT !.target = target, !.status = status]
    OBVIOUS
  <2>3. target \in Nat /\ status \in GoalStatuses
    BY SavingsGoalsAssumption DEF GoalStatuses
  <2>4. row \in GoalRows /\ row.state = old.state
    BY <2>2, <2>3 DEF GoalRows
  <2>5. goals' = [goals EXCEPT ![g] = row]
    BY <1>1, <2>1, <2>2, Zenon DEF IInv
  <2>6. calls' \in [Calls -> CallRows] /\ \A c \in Calls : CallOK(c)'
    BY <2>1 DEF IInv, CallOK
  <2>7. row.state # "none"
    BY <1>1, <2>1, <2>4 DEF Live
  <2> QED BY <2>1, <2>4, <2>5, <2>6, <2>7, GoalStep
<1>4. CASE SoftDeleteSavingsGoal(g)
  <2>1. /\ goals' = [goals EXCEPT ![g].state = "deleted"]
        /\ UNCHANGED <<today, calls, put>>
    BY <1>4 DEF SoftDeleteSavingsGoal
  <2>2. PICK row : row = [old EXCEPT !.state = "deleted"]
    OBVIOUS
  <2>3. row \in GoalRows /\ row.state = "deleted"
    BY <2>2 DEF GoalRows
  <2>4. goals' = [goals EXCEPT ![g] = row]
    BY <1>1, <2>1, <2>2 DEF IInv
  <2>5. calls' \in [Calls -> CallRows] /\ \A c \in Calls : CallOK(c)'
    BY <2>1 DEF IInv, CallOK
  <2> QED BY <2>1, <2>3, <2>4, <2>5, GoalStep
<1> QED BY <1>2, <1>3, <1>4

\* A call begins, resolves its period, verifies its goal or fails.
LEMMA StepCall ==
  ASSUME IInv, NEW c \in Calls,
         Begin(c) \/ Resolve(c) \/ Verify(c) \/ Fail(c)
  PROVE  IInv'
<1>1. PICK old \in CallRows : old = calls[c] /\ CallOK(c)
  BY DEF IInv
<1>2. Idle \in CallRows /\ Idle.pc = "idle"
  BY DEF Idle, CallRows
<1>3. CASE Begin(c)
  <2>1. PICK g \in Goals, amount \in Amounts :
          /\ calls' = [calls EXCEPT ![c] =
               [Idle EXCEPT !.pc = "resolve", !.goal = g, !.amount = amount,
                            !.day = today]]
          /\ UNCHANGED <<today, goals, put>>
    BY <1>3 DEF Begin
  <2>2. PICK call : call = [Idle EXCEPT !.pc = "resolve", !.goal = g,
                                        !.amount = amount, !.day = today]
    OBVIOUS
  <2>3. call = [pc |-> "resolve", goal |-> g, amount |-> amount,
                day |-> today, period |-> 0]
    BY <2>2 DEF Idle
  <2>4. call \in CallRows /\ call.goal = g
    BY <2>3, SavingsGoalsAssumption DEF CallRows, IInv
  <2>5. calls' = [calls EXCEPT ![c] = call]
    BY <2>1, <2>2, Zenon
  <2> QED BY <2>1, <2>4, <2>5, CallStep
<1>4. CASE Resolve(c)
  <2>1. PICK p \in Periods :
          /\ calls' = [calls EXCEPT ![c].pc = "verify", ![c].period = p]
          /\ calls[c].pc = "resolve" /\ UNCHANGED <<today, goals, put>>
    BY <1>4 DEF Resolve
  <2>2. PICK call : call = [old EXCEPT !.pc = "verify", !.period = p]
    OBVIOUS
  <2>3. p \in Int
    BY DEF Periods
  <2>4. call \in CallRows /\ call.goal = old.goal
    BY <2>2, <2>3 DEF CallRows
  <2>5. calls' = [calls EXCEPT ![c] = call]
    BY <1>1, <2>1, <2>2, Zenon DEF IInv
  <2> QED BY <1>1, <2>1, <2>4, <2>5, CallStep DEF CallOK
<1>5. CASE Verify(c)
  <2>1. PICK call : call = [old EXCEPT !.pc = "apply"]
    OBVIOUS
  <2>2. call \in CallRows /\ call.goal = old.goal
    BY <2>1 DEF CallRows
  <2>3. /\ \/ calls' = [calls EXCEPT ![c] = call]
           \/ calls' = [calls EXCEPT ![c] = Idle]
        /\ calls[c].pc = "verify" /\ UNCHANGED <<today, goals, put>>
    BY <1>1, <1>5, <2>1 DEF Verify, IInv
  <2> QED BY <1>1, <1>2, <2>2, <2>3, CallStep DEF CallOK
<1>6. CASE Fail(c)
  BY <1>2, <1>6, CallStep DEF Fail
<1> QED BY <1>3, <1>4, <1>5, <1>6

\* The contribution that reaches the target achieves the goal.
LEMMA StepApply ==
  ASSUME IInv, NEW c \in Calls, Apply(c)
  PROVE  IInv'
<1>1. PICK call \in CallRows, g \in Goals, amount \in Nat :
        call = calls[c] /\ g = call.goal /\ amount = call.amount
  <2>1. calls[c] \in CallRows /\ calls[c].goal \in Goals
    BY DEF Apply, IInv, CallOK
  <2> QED BY <2>1 DEF CallRows
<1>2. PICK old \in GoalRows : old = goals[g] /\ GoalOK(g)
  BY DEF IInv
<1>3. /\ calls' = [calls EXCEPT ![c] = Idle] /\ today' = today
      /\ IF Live(g)
         THEN goals' = [goals EXCEPT ![g] = Raised(@, amount)]
              /\ put' = put \ {g}
         ELSE UNCHANGED <<goals, put>>
  BY <1>1, Zenon DEF Apply
<1>4. Idle \in CallRows /\ Idle.pc = "idle"
  BY DEF Idle, CallRows
<1>5. calls' \in [Calls -> CallRows] /\ \A d \in Calls : CallOK(d)'
  BY <1>3, <1>4 DEF IInv, CallOK
<1>6. CASE ~Live(g)
  BY <1>3, <1>4, <1>6, CallStep
<1>7. CASE Live(g)
  <2>1. PICK status \in GoalStatuses, sum \in Nat :
          /\ sum = old.current + amount
          /\ status = IF Reaches(old, amount) THEN "achieved" ELSE old.status
    BY DEF GoalRows, GoalStatuses
  <2>2. PICK row : row = [old EXCEPT !.current = sum, !.status = status]
    OBVIOUS
  <2>3. /\ row \in GoalRows /\ row.state = old.state
        /\ row.target = old.target /\ row.current = sum /\ row.status = status
    BY <2>2 DEF GoalRows
  <2>4. row = Raised(old, amount)
    BY <2>1, <2>2, Zenon DEF Raised
  <2>5. goals' = [goals EXCEPT ![g] = row]
    BY <1>2, <1>3, <1>7, <2>4 DEF IInv
  <2>6. row.current >= row.target => row.status = "achieved"
    BY <2>1, <2>3 DEF Reaches
  <2>7. \A h \in Goals \ {g} : h \in put <=> h \in put'
    BY <1>3, <1>7
  <2> QED BY <1>2, <1>3, <1>5, <1>7, <2>3, <2>5, <2>6, <2>7, GoalStep DEF Live
<1> QED BY <1>6, <1>7

\* Every step, and a stutter, keeps the invariant.
LEMMA StepInvariant == IInv /\ [Next]_vars => IInv'
<1> SUFFICES ASSUME IInv, [Next]_vars PROVE IInv'
  OBVIOUS
<1>1. CASE StartClose \/ CommitClose \/ RollBack
  BY <1>1, PeriodStep DEF StartClose, CommitClose, RollBack, IInv
<1>2. CASE Midnight
  <2>1. today' \in Int /\ UNCHANGED <<goals, calls, put>>
    BY <1>2 DEF Midnight, IInv
  <2> QED BY <2>1, PeriodStep
<1>3. CASE UNCHANGED vars
  <2>1. today' = today /\ UNCHANGED <<goals, calls, put>>
    BY <1>3 DEF vars
  <2>2. today' \in Int
    BY <2>1 DEF IInv
  <2> QED BY <2>1, <2>2, PeriodStep
<1> QED BY <1>1, <1>2, <1>3, StepGoal, StepCall, StepApply DEF Next

(***************************************************************************)
(* A goal at its target is achieved, however contributions overlap with    *)
(* each other and with deletes, unless a PUT came after the last of them   *)
(* (savings_goals.sql.go, ApplyGoalContribution; savings_goal.go:157).     *)
(***************************************************************************)
THEOREM AchievedUnlessPutCorrect == Spec => []AchievedUnlessPut
<1>1. IInv => AchievedUnlessPut
  BY DEF IInv, GoalOK, AchievedUnlessPut
<1> QED BY <1>1, InitInvariant, StepInvariant, PTL DEF Spec
-----------------------------------------------------------------------------
(* What a sum over a finite set does when one of its terms changes.        *)

Pick(s) == CHOOSE x \in s : TRUE

\* it[s] is the sum of f over s, for each part s of S.
Partial(f, S, it) ==
  it = [s \in SUBSET S |-> IF s = {} THEN 0 ELSE f[Pick(s)] + it[s \ {Pick(s)}]]

\* Among parts of a finite set, one has none of the others one element below it.
LEMMA LeastPart ==
  ASSUME NEW S, IsFiniteSet(S), NEW B \in SUBSET SUBSET S, B # {}
  PROVE  \E s \in B : \A x \in s : s \ {x} \notin B
<1> DEFINE N == {Cardinality(s) : s \in B}
<1>1. \A s \in B : IsFiniteSet(s) /\ Cardinality(s) \in Nat
  BY FS_Subset, FS_CardinalityType
<1>2. N \subseteq Nat /\ N # {}
  BY <1>1
<1>3. PICK n \in N : \A m \in N : ~(<<m, n>> \in OpToRel(<, Nat))
  <2> HIDE DEF N
  <2> QED BY <1>2, NatLessThanWellFounded, WFMin
<1>4. PICK s \in B : Cardinality(s) = n
  OBVIOUS
<1>5. ASSUME NEW x \in s, s \ {x} \in B
      PROVE  FALSE
  <2>1. /\ Cardinality(s \ {x}) = n - 1 /\ n \in Nat
        /\ Cardinality(s \ {x}) \in Nat
    BY <1>1, <1>4, <1>5, FS_RemoveElement
  <2>2. <<n - 1, n>> \in OpToRel(<, Nat)
    BY <2>1 DEF OpToRel
  <2>3. n - 1 \in N
    BY <1>5, <2>1
  <2> QED BY <1>3, <2>2, <2>3
<1> QED BY <1>5

\* The element taken from a set that is not empty is one of its own.
LEMMA PickIn ==
  ASSUME NEW s, s # {}
  PROVE  Pick(s) \in s
  BY DEF Pick

\* Partial sums read equation by equation.
LEMMA PartialStep ==
  ASSUME NEW f, NEW S, NEW it, Partial(f, S, it)
  PROVE  /\ it[{}] = 0
         /\ \A s \in SUBSET S :
              s # {} => it[s] = f[Pick(s)] + it[s \ {Pick(s)}]
<1>1. {} \in SUBSET S
  OBVIOUS
<1> QED BY <1>1, Zenon DEF Partial

\* The partial sums of a finite set exist.
LEMMA PartialExists ==
  ASSUME NEW f, NEW S, IsFiniteSet(S)
  PROVE  \E it : Partial(f, S, it)
<1> DEFINE Small(n) == {s \in SUBSET S : Cardinality(s) <= n}
           UpTo(n, it) ==
             it = [s \in Small(n) |->
                     IF s = {} THEN 0 ELSE f[Pick(s)] + it[s \ {Pick(s)}]]
           Bad == {n \in Nat : ~\E it : UpTo(n, it)}
<1>1. \A s \in SUBSET S : IsFiniteSet(s) /\ Cardinality(s) \in Nat
  BY FS_Subset, FS_CardinalityType
<1>2. \A s \in SUBSET S : \A x \in s :
        /\ s \ {x} \in SUBSET S
        /\ Cardinality(s \ {x}) = Cardinality(s) - 1
  BY <1>1, FS_RemoveElement
<1>3. ASSUME Bad # {} PROVE FALSE
  <2>1. PICK n \in Bad : \A m \in Bad : ~(<<m, n>> \in OpToRel(<, Nat))
    <3>1. Bad \subseteq Nat
      OBVIOUS
    <3> HIDE DEF Bad
    <3> QED BY <1>3, <3>1, NatLessThanWellFounded, WFMin
  <2>2. n # 0
    <3> SUFFICES ASSUME n = 0 PROVE FALSE
      OBVIOUS
    <3>1. Small(0) = {{}}
      BY <1>1, FS_EmptySet
    <3>2. UpTo(0, [s \in {{}} |-> 0])
      BY <3>1
    <3> QED BY <3>2
  <2>3. n \in Nat /\ n - 1 \in Nat
    BY <2>2
  <2>4. <<n - 1, n>> \in OpToRel(<, Nat)
    BY <2>3 DEF OpToRel
  <2>5. n - 1 \notin Bad
    <3> HIDE DEF Bad
    <3> QED BY <2>1, <2>4
  <2>6. PICK it : UpTo(n - 1, it)
    BY <2>3, <2>5
  <2> DEFINE new == [s \in Small(n) |->
                       IF s \in Small(n - 1) THEN it[s]
                       ELSE f[Pick(s)] + it[s \ {Pick(s)}]]
  <2>7. \A s \in Small(n) : s # {} => s \ {Pick(s)} \in Small(n - 1)
    BY <1>1, <1>2, <2>3, PickIn
  <2>8. \A s \in Small(n - 1) : new[s] = it[s]
    BY <1>1, <2>3
  <2>9. {} \in Small(n - 1)
    BY <2>3, FS_EmptySet
  <2>10. ASSUME NEW s \in Small(n)
         PROVE  new[s] = IF s = {} THEN 0
                         ELSE f[Pick(s)] + new[s \ {Pick(s)}]
    <3>1. CASE s \in Small(n - 1)
      <4>1. new[s] = it[s]
        BY <2>8, <3>1
      <4>2. it[s] = IF s = {} THEN 0 ELSE f[Pick(s)] + it[s \ {Pick(s)}]
        BY <2>6, <3>1, Zenon
      <4>3. s # {} => new[s \ {Pick(s)}] = it[s \ {Pick(s)}]
        BY <2>7, <2>8
      <4> HIDE DEF new, Small
      <4> QED BY <4>1, <4>2, <4>3, Zenon
    <3>2. CASE s \notin Small(n - 1)
      <4>1. new[s] = f[Pick(s)] + it[s \ {Pick(s)}]
        BY <3>2
      <4>2. s # {}
        BY <2>9, <3>2
      <4>3. new[s \ {Pick(s)}] = it[s \ {Pick(s)}]
        BY <2>7, <2>8, <4>2
      <4> HIDE DEF new, Small
      <4> QED BY <4>1, <4>2, <4>3, Zenon
    <3> QED BY <3>1, <3>2
  <2>11. UpTo(n, new)
    <3>1. new = [s \in Small(n) |-> new[s]]
      OBVIOUS
    <3> HIDE DEF new, Small
    <3> QED BY <2>10, <3>1, Zenon
  <2> HIDE DEF new
  <2>12. n \notin Bad
    BY <2>11
  <2> QED BY <2>12
<1>4. PICK it : UpTo(Cardinality(S), it)
  BY <1>1, <1>3
<1>5. Small(Cardinality(S)) = SUBSET S
  BY FS_Subset, FS_CardinalityType
<1> QED BY <1>4, <1>5, Zenon DEF Partial

\* A sum over a finite set is one of the partial sums.
LEMMA SumIsPartial ==
  ASSUME NEW f, NEW S, IsFiniteSet(S)
  PROVE  \E it : Partial(f, S, it) /\ SumFunctionOnSet(f, S) = it[S]
<1>1. SumFunctionOnSet(f, S) = (CHOOSE it : Partial(f, S, it))[S]
  BY Zenon
     DEF SumFunctionOnSet, FoldFunctionOnSet, MapThenFoldSet, Partial, Pick
<1>2. Partial(f, S, CHOOSE it : Partial(f, S, it))
  BY PartialExists, Zenon
<1> QED BY <1>1, <1>2, Zenon

(***************************************************************************)
(* A sum of integers is an integer; of naturals it is not negative, and of *)
(* zeros it is zero.                                                       *)
(***************************************************************************)
LEMMA SumType ==
  ASSUME NEW S, IsFiniteSet(S), NEW f, \A x \in S : f[x] \in Int
  PROVE  /\ SumFunctionOnSet(f, S) \in Int
         /\ (\A x \in S : f[x] >= 0) => SumFunctionOnSet(f, S) >= 0
         /\ (\A x \in S : f[x] = 0) => SumFunctionOnSet(f, S) = 0
<1>1. PICK it : Partial(f, S, it) /\ SumFunctionOnSet(f, S) = it[S]
  BY SumIsPartial
<1> DEFINE Good(s) == /\ it[s] \in Int
                      /\ (\A x \in S : f[x] >= 0) => it[s] >= 0
                      /\ (\A x \in S : f[x] = 0) => it[s] = 0
           Bad == {s \in SUBSET S : ~Good(s)}
<1>2. ASSUME Bad # {} PROVE FALSE
  <2>1. PICK s \in Bad : \A x \in s : s \ {x} \notin Bad
    <3>1. Bad \in SUBSET SUBSET S
      OBVIOUS
    <3> HIDE DEF Bad
    <3> QED BY <1>2, <3>1, LeastPart
  <2>2. CASE s = {}
    <3>1. it[s] = 0
      BY <1>1, <2>2, PartialStep
    <3> QED BY <2>1, <3>1
  <2>3. CASE s # {}
    <3>1. PICK x \in s : x = Pick(s)
      BY <2>3, PickIn
    <3>2. it[s] = f[x] + it[s \ {x}]
      BY <1>1, <2>1, <2>3, <3>1, PartialStep
    <3>3. Good(s \ {x}) /\ f[x] \in Int /\ x \in S
      BY <2>1
    <3> QED BY <2>1, <3>2, <3>3
  <2> QED BY <2>2, <2>3
<1>3. Good(S)
  BY <1>2
<1> QED BY <1>1, <1>3

(***************************************************************************)
(* Two functions that differ at x alone have sums that differ by what they *)
(* differ there, if it is one of the elements added up.                    *)
(***************************************************************************)
LEMMA SumChange ==
  ASSUME NEW S, IsFiniteSet(S), NEW f, NEW g, NEW x,
         \A y \in S : f[y] \in Int /\ g[y] \in Int,
         \A y \in S \ {x} : g[y] = f[y]
  PROVE  SumFunctionOnSet(g, S) =
           SumFunctionOnSet(f, S) + (IF x \in S THEN g[x] - f[x] ELSE 0)
<1>1. PICK i : Partial(f, S, i) /\ SumFunctionOnSet(f, S) = i[S]
  BY SumIsPartial
<1>2. PICK j : Partial(g, S, j) /\ SumFunctionOnSet(g, S) = j[S]
  BY SumIsPartial
<1> DEFINE Good(s) == /\ i[s] \in Int /\ j[s] \in Int
                      /\ j[s] = i[s] + (IF x \in s THEN g[x] - f[x] ELSE 0)
           Bad == {s \in SUBSET S : ~Good(s)}
<1>3. ASSUME Bad # {} PROVE FALSE
  <2>1. PICK s \in Bad : \A y \in s : s \ {y} \notin Bad
    <3>1. Bad \in SUBSET SUBSET S
      OBVIOUS
    <3> HIDE DEF Bad
    <3> QED BY <1>3, <3>1, LeastPart
  <2>2. CASE s = {}
    <3>1. i[{}] = 0
      BY <1>1, PartialStep
    <3>2. j[{}] = 0
      BY <1>2, PartialStep
    <3> QED BY <2>1, <2>2, <3>1, <3>2
  <2>3. CASE s # {}
    <3>1. PICK y \in s : y = Pick(s)
      BY <2>3, PickIn
    <3>2. /\ i[s] = f[y] + i[s \ {y}]
          /\ j[s] = g[y] + j[s \ {y}]
      <4>1. i[s] = f[y] + i[s \ {y}]
        BY <1>1, <2>1, <2>3, <3>1, PartialStep
      <4>2. j[s] = g[y] + j[s \ {y}]
        BY <1>2, <2>1, <2>3, <3>1, PartialStep
      <4> QED BY <4>1, <4>2
    <3>3. Good(s \ {y}) /\ y \in S /\ f[y] \in Int /\ g[y] \in Int
      BY <2>1
    <3>4. CASE y = x
      BY <2>1, <3>2, <3>3, <3>4
    <3>5. CASE y # x
      <4>1. g[y] = f[y]
        BY <3>3, <3>5
      <4>2. x \in s => f[x] \in Int /\ g[x] \in Int
        BY <2>1
      <4> QED BY <2>1, <3>2, <3>3, <3>5, <4>1, <4>2
    <3> QED BY <3>4, <3>5
  <2> QED BY <2>2, <2>3
<1>4. Good(S)
  BY <1>3
<1> QED BY <1>1, <1>2, <1>4

(***************************************************************************)
(* What is left of a sum when a term is taken out, whichever it is, and    *)
(* when only part of the set is added up.                                  *)
(***************************************************************************)
\* A partial sum read at a part that is not empty.
LEMMA PartialOne ==
  ASSUME NEW f, NEW S, NEW it, Partial(f, S, it)
  PROVE  \A s \in SUBSET S : \A y \in s :
           y = Pick(s) => it[s] = f[y] + it[s \ {y}]
<1> SUFFICES ASSUME NEW s \in SUBSET S, NEW y \in s, y = Pick(s)
             PROVE  it[s] = f[y] + it[s \ {y}]
  OBVIOUS
<1>1. s # {}
  OBVIOUS
<1>2. it[s] = f[Pick(s)] + it[s \ {Pick(s)}]
  BY <1>1, PartialStep
<1> QED BY <1>2

\* Partial sums of integers are integers.
LEMMA PartialInt ==
  ASSUME NEW f, NEW S, IsFiniteSet(S), NEW it, Partial(f, S, it),
         \A x \in S : f[x] \in Int
  PROVE  \A s \in SUBSET S : it[s] \in Int
<1>1. it[{}] = 0
  BY PartialStep
<1> DEFINE Bad == {s \in SUBSET S : it[s] \notin Int}
<1>2. ASSUME Bad # {} PROVE FALSE
  <2>1. PICK s \in Bad : \A y \in s : s \ {y} \notin Bad
    <3>1. Bad \in SUBSET SUBSET S
      OBVIOUS
    <3> HIDE DEF Bad
    <3> QED BY <1>2, <3>1, LeastPart
  <2>2. CASE s = {}
    BY <1>1, <2>1, <2>2
  <2>3. CASE s # {}
    <3>1. PICK y \in s : y = Pick(s)
      BY <2>3, PickIn
    <3>2. it[s] = f[y] + it[s \ {y}]
      BY <2>1, <3>1, PartialOne
    <3>3. it[s \ {y}] \in Int /\ f[y] \in Int
      BY <2>1
    <3> QED BY <2>1, <3>2, <3>3
  <2> QED BY <2>2, <2>3
<1> QED BY <1>2

\* A term taken out anywhere.
LEMMA PartialRemove ==
  ASSUME NEW f, NEW S, IsFiniteSet(S), NEW it, Partial(f, S, it),
         \A x \in S : f[x] \in Int
  PROVE  \A s \in SUBSET S : \A x \in s : it[s] = f[x] + it[s \ {x}]
<1>1. \A s \in SUBSET S : it[s] \in Int
  BY PartialInt, Zenon
<1> DEFINE Good(s) == \A x \in s : it[s] = f[x] + it[s \ {x}]
           Bad == {s \in SUBSET S : ~Good(s)}
<1>2. ASSUME Bad # {} PROVE FALSE
  <2>1. PICK s \in Bad : \A y \in s : s \ {y} \notin Bad
    <3>1. Bad \in SUBSET SUBSET S
      OBVIOUS
    <3> HIDE DEF Bad
    <3> QED BY <1>2, <3>1, LeastPart
  <2>2. PICK y \in s : y = Pick(s)
    BY <2>1, PickIn
  <2>3. it[s] = f[y] + it[s \ {y}] /\ y \in S
    BY <2>1, <2>2, PartialOne
  <2>4. ASSUME NEW x \in s, x # y PROVE it[s] = f[x] + it[s \ {x}]
    <3>1. PICK r : r = s \ {x, y}
      OBVIOUS
    <3>2. (s \ {x}) \ {y} = r /\ (s \ {y}) \ {x} = r /\ r \in SUBSET S
      BY <2>1, <3>1
    <3>3. x \in s \ {y} /\ y \in s \ {x} /\ x \in S
      BY <2>1, <2>4
    <3>4. Good(s \ {x}) /\ Good(s \ {y})
      BY <2>1
    <3>5. it[s \ {y}] = f[x] + it[r] /\ it[s \ {x}] = f[y] + it[r]
      BY <3>2, <3>3, <3>4, Zenon
    <3>6. it[r] \in Int /\ f[x] \in Int /\ f[y] \in Int
      BY <1>1, <2>3, <3>2, <3>3
    <3> QED BY <2>3, <3>5, <3>6
  <2>5. Good(s)
    BY <2>3, <2>4
  <2> QED BY <2>1, <2>5
<1> QED BY <1>2

\* The sum of a part of S is a partial sum of S.
LEMMA PartOfSum ==
  ASSUME NEW f, NEW S, IsFiniteSet(S), NEW it, Partial(f, S, it),
         NEW R \in SUBSET S
  PROVE  SumFunctionOnSet(f, R) = it[R]
<1>1. it[{}] = 0
  BY PartialStep
<1>2. IsFiniteSet(R)
  BY FS_Subset
<1>3. PICK j : Partial(f, R, j) /\ SumFunctionOnSet(f, R) = j[R]
  BY <1>2, SumIsPartial
<1>4. j[{}] = 0
  BY <1>3, PartialStep
<1> DEFINE Bad == {s \in SUBSET R : it[s] # j[s]}
<1>5. ASSUME Bad # {} PROVE FALSE
  <2>1. PICK s \in Bad : \A y \in s : s \ {y} \notin Bad
    <3>1. Bad \in SUBSET SUBSET R
      OBVIOUS
    <3> HIDE DEF Bad
    <3> QED BY <1>2, <1>5, <3>1, LeastPart
  <2>2. CASE s = {}
    BY <1>1, <1>4, <2>1, <2>2
  <2>3. CASE s # {}
    <3>1. PICK y \in s : y = Pick(s)
      BY <2>3, PickIn
    <3>2. it[s] = f[y] + it[s \ {y}] /\ j[s] = f[y] + j[s \ {y}]
      <4>1. s \in SUBSET S /\ s \in SUBSET R
        BY <2>1
      <4>2. it[s] = f[y] + it[s \ {y}]
        BY <3>1, <4>1, PartialOne
      <4>3. j[s] = f[y] + j[s \ {y}]
        BY <1>3, <3>1, <4>1, PartialOne
      <4> QED BY <4>2, <4>3
    <3>3. it[s \ {y}] = j[s \ {y}]
      BY <2>1
    <3> QED BY <2>1, <3>2, <3>3
  <2> QED BY <2>2, <2>3
<1> QED BY <1>3, <1>5

\* A sum grows with its terms.
LEMMA SumMonotone ==
  ASSUME NEW S, IsFiniteSet(S), NEW f, NEW g,
         \A x \in S : f[x] \in Int /\ g[x] \in Int /\ f[x] <= g[x]
  PROVE  SumFunctionOnSet(f, S) <= SumFunctionOnSet(g, S)
<1>1. PICK i : Partial(f, S, i) /\ SumFunctionOnSet(f, S) = i[S]
  BY SumIsPartial
<1>2. PICK j : Partial(g, S, j) /\ SumFunctionOnSet(g, S) = j[S]
  BY SumIsPartial
<1>3. \A s \in SUBSET S : i[s] \in Int /\ j[s] \in Int
  <2>1. \A s \in SUBSET S : i[s] \in Int
    BY <1>1, PartialInt
  <2>2. \A s \in SUBSET S : j[s] \in Int
    BY <1>2, PartialInt
  <2> QED BY <2>1, <2>2
<1> DEFINE Bad == {s \in SUBSET S : ~(i[s] <= j[s])}
<1>4. ASSUME Bad # {} PROVE FALSE
  <2>1. PICK s \in Bad : \A y \in s : s \ {y} \notin Bad
    <3>1. Bad \in SUBSET SUBSET S
      OBVIOUS
    <3> HIDE DEF Bad
    <3> QED BY <1>4, <3>1, LeastPart
  <2>2. CASE s = {}
    <3>1. i[{}] = 0
      BY <1>1, PartialStep
    <3>2. j[{}] = 0
      BY <1>2, PartialStep
    <3> QED BY <2>1, <2>2, <3>1, <3>2
  <2>3. CASE s # {}
    <3>1. PICK y \in s : y = Pick(s)
      BY <2>3, PickIn
    <3>2. i[s] = f[y] + i[s \ {y}]
      BY <1>1, <2>1, <3>1, PartialOne
    <3>3. j[s] = g[y] + j[s \ {y}]
      BY <1>2, <2>1, <3>1, PartialOne
    <3>4. i[s \ {y}] <= j[s \ {y}] /\ f[y] <= g[y]
      BY <2>1
    <3>5. /\ i[s \ {y}] \in Int /\ j[s \ {y}] \in Int
          /\ f[y] \in Int /\ g[y] \in Int
      BY <1>3, <2>1
    <3> QED BY <2>1, <3>2, <3>3, <3>4, <3>5
  <2> QED BY <2>2, <2>3
<1> QED BY <1>1, <1>2, <1>4

\* A sum of naturals grows with the set.
LEMMA SumOfPart ==
  ASSUME NEW f, NEW S, IsFiniteSet(S), \A x \in S : f[x] \in Nat,
         NEW R \in SUBSET S
  PROVE  SumFunctionOnSet(f, R) <= SumFunctionOnSet(f, S)
<1>1. PICK it : Partial(f, S, it) /\ SumFunctionOnSet(f, S) = it[S]
  BY SumIsPartial
<1>2. \A x \in S : f[x] \in Int
  OBVIOUS
<1>3. \A s \in SUBSET S : it[s] \in Int
  BY <1>1, <1>2, PartialInt
<1> DEFINE Bad == {s \in SUBSET (S \ R) : ~(it[R] <= it[R \cup s])}
<1>4. ASSUME Bad # {} PROVE FALSE
  <2>1. PICK s \in Bad : \A y \in s : s \ {y} \notin Bad
    <3>1. Bad \in SUBSET SUBSET (S \ R) /\ IsFiniteSet(S \ R)
      BY FS_Subset
    <3> HIDE DEF Bad
    <3> QED BY <1>4, <3>1, LeastPart
  <2>2. it[R] \in Int
    BY <1>3
  <2>3. CASE s = {}
    <3>1. R \cup s = R
      BY <2>3
    <3> QED BY <2>1, <2>2, <3>1
  <2>4. CASE s # {}
    <3>1. PICK y \in s : TRUE
      BY <2>4
    <3>2. /\ (R \cup s) \ {y} = R \cup (s \ {y}) /\ y \in S
          /\ R \cup s \in SUBSET S /\ R \cup (s \ {y}) \in SUBSET S
      BY <2>1, <3>1
    <3>3. it[R \cup s] = f[y] + it[R \cup (s \ {y})]
      <4>1. PICK u \in SUBSET S : u = R \cup s /\ y \in u
        BY <3>2
      <4>2. it[u] = f[y] + it[u \ {y}]
        BY <1>1, <1>2, <4>1, PartialRemove
      <4> QED BY <3>2, <4>1, <4>2
    <3>4. it[R] <= it[R \cup (s \ {y})]
      BY <2>1
    <3>5. /\ it[R \cup (s \ {y})] \in Int /\ it[R \cup s] \in Int
          /\ f[y] \in Nat
      BY <1>3, <3>2
    <3> QED BY <2>1, <2>2, <3>3, <3>4, <3>5
  <2> QED BY <2>3, <2>4
<1>5. it[R] <= it[S]
  <2>1. R \cup (S \ R) = S /\ S \ R \notin Bad
    BY <1>4
  <2> QED BY <2>1
<1>6. SumFunctionOnSet(f, R) = it[R]
  BY <1>1, PartOfSum
<1> QED BY <1>1, <1>5, <1>6

\* The sum of a function over its domain.
\* The sum of a function over its domain, when its values are naturals.
LEMMA SumOfNaturals ==
  ASSUME NEW S, IsFiniteSet(S), NEW f \in [S -> Nat]
  PROVE  SumFunction(f) \in Nat /\ SumFunction(f) = SumFunctionOnSet(f, S)
<1>1. DOMAIN f = S /\ \A x \in S : f[x] \in Int /\ f[x] >= 0
  OBVIOUS
<1>2. SumFunctionOnSet(f, S) \in Int /\ SumFunctionOnSet(f, S) >= 0
  BY <1>1, SumType
<1> QED BY <1>1, <1>2 DEF SumFunction

-----------------------------------------------------------------------------
(* Contributions and totals.                                               *)

\* What a contribution under way may still add to period p.
PendingOf(call, p) ==
  IF IF call.pc = "resolve" THEN p = active /\ ~Past(call.day)
                            ELSE p = call.period
  THEN call.amount ELSE 0

\* A goal has received what was booked for it.
Sums ==
  /\ contributed \in [Goals -> [Periods -> Nat]]
  /\ \A g \in Goals :
       goals[g].current = SumFunctionOnSet(contributed[g], Periods)

(***************************************************************************)
(* A contribution is booked in a period, and one that is not under way     *)
(* books nothing.                                                          *)
(***************************************************************************)
Booking(c) ==
  LET call == calls[c] IN
  /\ call.pc = "idle" => call.amount = 0
  /\ call.pc \in {"verify", "apply"} => call.period \in Periods

(***************************************************************************)
(* A total of period p that was read covers, with what was owed then, all  *)
(* that has been booked and all that still may be.                         *)
(***************************************************************************)
Covered(p, total) ==
  /\ total <= Total(p)
  /\ Total(p) + Pending(p) <= total + owed[p]

Closed ==
  /\ active \in Periods /\ closing \in Int /\ today \in Int /\ today <= MaxDay
  /\ summaries \in [Periods -> Int] /\ owed \in [Periods -> Int]
  /\ \A p \in 0 .. active - 1 : Covered(p, summaries[p])
  /\ closing # NotClosing =>
       active + 1 \in Periods /\ Covered(active, closing)

SInv == IInv /\ Sums /\ Closed /\ \A c \in Calls : Booking(c)

\* The numbers of the assumption.
LEMMA Numbers ==
  /\ Length \in Nat /\ Length > 0 /\ MaxDay \in Nat /\ ServerSkew \in Nat
  /\ (MaxDay + ServerSkew) \div Length \in Nat /\ IsFiniteSet(Periods)
  /\ 0 \in Periods /\ Periods \subseteq Nat
  /\ \A p \in Periods : 0 .. p - 1 \subseteq Periods
<1>1. /\ Length \in Nat /\ Length > 0 /\ MaxDay \in Nat /\ ServerSkew \in Nat
      /\ MaxDay + ServerSkew \in Nat
  BY SavingsGoalsAssumption
<1>2. (MaxDay + ServerSkew) \div Length \in Nat
  BY <1>1
<1>3. Periods = 0 .. (MaxDay + ServerSkew) \div Length
  BY DEF Periods
<1>4. IsFiniteSet(Periods)
  BY <1>2, <1>3, FS_Interval
<1> QED BY <1>1, <1>2, <1>3, <1>4

\* A period that may be closed has a next one among those that are numbered.
LEMMA NextIn ==
  ASSUME NEW p \in Nat, (p + 1) * Length <= MaxDay + ServerSkew
  PROVE  p + 1 \in Periods
<1>1. PICK n \in Nat : n = MaxDay + ServerSkew
  BY Numbers
<1>2. PICK q \in Nat : q = n \div Length
  BY <1>1, Numbers
<1>3. n < (q + 1) * Length
  BY <1>1, <1>2, Numbers
<1>4. (p + 1) * Length < (q + 1) * Length
  BY <1>1, <1>3, Numbers
<1>5. p + 1 <= q
  BY <1>4, Numbers
<1> QED BY <1>1, <1>2, <1>5 DEF Periods

\* What is booked and what is pending are integers.
LEMMA TotalsType ==
  ASSUME IInv, Sums, NEW p \in Periods
  PROVE  /\ Total(p) \in Int /\ Total(p) >= 0
         /\ Pending(p) \in Int /\ Pending(p) >= 0
<1>1. p \in Int
  BY Numbers DEF Periods
<1>2. Total(p) \in Int /\ Total(p) >= 0
  <2> DEFINE f == [g \in Goals |-> contributed[g][p]]
  <2>1. \A g \in Goals : f[g] \in Int /\ f[g] >= 0
    BY DEF Sums
  <2>2. Total(p) = SumFunctionOnSet(f, Goals)
    BY DEF Total
  <2> HIDE DEF f
  <2> QED BY <2>1, <2>2, SumType, SavingsGoalsAssumption
<1>3. Pending(p) \in Int /\ Pending(p) >= 0
  <2> DEFINE f == [c \in Calls |-> IF BoundFor(c, p) THEN calls[c].amount
                                                     ELSE 0]
  <2>1. \A c \in Calls : f[c] \in Int /\ f[c] >= 0
    BY DEF IInv, CallRows
  <2>2. Pending(p) = SumFunctionOnSet(f, Calls)
    BY DEF Pending
  <2> HIDE DEF f
  <2> QED BY <2>1, <2>2, SumType, SavingsGoalsAssumption
<1> QED BY <1>2, <1>3

\* One call goes on: what is pending changes by what it changes.
LEMMA PendingStep ==
  ASSUME IInv, NEW c \in Calls, NEW call \in CallRows,
         calls' = [calls EXCEPT ![c] = call], active' = active,
         NEW p \in Periods
  PROVE  Pending(p)' = Pending(p) + PendingOf(call, p) - PendingOf(calls[c], p)
<1>1. calls' \in [Calls -> CallRows] /\ calls \in [Calls -> CallRows]
  BY DEF IInv
<1> DEFINE f == [d \in Calls |-> PendingOf(calls[d], p)]
           h == [d \in Calls |-> PendingOf(calls'[d], p)]
<1>2. \A d \in Calls : f[d] \in Int /\ h[d] \in Int
  BY <1>1 DEF CallRows, PendingOf
<1>3. \A d \in Calls \ {c} : h[d] = f[d]
  BY <1>1
<1>4. h[c] = PendingOf(call, p) /\ f[c] = PendingOf(calls[c], p)
  BY <1>1
<1>5. Pending(p) = SumFunctionOnSet(f, Calls)
  BY DEF Pending, BoundFor, PendingOf
<1>6. Pending(p)' = SumFunctionOnSet(h, Calls)
  BY DEF Pending, BoundFor, PendingOf, Past
<1> HIDE DEF f, h
<1>7. SumFunctionOnSet(h, Calls) =
        SumFunctionOnSet(f, Calls) + (IF c \in Calls THEN h[c] - f[c] ELSE 0)
  BY <1>2, <1>3, SumChange, SavingsGoalsAssumption
<1>8. SumFunctionOnSet(f, Calls) \in Int
  BY <1>2, SumType, SavingsGoalsAssumption
<1> QED BY <1>2, <1>4, <1>5, <1>6, <1>7, <1>8

\* What is pending for a period that is no longer active only gets less.
LEMMA PendingAfterClose ==
  ASSUME IInv, calls' = calls, NEW p \in Periods, p # active'
  PROVE  Pending(p)' \in Int /\ Pending(p)' <= Pending(p)
<1> DEFINE f == [c \in Calls |-> IF BoundFor(c, p) THEN calls[c].amount ELSE 0]
           h == [c \in Calls |-> IF BoundFor(c, p)' THEN calls'[c].amount ELSE 0]
<1>1. \A c \in Calls : BoundFor(c, p)' => BoundFor(c, p)
  BY DEF BoundFor
<1>2. \A c \in Calls : h[c] \in Int /\ f[c] \in Int /\ h[c] <= f[c]
  BY <1>1 DEF IInv, CallRows
<1>3. Pending(p) = SumFunctionOnSet(f, Calls)
  BY DEF Pending
<1>4. Pending(p)' = SumFunctionOnSet(h, Calls)
  BY DEF Pending
<1> HIDE DEF f, h
<1>5. SumFunctionOnSet(h, Calls) \in Int
  BY <1>2, SumType, SavingsGoalsAssumption
<1> QED BY <1>2, <1>3, <1>4, <1>5, SumMonotone, SavingsGoalsAssumption

(***************************************************************************)
(* A contribution goes on and books paid in period q: what it adds to the  *)
(* total of a period it no longer may add; what it may add that it could   *)
(* not before is owed by the close that is under way.                      *)
(***************************************************************************)
LEMMA ClosedStep ==
  ASSUME SInv, NEW c \in Calls, NEW call \in CallRows,
         calls' = [calls EXCEPT ![c] = call],
         UNCHANGED <<today, active, closing, summaries>>,
         NEW more \in Nat,
         owed' = IF closing # NotClosing
                 THEN [owed EXCEPT ![active] = @ + more] ELSE owed,
         Sums', IInv',
         NEW paid \in Nat, NEW q \in Periods,
         \A p \in Periods : Total(p)' = Total(p) + (IF p = q THEN paid ELSE 0),
         \A p \in Periods :
           PendingOf(call, p) + (IF p = q THEN paid ELSE 0)
             <= PendingOf(calls[c], p) + (IF p = active THEN more ELSE 0)
  PROVE  Closed'
<1>1. active \in Periods /\ active \in Nat
  BY Numbers DEF SInv, Closed
<1>2. /\ owed' \in [Periods -> Int]
      /\ \A p \in Periods : p # active => owed'[p] = owed[p]
      /\ closing # NotClosing => owed'[active] = owed[active] + more
  BY <1>1 DEF SInv, Closed
<1>3. ASSUME NEW p \in Periods, NEW total \in Int, Covered(p, total),
             p = active => closing # NotClosing
      PROVE  Covered(p, total)'
  <2>1. /\ Total(p) \in Int /\ Pending(p) \in Int /\ owed[p] \in Int
    BY TotalsType DEF SInv, Closed
  <2>2. PICK x \in Int, y \in Int :
          x = PendingOf(call, p) /\ y = PendingOf(calls[c], p)
    BY DEF PendingOf, SInv, IInv, CallRows
  <2>3. Pending(p)' = Pending(p) + x - y
    BY <2>2, PendingStep DEF SInv
  <2>4. PICK m \in Nat : m = IF p = active THEN more ELSE 0
    OBVIOUS
  <2>5. PICK z \in Nat : Total(p)' = Total(p) + z /\ x + z <= y + m
    BY <2>2, <2>4
  <2>6. owed'[p] = owed[p] + m
    BY <1>2, <1>3, <2>1, <2>4
  <2>7. /\ total <= Total(p)
        /\ Total(p) + Pending(p) <= total + owed[p]
    BY <1>3 DEF Covered
  <2>8. /\ total <= Total(p)'
        /\ Total(p)' + Pending(p)' <= total + owed'[p]
    BY <2>1, <2>3, <2>5, <2>6, <2>7
  <2> QED BY <2>8 DEF Covered
<1>4. \A p \in 0 .. active - 1 : Covered(p, summaries[p])'
  <2> SUFFICES ASSUME NEW p \in 0 .. active - 1
               PROVE  Covered(p, summaries[p])'
    OBVIOUS
  <2>1. p \in Periods /\ p # active /\ Covered(p, summaries[p])
    BY <1>1, Numbers DEF SInv, Closed
  <2>2. PICK total \in Int : total = summaries[p] /\ total = summaries'[p]
    BY <2>1 DEF SInv, Closed
  <2>3. Covered(p, total)'
    BY <1>3, <2>1, <2>2
  <2> QED BY <2>2, <2>3 DEF Covered
<1>5. closing # NotClosing => Covered(active, closing)'
  <2> SUFFICES ASSUME closing # NotClosing PROVE Covered(active, closing)'
    OBVIOUS
  <2>1. PICK p \in Periods, total \in Int :
          /\ p = active /\ total = closing /\ Covered(p, total)
    BY DEF SInv, Closed
  <2>2. Covered(p, total)'
    BY <1>3, <2>1
  <2> QED BY <2>1, <2>2 DEF Covered
<1> QED BY <1>2, <1>4, <1>5 DEF SInv, Closed

\* An idle call owes nothing.
LEMMA IdleRow ==
  /\ Idle \in CallRows /\ Idle.pc = "idle" /\ Idle.amount = 0
  /\ \A p : PendingOf(Idle, p) = 0
<1>1. Idle \in CallRows /\ Idle.pc = "idle" /\ Idle.amount = 0
  BY DEF Idle, CallRows
<1> QED BY <1>1 DEF PendingOf

\* Nothing has been booked, and no period is closed.
LEMMA InitSums == Init => SInv
<1> SUFFICES ASSUME Init PROVE SInv
  OBVIOUS
<1>1. IInv
  BY InitInvariant
<1>2. contributed \in [Goals -> [Periods -> Nat]]
  BY DEF Init
<1>3. ASSUME NEW g \in Goals
      PROVE  goals[g].current = SumFunctionOnSet(contributed[g], Periods)
  <2>1. PICK f : f = contributed[g] /\ \A p \in Periods : f[p] = 0
    BY DEF Init
  <2>2. SumFunctionOnSet(f, Periods) = 0
    <3>1. IsFiniteSet(Periods)
      BY Numbers
    <3> QED BY <2>1, <3>1, SumType
  <2>3. goals[g].current = 0
    BY DEF Init, NoGoal
  <2> QED BY <2>1, <2>2, <2>3
<1>4. Closed
  BY Numbers DEF Init, Closed, NotClosing
<1>5. \A c \in Calls : Booking(c)
  BY IdleRow DEF Init, Booking
<1> QED BY <1>1, <1>2, <1>3, <1>4, <1>5 DEF SInv, Sums

\* Goals change, and what they have received does not.
LEMMA GoalsChange ==
  ASSUME SInv, IInv', UNCHANGED <<today, period, contributed, calls>>,
         \A g \in Goals : goals'[g].current = goals[g].current
  PROVE  SInv'
<1>1. UNCHANGED <<active, closing, summaries, owed>>
  BY DEF period
<1>2. Sums'
  BY DEF SInv, Sums
<1>3. Closed'
  BY <1>1 DEF SInv, Closed, Covered, Total, Pending, BoundFor, Past
<1>4. \A c \in Calls : Booking(c)'
  BY DEF SInv, Booking
<1> QED BY <1>2, <1>3, <1>4 DEF SInv

\* A goal that is created has received nothing, before as after.
LEMMA SumsGoal ==
  ASSUME SInv, IInv', NEW g \in Goals,
         \/ CreateSavingsGoal(g) \/ UpdateSavingsGoal(g)
         \/ SoftDeleteSavingsGoal(g)
  PROVE  SInv'
<1>1. PICK old \in GoalRows : old = goals[g] /\ GoalOK(g)
  BY DEF SInv, IInv
<1>2. UNCHANGED <<today, period, contributed, calls>>
  BY DEF CreateSavingsGoal, UpdateSavingsGoal, SoftDeleteSavingsGoal
<1>3. PICK row : goals' = [goals EXCEPT ![g] = row]
                 /\ row.current = old.current
  <2>1. CASE CreateSavingsGoal(g)
    <3>1. PICK target \in Targets :
            goals' = [goals EXCEPT ![g] =
                        [NoGoal EXCEPT !.state = "live", !.target = target]]
      BY <2>1 DEF CreateSavingsGoal
    <3>2. PICK row : row = [NoGoal EXCEPT !.state = "live", !.target = target]
      OBVIOUS
    <3>3. row.current = 0
      BY <3>2 DEF NoGoal
    <3>4. old.current = 0
      BY <1>1, <2>1 DEF CreateSavingsGoal, GoalOK
    <3> QED BY <3>1, <3>2, <3>3, <3>4
  <2>2. CASE UpdateSavingsGoal(g)
    <3>1. PICK target \in Targets, status \in Statuses :
            goals' = [goals EXCEPT ![g].target = target, ![g].status = status]
      BY <2>2 DEF UpdateSavingsGoal
    <3>2. PICK row : row = [old EXCEPT !.target = target, !.status = status]
      OBVIOUS
    <3>3. goals' = [goals EXCEPT ![g] = row]
      BY <1>1, <3>1, <3>2, Zenon DEF SInv, IInv
    <3>4. row.current = old.current
      BY <3>2 DEF GoalRows
    <3> QED BY <3>3, <3>4
  <2>3. CASE SoftDeleteSavingsGoal(g)
    <3>1. PICK row : row = [old EXCEPT !.state = "deleted"]
      OBVIOUS
    <3>2. goals' = [goals EXCEPT ![g] = row]
      BY <1>1, <2>3, <3>1 DEF SoftDeleteSavingsGoal, SInv, IInv
    <3>3. row.current = old.current
      BY <3>1 DEF GoalRows
    <3> QED BY <3>2, <3>3
  <2> QED BY <2>1, <2>2, <2>3
<1>4. \A h \in Goals : goals'[h].current = goals[h].current
  BY <1>1, <1>3 DEF SInv, IInv
<1> QED BY <1>2, <1>4, GoalsChange

\* A call begins or goes on without booking anything.
LEMMA CallGoesOn ==
  ASSUME SInv, IInv', NEW c \in Calls, NEW call \in CallRows,
         calls' = [calls EXCEPT ![c] = call],
         UNCHANGED <<today, active, closing, summaries, contributed>>,
         NEW more \in Nat,
         owed' = IF closing # NotClosing
                 THEN [owed EXCEPT ![active] = @ + more] ELSE owed,
         \A g \in Goals : goals'[g].current = goals[g].current,
         \A p \in Periods :
           PendingOf(call, p)
             <= PendingOf(calls[c], p) + (IF p = active THEN more ELSE 0),
         Booking(c)'
  PROVE  SInv'
<1>1. Sums'
  BY DEF SInv, Sums
<1>2. \A p \in Periods : Total(p)' = Total(p) /\ Total(p) \in Int
  BY TotalsType DEF SInv, Total
<1>3. \A p \in Periods : PendingOf(call, p) \in Int
  BY DEF PendingOf, CallRows
<1>4. Closed'
  <2>1. \A p \in Periods : Total(p)' = Total(p) + (IF p = 0 THEN 0 ELSE 0)
    BY <1>2
  <2>2. \A p \in Periods :
          PendingOf(call, p) + (IF p = 0 THEN 0 ELSE 0)
            <= PendingOf(calls[c], p) + (IF p = active THEN more ELSE 0)
    BY <1>3
  <2> QED BY <1>1, <2>1, <2>2, Numbers, ClosedStep
<1>5. \A d \in Calls : Booking(d)'
  <2>1. \A d \in Calls \ {c} : calls'[d] = calls[d]
    BY DEF SInv, IInv
  <2> QED BY <2>1 DEF SInv, Booking
<1> QED BY <1>1, <1>4, <1>5 DEF SInv

\* A call goes on without booking anything: it owes no more than before.
LEMMA CallOwesNoMore ==
  ASSUME SInv, IInv', NEW c \in Calls, NEW call \in CallRows,
         calls' = [calls EXCEPT ![c] = call],
         UNCHANGED <<today, period, contributed>>,
         \A g \in Goals : goals'[g].current = goals[g].current,
         \A p \in Periods : PendingOf(call, p) <= PendingOf(calls[c], p),
         Booking(c)'
  PROVE  SInv'
<1>1. UNCHANGED <<active, closing, summaries, owed>>
  BY DEF period
<1>2. owed' = IF closing # NotClosing
              THEN [owed EXCEPT ![active] = @ + 0] ELSE owed
  <2>1. owed \in [Periods -> Int] /\ active \in Periods
    BY DEF SInv, Closed
  <2>2. owed[active] + 0 = owed[active]
    BY <2>1
  <2> QED BY <1>1, <2>1, <2>2
<1>3. \A p \in Periods : PendingOf(calls[c], p) \in Int
  BY DEF PendingOf, CallRows, SInv, IInv
<1>4. \A p \in Periods :
        PendingOf(call, p)
          <= PendingOf(calls[c], p) + (IF p = active THEN 0 ELSE 0)
  BY <1>3
<1> QED BY <1>1, <1>2, <1>4, CallGoesOn

(***************************************************************************)
(* A call that begins while the active period, which a close has added up, *)
(* still lasts is owed; others owe what they did.                          *)
(***************************************************************************)
LEMMA SumsCall ==
  ASSUME SInv, IInv', NEW c \in Calls,
         Begin(c) \/ Resolve(c) \/ Verify(c) \/ Fail(c)
  PROVE  SInv'
<1>1. PICK old \in CallRows : old = calls[c] /\ Booking(c)
  BY DEF SInv, IInv
<1>2. /\ UNCHANGED <<today, contributed>> /\ (~Begin(c) => UNCHANGED period)
      /\ \A g \in Goals : goals'[g].current = goals[g].current
  BY DEF Begin, Resolve, Verify, Fail
<1>3. \A p \in Periods : PendingOf(old, p) \in Int /\ 0 <= PendingOf(old, p)
  BY DEF PendingOf, CallRows
<1>4. ASSUME UNCHANGED period PROVE calls' = [calls EXCEPT ![c] = Idle] => SInv'
  <2> SUFFICES ASSUME calls' = [calls EXCEPT ![c] = Idle] PROVE SInv'
    OBVIOUS
  <2>1. calls'[c] = Idle
    BY DEF SInv, IInv
  <2>2. Booking(c)'
    BY <2>1, IdleRow DEF Booking
  <2>3. \A p \in Periods : PendingOf(Idle, p) <= PendingOf(calls[c], p)
    BY <1>1, <1>3, IdleRow
  <2> QED BY <1>2, <1>4, <2>2, <2>3, IdleRow, CallOwesNoMore
<1>5. CASE Begin(c)
  <2>1. PICK g \in Goals, amount \in Amounts :
          /\ calls' = [calls EXCEPT ![c] =
               [Idle EXCEPT !.pc = "resolve", !.goal = g, !.amount = amount,
                            !.day = today]]
          /\ owed' = IF closing # NotClosing /\ ~Past(today)
                     THEN [owed EXCEPT ![active] = @ + amount] ELSE owed
          /\ UNCHANGED <<active, closing, summaries>>
    BY <1>5 DEF Begin
  <2>2. PICK call : call = [Idle EXCEPT !.pc = "resolve", !.goal = g,
                                        !.amount = amount, !.day = today]
    OBVIOUS
  <2>3. call = [pc |-> "resolve", goal |-> g, amount |-> amount,
                day |-> today, period |-> 0]
    BY <2>2 DEF Idle
  <2>4. /\ call \in CallRows /\ call.day = today /\ call.pc = "resolve"
        /\ call.amount = amount /\ amount \in Nat
    BY <2>3, SavingsGoalsAssumption DEF CallRows, SInv, IInv
  <2>5. calls' = [calls EXCEPT ![c] = call]
    BY <2>1, <2>2, Zenon
  <2>6. Booking(c)'
    <3>1. calls'[c] = call
      BY <2>5 DEF SInv, IInv
    <3> QED BY <2>4, <3>1 DEF Booking
  <2>7. PICK more \in Nat : more = IF Past(today) THEN 0 ELSE amount
    BY <2>4
  <2>8. \A p \in Periods :
          PendingOf(call, p)
            <= PendingOf(calls[c], p) + (IF p = active THEN more ELSE 0)
    BY <1>1, <1>3, <2>4, <2>7 DEF PendingOf
  <2>9. owed' = IF closing # NotClosing
                THEN [owed EXCEPT ![active] = @ + more] ELSE owed
    <3>1. CASE ~Past(today)
      BY <2>1, <2>7, <3>1
    <3>2. CASE Past(today)
      <4>1. owed \in [Periods -> Int] /\ active \in Periods
        BY DEF SInv, Closed
      <4>2. owed[active] + more = owed[active]
        BY <2>7, <3>2, <4>1
      <4> QED BY <2>1, <3>2, <4>1, <4>2
    <3> QED BY <3>1, <3>2
  <2> QED BY <1>2, <2>1, <2>4, <2>5, <2>6, <2>8, <2>9, CallGoesOn
<1>6. CASE Resolve(c)
  <2>1. PICK p \in Periods :
          /\ calls' = [calls EXCEPT ![c].pc = "verify", ![c].period = p]
          /\ calls[c].pc = "resolve" /\ p = active /\ ~Past(calls[c].day)
    BY <1>6 DEF Resolve, ActivePeriod
  <2>2. PICK call : call = [old EXCEPT !.pc = "verify", !.period = p]
    OBVIOUS
  <2>3. p \in Int
    BY DEF Periods
  <2>4. /\ call \in CallRows /\ call.pc = "verify" /\ call.period = p
        /\ call.day = old.day /\ call.amount = old.amount
    BY <2>2, <2>3 DEF CallRows
  <2>5. calls' = [calls EXCEPT ![c] = call]
    BY <1>1, <2>1, <2>2, Zenon DEF SInv, IInv
  <2>6. Booking(c)'
    <3>1. calls'[c] = call
      BY <2>5 DEF SInv, IInv
    <3> QED BY <2>4, <3>1 DEF Booking
  <2>7. \A n \in Periods : PendingOf(call, n) = PendingOf(calls[c], n)
    BY <1>1, <2>1, <2>4 DEF PendingOf
  <2>8. \A n \in Periods : PendingOf(call, n) <= PendingOf(calls[c], n)
    BY <1>1, <1>3, <2>7
  <2> QED BY <1>2, <1>6, <2>4, <2>5, <2>6, <2>8, CallOwesNoMore DEF Resolve
<1>7. CASE Verify(c)
  <2>1. PICK call : call = [old EXCEPT !.pc = "apply"]
    OBVIOUS
  <2>2. /\ call \in CallRows /\ call.pc = "apply" /\ call.period = old.period
        /\ call.day = old.day /\ call.amount = old.amount
    BY <2>1 DEF CallRows
  <2>3. /\ \/ calls' = [calls EXCEPT ![c] = call]
           \/ calls' = [calls EXCEPT ![c] = Idle]
        /\ calls[c].pc = "verify"
    BY <1>1, <1>7, <2>1 DEF Verify, SInv, IInv
  <2>4. CASE calls' = [calls EXCEPT ![c] = call]
    <3>1. calls'[c] = call
      BY <2>4 DEF SInv, IInv
    <3>2. Booking(c)'
      BY <1>1, <2>2, <2>3, <3>1 DEF Booking
    <3>3. \A n \in Periods : PendingOf(call, n) <= PendingOf(calls[c], n)
      BY <1>1, <1>3, <2>2, <2>3 DEF PendingOf
    <3> QED BY <1>2, <1>7, <2>2, <2>4, <3>2, <3>3, CallOwesNoMore DEF Verify
  <2> QED BY <1>4, <1>7, <2>3, <2>4 DEF Verify
<1>8. CASE Fail(c)
  BY <1>4, <1>8 DEF Fail
<1> QED BY <1>5, <1>6, <1>7, <1>8

\* A contribution is booked in one period of one goal.
LEMMA TotalStep ==
  ASSUME Sums, NEW g \in Goals, NEW q \in Periods, NEW amount \in Nat,
         contributed' = [contributed EXCEPT ![g][q] = @ + amount]
  PROVE  /\ contributed' \in [Goals -> [Periods -> Nat]]
         /\ \A p \in Periods :
              Total(p)' = Total(p) + (IF p = q THEN amount ELSE 0)
         /\ SumFunctionOnSet(contributed'[g], Periods) =
              SumFunctionOnSet(contributed[g], Periods) + amount
         /\ \A h \in Goals : h # g => contributed'[h] = contributed[h]
<1>1. PICK old \in [Periods -> Nat] : old = contributed[g]
  BY DEF Sums
<1>2. PICK new : new = [old EXCEPT ![q] = old[q] + amount]
  OBVIOUS
<1>3. new \in [Periods -> Nat] /\ new[q] = old[q] + amount
      /\ \A p \in Periods : p # q => new[p] = old[p]
  BY <1>2
<1>4. contributed' = [contributed EXCEPT ![g] = new]
  BY <1>1, <1>2 DEF Sums
<1>5. /\ contributed' \in [Goals -> [Periods -> Nat]]
      /\ contributed'[g] = new
      /\ \A h \in Goals : h # g => contributed'[h] = contributed[h]
  BY <1>3, <1>4 DEF Sums
<1>6. ASSUME NEW p \in Periods
      PROVE  Total(p)' = Total(p) + (IF p = q THEN amount ELSE 0)
  <2> DEFINE f == [h \in Goals |-> contributed[h][p]]
             k == [h \in Goals |-> contributed'[h][p]]
  <2>1. \A h \in Goals : f[h] \in Int /\ k[h] \in Int
    BY <1>5 DEF Sums
  <2>2. \A h \in Goals \ {g} : k[h] = f[h]
    BY <1>5
  <2>3. k[g] - f[g] = IF p = q THEN amount ELSE 0
    BY <1>1, <1>3, <1>5
  <2>4. Total(p) = SumFunctionOnSet(f, Goals)
    BY DEF Total
  <2>5. Total(p)' = SumFunctionOnSet(k, Goals)
    BY DEF Total
  <2> HIDE DEF f, k
  <2>6. SumFunctionOnSet(k, Goals) =
          SumFunctionOnSet(f, Goals) + (IF g \in Goals THEN k[g] - f[g] ELSE 0)
    BY <2>1, <2>2, SumChange, SavingsGoalsAssumption
  <2> QED BY <2>3, <2>4, <2>5, <2>6
<1>7. SumFunctionOnSet(new, Periods) =
        SumFunctionOnSet(old, Periods) + amount
  <2>1. \A p \in Periods : old[p] \in Int /\ new[p] \in Int
    BY <1>3
  <2>2. SumFunctionOnSet(new, Periods) =
          SumFunctionOnSet(old, Periods)
          + (IF q \in Periods THEN new[q] - old[q] ELSE 0)
    BY <1>3, <2>1, SumChange, Numbers
  <2>3. new[q] - old[q] = amount
    BY <1>3
  <2> QED BY <2>2, <2>3
<1> QED BY <1>1, <1>5, <1>6, <1>7
\* A booking goes from what is pending to the goal and the total at once.
LEMMA SumsApply ==
  ASSUME SInv, IInv', NEW c \in Calls, Apply(c)
  PROVE  SInv'
<1>1. PICK call \in CallRows, g \in Goals, amount \in Nat, q \in Periods :
        /\ call = calls[c] /\ g = call.goal /\ amount = call.amount
        /\ q = call.period /\ call.pc = "apply"
  <2>1. /\ calls[c] \in CallRows /\ calls[c].goal \in Goals
        /\ calls[c].period \in Periods /\ calls[c].pc = "apply"
    BY DEF Apply, SInv, IInv, CallOK, Booking
  <2> QED BY <2>1 DEF CallRows
<1>2. /\ calls' = [calls EXCEPT ![c] = Idle] /\ UNCHANGED <<today, period>>
      /\ contributed' = IF Live(g)
                        THEN [contributed EXCEPT ![g][q] = @ + amount]
                        ELSE contributed
      /\ IF Live(g)
         THEN goals' = [goals EXCEPT ![g] = Raised(@, amount)]
         ELSE UNCHANGED goals
  BY <1>1, Zenon DEF Apply, Booked
<1>3. calls'[c] = Idle /\ \A d \in Calls \ {c} : calls'[d] = calls[d]
  BY <1>2 DEF SInv, IInv
<1>4. \A d \in Calls : Booking(d)'
  BY <1>3, IdleRow DEF SInv, Booking
<1>5. \A p \in Periods :
        /\ PendingOf(call, p) \in Int /\ 0 <= PendingOf(call, p)
        /\ p = q => PendingOf(call, p) = amount
  BY <1>1 DEF PendingOf, CallRows
<1>6. CASE ~Live(g)
  <2>1. /\ UNCHANGED <<today, period, contributed>>
        /\ \A h \in Goals : goals'[h].current = goals[h].current
    BY <1>2, <1>6
  <2>2. \A p \in Periods : PendingOf(Idle, p) <= PendingOf(calls[c], p)
    BY <1>1, <1>5, IdleRow
  <2> QED BY <1>2, <1>4, <2>1, <2>2, IdleRow, CallOwesNoMore
<1>7. CASE Live(g)
  <2>1. contributed' = [contributed EXCEPT ![g][q] = @ + amount]
    BY <1>2, <1>7
  <2>2. /\ contributed' \in [Goals -> [Periods -> Nat]]
        /\ \A p \in Periods :
             Total(p)' = Total(p) + (IF p = q THEN amount ELSE 0)
        /\ SumFunctionOnSet(contributed'[g], Periods) =
             SumFunctionOnSet(contributed[g], Periods) + amount
        /\ \A h \in Goals : h # g => contributed'[h] = contributed[h]
    BY <2>1, TotalStep DEF SInv
  <2>3. /\ goals'[g].current = goals[g].current + amount
        /\ \A h \in Goals : h # g => goals'[h] = goals[h]
    <3>1. PICK old \in GoalRows : old = goals[g]
      BY DEF SInv, IInv
    <3>2. PICK status, sum :
            /\ sum = old.current + amount
            /\ status = IF Reaches(old, amount) THEN "achieved" ELSE old.status
      OBVIOUS
    <3>3. PICK row : row = [old EXCEPT !.current = sum, !.status = status]
      OBVIOUS
    <3>4. row = Raised(old, amount)
      BY <3>2, <3>3, Zenon DEF Raised
    <3>5. row.current = sum
      BY <3>3 DEF GoalRows
    <3>6. goals' = [goals EXCEPT ![g] = row]
      BY <1>2, <1>7, <3>1, <3>4 DEF SInv, IInv
    <3> QED BY <3>1, <3>2, <3>5, <3>6 DEF SInv, IInv
  <2>4. Sums'
    BY <2>2, <2>3 DEF SInv, Sums
  <2>5. \A p \in Periods :
          PendingOf(Idle, p) + (IF p = q THEN amount ELSE 0)
            <= PendingOf(calls[c], p) + (IF p = active THEN 0 ELSE 0)
    BY <1>1, <1>5, IdleRow
  <2>6. Closed'
    <3>1. UNCHANGED <<today, active, closing, summaries, owed>>
      BY <1>2 DEF period
    <3>2. owed' = IF closing # NotClosing
                  THEN [owed EXCEPT ![active] = @ + 0] ELSE owed
      <4>1. owed \in [Periods -> Int] /\ active \in Periods
        BY DEF SInv, Closed
      <4>2. owed[active] + 0 = owed[active]
        BY <4>1
      <4> QED BY <3>1, <4>1, <4>2
    <3>3. PICK more \in Nat : more = 0
      OBVIOUS
    <3>4. owed' = IF closing # NotClosing
                  THEN [owed EXCEPT ![active] = @ + more] ELSE owed
      BY <3>2, <3>3
    <3>5. \A p \in Periods :
            PendingOf(Idle, p) + (IF p = q THEN amount ELSE 0)
              <= PendingOf(calls[c], p) + (IF p = active THEN more ELSE 0)
      BY <2>5, <3>3
    <3>6. Idle \in CallRows
      BY IdleRow
    <3> QED BY <1>2, <2>2, <2>4, <3>1, <3>4, <3>5, <3>6, ClosedStep
  <2> QED BY <1>4, <2>4, <2>6 DEF SInv
<1> QED BY <1>6, <1>7

\* Goals and calls stay as they are.
LEMMA SumsStay ==
  ASSUME SInv, IInv', UNCHANGED <<goals, contributed, calls>>, Closed'
  PROVE  SInv'
<1>1. Sums'
  BY DEF SInv, Sums
<1>2. \A c \in Calls : Booking(c)'
  BY DEF SInv, Booking
<1> QED BY <1>1, <1>2 DEF SInv

\* The total is read, and what is pending then is what it may miss.
LEMMA SumsStartClose ==
  ASSUME SInv, IInv', StartClose
  PROVE  SInv'
<1>1. /\ Past(today + ServerSkew) /\ closing' = Total(active)
      /\ owed' = [owed EXCEPT ![active] = Pending(active)]
      /\ UNCHANGED <<today, active, summaries, goals, contributed, calls>>
  BY DEF StartClose
<1>2. PICK n \in Nat : n = active /\ n \in Periods
  BY Numbers DEF SInv, Closed
<1>3. (n + 1) * Length <= MaxDay + ServerSkew
  BY <1>1, <1>2, Numbers DEF Past, SInv, Closed
<1>4. n + 1 \in Periods
  BY <1>3, NextIn
<1>5. PICK x \in Int, y \in Int : x = Total(n) /\ y = Pending(n)
  BY <1>2, TotalsType DEF SInv
<1>6. /\ owed' \in [Periods -> Int] /\ owed'[n] = y
      /\ \A p \in Periods : p # n => owed'[p] = owed[p]
  BY <1>1, <1>2, <1>5 DEF SInv, Closed
<1>7. \A p \in Periods : Total(p)' = Total(p) /\ Pending(p)' = Pending(p)
  BY <1>1 DEF Total, Pending, BoundFor, Past
<1>8. Covered(n, x)'
  BY <1>2, <1>5, <1>6, <1>7 DEF Covered
<1>9. \A p \in 0 .. active - 1 : Covered(p, summaries[p])'
  <2> SUFFICES ASSUME NEW p \in 0 .. active - 1
               PROVE  Covered(p, summaries[p])'
    OBVIOUS
  <2>1. p \in Periods /\ p # n /\ Covered(p, summaries[p])
    BY <1>2, Numbers DEF SInv, Closed
  <2> QED BY <1>1, <1>6, <1>7, <2>1 DEF Covered
<1>10. Closed'
  <2>1. closing' \in Int
    BY <1>1, <1>2, <1>5
  <2>2. active' + 1 \in Periods /\ Covered(active, closing)'
    BY <1>1, <1>2, <1>4, <1>5, <1>8 DEF Covered
  <2>3. \A p \in 0 .. active' - 1 : Covered(p, summaries[p])'
    BY <1>1, <1>9
  <2> QED BY <1>1, <1>6, <2>1, <2>2, <2>3 DEF SInv, Closed
<1> QED BY <1>1, <1>10, SumsStay

\* The total that was read becomes the summary.
LEMMA SumsCommitClose ==
  ASSUME SInv, IInv', CommitClose
  PROVE  SInv'
<1>1. /\ closing # NotClosing /\ closing' = NotClosing
      /\ active' = active + 1
      /\ summaries' = [summaries EXCEPT ![active] = closing]
      /\ UNCHANGED <<today, owed, goals, contributed, calls>>
  BY DEF CommitClose
<1>2. PICK n \in Nat, total \in Int :
        /\ n = active /\ total = closing /\ n \in Periods /\ n + 1 \in Periods
        /\ Covered(n, total)
  BY <1>1, Numbers DEF SInv, Closed
<1>3. /\ summaries' \in [Periods -> Int] /\ summaries'[n] = total
      /\ \A p \in Periods : p # n => summaries'[p] = summaries[p]
  BY <1>1, <1>2 DEF SInv, Closed
<1>4. ASSUME NEW p \in 0 .. n
      PROVE  Covered(p, summaries[p])'
  <2>1. p \in Periods /\ p # active'
    BY <1>1, <1>2, Numbers
  <2>2. PICK t \in Int : t = summaries'[p] /\ Covered(p, t)
    <3>1. CASE p = n
      BY <1>2, <1>3, <3>1
    <3>2. CASE p # n
      <4>1. p \in 0 .. active - 1
        BY <1>2, <3>2
      <4> QED BY <1>3, <2>1, <3>2, <4>1 DEF SInv, Closed
    <3> QED BY <3>1, <3>2
  <2>3. Total(p)' = Total(p) /\ Total(p) \in Int /\ Pending(p) \in Int
    BY <1>1, <2>1, TotalsType DEF Total, SInv
  <2>4. Pending(p)' \in Int /\ Pending(p)' <= Pending(p)
    BY <1>1, <2>1, PendingAfterClose DEF SInv
  <2>5. owed'[p] = owed[p] /\ owed[p] \in Int
    BY <1>1, <2>1 DEF SInv, Closed
  <2>6. /\ t <= Total(p)'
        /\ Total(p)' + Pending(p)' <= t + owed'[p]
    BY <2>2, <2>3, <2>4, <2>5 DEF Covered
  <2> QED BY <2>2, <2>6 DEF Covered
<1>5. Closed'
  <2>1. active' - 1 = n /\ active' \in Periods
    BY <1>1, <1>2
  <2>2. \A p \in 0 .. active' - 1 : Covered(p, summaries[p])'
    BY <1>4, <2>1
  <2> QED BY <1>1, <1>3, <2>1, <2>2 DEF SInv, Closed, NotClosing
<1> QED BY <1>1, <1>5, SumsStay

\* A close is rolled back, or a day passes.
LEMMA SumsQuiet ==
  ASSUME SInv, IInv', RollBack \/ Midnight \/ UNCHANGED vars
  PROVE  SInv'
<1>1. UNCHANGED <<active, summaries, owed, goals, contributed, calls>>
  BY DEF RollBack, Midnight, vars, period
<1>2. /\ today' \in Int /\ today' <= MaxDay
      /\ closing' # NotClosing => closing' = closing
      /\ closing' \in Int
  BY Numbers DEF SInv, Closed, RollBack, Midnight, vars, period, NotClosing
<1>3. Closed'
  BY <1>1, <1>2 DEF SInv, Closed, Covered, Total, Pending, BoundFor, Past
<1> QED BY <1>1, <1>3, SumsStay

\* Every step keeps the sums.
LEMMA SumsInvariant == SInv /\ [Next]_vars => SInv'
<1> SUFFICES ASSUME SInv, [Next]_vars PROVE SInv'
  OBVIOUS
<1>1. IInv'
  BY StepInvariant DEF SInv
<1> QED BY <1>1, SumsGoal, SumsCall, SumsApply, SumsStartClose,
           SumsCommitClose, SumsQuiet DEF Next

(***************************************************************************)
(* A goal has received the sum of its contributions, for any number of     *)
(* them under way and whatever fails or is deleted in between              *)
(* (store_savings_goals.go:41-80).                                         *)
(***************************************************************************)
THEOREM CurrentIsSumCorrect == Spec => []CurrentIsSum
<1>1. SInv => CurrentIsSum
  BY DEF SInv, Sums, CurrentIsSum
<1> QED BY <1>1, InitSums, SumsInvariant, PTL DEF Spec

(***************************************************************************)
(* The summary of a closed period is never too high, and it misses no more *)
(* than the contributions that were under way for the period when the      *)
(* close added up (savings_goal.go:191-209), or, when it closes by the     *)
(* server's date and early, begin before it commits (user_settings.go:100).*)
(***************************************************************************)
THEOREM SummaryMissesTheLateCorrect == Spec => []SummaryMissesTheLate
<1>1. ASSUME SInv PROVE SummaryMissesTheLate
  <2> SUFFICES ASSUME NEW p \in 0 .. active - 1
               PROVE  /\ summaries[p] <= Total(p)
                      /\ Total(p) <= summaries[p] + owed[p]
    BY DEF SummaryMissesTheLate
  <2>1. Covered(p, summaries[p])
    BY <1>1 DEF SInv, Closed
  <2>2. p \in Periods
    BY <1>1, Numbers DEF SInv, Closed
  <2>3. /\ Total(p) \in Int /\ Pending(p) \in Int /\ Pending(p) >= 0
        /\ summaries[p] \in Int /\ owed[p] \in Int
    BY <1>1, <2>2, TotalsType DEF SInv, Closed
  <2> QED BY <2>1, <2>3 DEF Covered
<1> QED BY <1>1, InitSums, SumsInvariant, PTL DEF Spec

-----------------------------------------------------------------------------
(* Insights: the data.                                                     *)

GoalPlans ==
  [status : {"active", "paused", "abandoned", "achieved"},
   end : {d \in Int : GoalStart < d}, target : Nat \ {0}, saved : Nat]

DataInv ==
  /\ expenses \in [Kinds -> Nat] /\ income \in Nat /\ day \in Nat \ {0}
  /\ previous \in Nat \cup {None} /\ bridge \in BOOLEAN
  /\ plan \in GoalPlans \cup {None}

(***************************************************************************)
(* The data the insights are computed from: a number of live expenses of   *)
(* each kind, an income, a day of the period, a previous period or none,   *)
(* and a goal that ends after it starts, or none, with what it has         *)
(* received. It is all the other theorems need: an insight is a function   *)
(* of the data, and these invariants compare functions.                    *)
(***************************************************************************)
THEOREM InsightsTypeCorrect == Period => []DataInv
<1>1. FirstDay => DataInv
  BY InsightsAssumption DEF FirstDay, Edited, DataInv, GoalPlans
<1>2. DataInv /\ [Change]_data => DataInv'
  <2> SUFFICES ASSUME DataInv, [Change]_data PROVE DataInv'
    OBVIOUS
  <2> USE DEF DataInv
  <2>1. CASE Spend
    BY <2>1 DEF Spend
  <2>2. CASE DeleteExpense
    <3>1. PICK k \in Kinds :
            /\ expenses[k] > 0 /\ expenses' = [expenses EXCEPT ![k] = @ - 1]
            /\ UNCHANGED <<income, day, previous, bridge, plan>>
      BY <2>2 DEF DeleteExpense
    <3>2. expenses[k] - 1 \in Nat
      BY <3>1
    <3> QED BY <3>1, <3>2
  <2>3. CASE Earn
    BY <2>3, InsightsAssumption DEF Earn
  <2>4. CASE NextDay
    BY <2>4 DEF NextDay
  <2>5. CASE Contribute
    <3>1. PICK a \in Deposits :
            /\ plan # None
            /\ plan' = [plan EXCEPT !.saved = @ + a,
                                    !.status = IF plan.saved + a >= plan.target
                                               THEN "achieved" ELSE @]
            /\ UNCHANGED <<expenses, income, day, previous, bridge>>
      BY <2>5 DEF Contribute
    <3>2. plan' \in GoalPlans
      <4>1. plan \in GoalPlans /\ plan.saved + a \in Nat
        BY <3>1, InsightsAssumption DEF GoalPlans
      <4>2. PICK s \in {"active", "paused", "abandoned", "achieved"} :
              plan' = [plan EXCEPT !.saved = @ + a, !.status = s]
        BY <3>1, <4>1 DEF GoalPlans
      <4> QED BY <4>1, <4>2 DEF GoalPlans
    <3> QED BY <3>1, <3>2
  <2>6. CASE EditGoal
    BY <2>6, InsightsAssumption DEF EditGoal, Edited, GoalPlans
  <2>7. CASE DeleteGoal
    BY <2>7 DEF DeleteGoal
  <2>8. CASE UNCHANGED data
    BY <2>8 DEF data
  <2> QED BY <2>1, <2>2, <2>3, <2>4, <2>5, <2>6, <2>7, <2>8 DEF Change
<1> QED BY <1>1, <1>2, PTL DEF Period

-----------------------------------------------------------------------------
(* Insights: rounding.                                                     *)

\* Half away from zero: the nearest multiple of the divisor.
LEMMA RoundDivNearest ==
  ASSUME NEW a \in Nat, NEW b \in Nat \ {0}
  PROVE  /\ RoundDiv(a, b) \in Nat
         /\ (2 * b) * RoundDiv(a, b) <= 2 * a + b
         /\ 2 * a + b < (2 * b) * RoundDiv(a, b) + 2 * b
<1> DEFINE n == 2 * a + b
           d == 2 * b
           q == n \div d
<1>1. n \in Nat /\ d \in Nat \ {0}
  OBVIOUS
<1>2. RoundDiv(a, b) = q
  BY DEF RoundDiv
<1> HIDE DEF n, d
<1>3. q \in Nat /\ d * q <= n /\ n < d * q + d
  BY <1>1
<1> HIDE DEF q
<1> QED BY <1>2, <1>3 DEF n, d

\* Rounding a natural gives a natural.
LEMMA RoundDivNatural ==
  ASSUME NEW a \in Nat, NEW b \in Nat \ {0}
  PROVE  RoundDiv(a, b) \in Nat
  BY RoundDivNearest

\* When a rounded quotient reaches k.
LEMMA RoundDivReaches ==
  ASSUME NEW a \in Nat, NEW b \in Nat \ {0}, NEW k \in Nat
  PROVE  RoundDiv(a, b) >= k <=> (2 * b) * k <= 2 * a + b
<1>1. PICK q \in Nat : /\ q = RoundDiv(a, b) /\ (2 * b) * q <= 2 * a + b
                       /\ 2 * a + b < (2 * b) * q + 2 * b
  BY RoundDivNearest
<1>2. PICK d \in Nat \ {0} : d = 2 * b
  OBVIOUS
<1>3. \A x \in Nat, y \in Nat : x <= y => d * x <= d * y
  OBVIOUS
<1>4. CASE q >= k
  <2>1. d * k <= d * q
    BY <1>3, <1>4
  <2>2. d * k \in Nat /\ d * q \in Nat
    OBVIOUS
  <2> QED BY <1>1, <1>2, <1>4, <2>1, <2>2
<1>5. CASE q < k
  <2>1. d * (q + 1) <= d * k
    BY <1>3, <1>5
  <2>2. d * (q + 1) = d * q + d
    OBVIOUS
  <2>3. d * k \in Nat /\ d * q \in Nat
    OBVIOUS
  <2> QED BY <1>1, <1>2, <1>5, <2>1, <2>2, <2>3
<1> QED BY <1>4, <1>5

\* A rounded quotient grows with the dividend and falls with the divisor.
LEMMA RoundDivOrder ==
  ASSUME NEW a \in Nat, NEW b \in Nat \ {0},
         NEW c \in Nat, NEW d \in Nat \ {0}, a <= c, d <= b
  PROVE  RoundDiv(a, b) <= RoundDiv(c, d)
<1>1. PICK k \in Nat : k = RoundDiv(a, b)
  BY RoundDivNearest
<1>2. (2 * b) * k <= 2 * a + b
  BY <1>1, RoundDivNearest
<1>3. (2 * d) * k <= 2 * c + d
  <2>1. CASE k = 0
    BY <2>1
  <2>2. CASE k >= 1
    <3>1. PICK m \in Nat : m = b - d
      OBVIOUS
    <3>2. m <= m * k
      BY <2>2
    <3>3. (2 * b) * k = (2 * d) * k + 2 * (m * k)
      BY <3>1
    <3>4. (2 * d) * k \in Nat /\ m * k \in Nat
      OBVIOUS
    <3> QED BY <1>2, <3>1, <3>2, <3>3, <3>4
  <2> QED BY <2>1, <2>2
<1>4. RoundDiv(c, d) >= k /\ RoundDiv(c, d) \in Nat
  BY <1>3, RoundDivReaches, RoundDivNearest
<1> QED BY <1>1, <1>4

\* A multiple of the divisor is not rounded.
LEMMA RoundDivExact ==
  ASSUME NEW k \in Nat, NEW d \in Nat \ {0}
  PROVE  RoundDiv(k * d, d) = k
<1>1. k * d \in Nat
  OBVIOUS
<1>2. (2 * d) * k = 2 * (k * d)
  OBVIOUS
<1>3. (2 * d) * (k + 1) = 2 * (k * d) + 2 * d
  OBVIOUS
<1>4. RoundDiv(k * d, d) \in Nat
  BY <1>1, RoundDivNearest
<1>5. RoundDiv(k * d, d) >= k
  BY <1>1, <1>2, RoundDivReaches
<1>6. ~(RoundDiv(k * d, d) >= k + 1)
  BY <1>1, <1>3, RoundDivReaches
<1> QED BY <1>4, <1>5, <1>6

-----------------------------------------------------------------------------
(* Insights: groups and totals.                                            *)

\* Quantity, Spent and TotalExpenses of given expenses.
QuantityOf(e, c) == SumFunction([p \in Prices |-> e[<<c, p>>]])
SpentOf(e, c)    == SumFunction([p \in Prices |-> p * e[<<c, p>>]])
TotalOf(e)       == SumFunction([c \in Groups |-> SpentOf(e, c)])
CountOf(e)       == SumFunction([c \in Groups |-> QuantityOf(e, c)])

\* The queries return finitely many groups.
LEMMA GroupsFinite == IsFiniteSet(Groups)
  BY InsightsAssumption, FS_AddElement DEF Groups

\* A group has a number of expenses and a total.
LEMMA GroupNatural ==
  ASSUME NEW e \in [Kinds -> Nat], NEW c \in Groups
  PROVE  QuantityOf(e, c) \in Nat /\ SpentOf(e, c) \in Nat
<1>1. IsFiniteSet(Prices) /\ Prices \subseteq Nat \ {0}
  BY InsightsAssumption
<1>2. \A p \in Prices : e[<<c, p>>] \in Nat /\ p \in Nat
  BY <1>1 DEF Kinds
<1>3. [p \in Prices |-> e[<<c, p>>]] \in [Prices -> Nat]
  BY <1>2
<1>4. [p \in Prices |-> p * e[<<c, p>>]] \in [Prices -> Nat]
  BY <1>2
<1> QED BY <1>1, <1>3, <1>4, SumOfNaturals DEF QuantityOf, SpentOf

\* The total of a period is a natural.
LEMMA TotalNatural ==
  ASSUME NEW e \in [Kinds -> Nat]
  PROVE  TotalOf(e) \in Nat
<1>1. [c \in Groups |-> SpentOf(e, c)] \in [Groups -> Nat]
  BY GroupNatural
<1> QED BY <1>1, GroupsFinite, SumOfNaturals DEF TotalOf

\* So is the number of its expenses.
LEMMA CountNatural ==
  ASSUME NEW e \in [Kinds -> Nat]
  PROVE  CountOf(e) \in Nat
<1>1. [c \in Groups |-> QuantityOf(e, c)] \in [Groups -> Nat]
  BY GroupNatural
<1> QED BY <1>1, GroupsFinite, SumOfNaturals DEF CountOf

\* More expenses of each kind: no group and no total is smaller.
LEMMA TotalsMonotone ==
  ASSUME NEW e \in [Kinds -> Nat], NEW f \in [Kinds -> Nat],
         \A k \in Kinds : e[k] <= f[k]
  PROVE  /\ \A c \in Groups : SpentOf(e, c) <= SpentOf(f, c)
         /\ TotalOf(e) <= TotalOf(f)
<1>1. IsFiniteSet(Prices) /\ Prices \subseteq Nat \ {0}
  BY InsightsAssumption
<1>2. ASSUME NEW c \in Groups
      PROVE  SpentOf(e, c) <= SpentOf(f, c)
  <2>1. \A p \in Prices :
          /\ e[<<c, p>>] \in Nat /\ f[<<c, p>>] \in Nat /\ p \in Nat
          /\ e[<<c, p>>] <= f[<<c, p>>]
    BY <1>1 DEF Kinds
  <2>2. PICK g \in [Prices -> Nat] : g = [p \in Prices |-> p * e[<<c, p>>]]
    <3>1. [p \in Prices |-> p * e[<<c, p>>]] \in [Prices -> Nat]
      BY <2>1
    <3> QED BY <3>1
  <2>3. PICK h \in [Prices -> Nat] : h = [p \in Prices |-> p * f[<<c, p>>]]
    <3>1. [p \in Prices |-> p * f[<<c, p>>]] \in [Prices -> Nat]
      BY <2>1
    <3> QED BY <3>1
  <2>4. \A x \in Nat, y \in Nat, z \in Nat : x <= y => z * x <= z * y
    OBVIOUS
  <2>5. \A p \in Prices : g[p] \in Int /\ h[p] \in Int /\ g[p] <= h[p]
    BY <2>1, <2>2, <2>3, <2>4
  <2>6. SumFunctionOnSet(g, Prices) <= SumFunctionOnSet(h, Prices)
    BY <1>1, <2>5, SumMonotone
  <2>7. SpentOf(e, c) = SumFunctionOnSet(g, Prices)
    BY <1>1, <2>2, SumOfNaturals DEF SpentOf
  <2>8. SpentOf(f, c) = SumFunctionOnSet(h, Prices)
    BY <1>1, <2>3, SumOfNaturals DEF SpentOf
  <2> QED BY <2>6, <2>7, <2>8
<1>3. PICK g \in [Groups -> Nat] : g = [c \in Groups |-> SpentOf(e, c)]
  <2>1. [c \in Groups |-> SpentOf(e, c)] \in [Groups -> Nat]
    BY GroupNatural
  <2> QED BY <2>1
<1>4. PICK h \in [Groups -> Nat] : h = [c \in Groups |-> SpentOf(f, c)]
  <2>1. [c \in Groups |-> SpentOf(f, c)] \in [Groups -> Nat]
    BY GroupNatural
  <2> QED BY <2>1
<1>5. \A c \in Groups : g[c] \in Int /\ h[c] \in Int /\ g[c] <= h[c]
  BY <1>2, <1>3, <1>4
<1>6. SumFunctionOnSet(g, Groups) <= SumFunctionOnSet(h, Groups)
  BY <1>5, GroupsFinite, SumMonotone
<1>7. TotalOf(e) = SumFunctionOnSet(g, Groups)
  BY <1>3, GroupsFinite, SumOfNaturals DEF TotalOf
<1>8. TotalOf(f) = SumFunctionOnSet(h, Groups)
  BY <1>4, GroupsFinite, SumOfNaturals DEF TotalOf
<1> QED BY <1>2, <1>6, <1>7, <1>8

\* What the queries return of the current expenses.
LEMMA QuantitiesNatural ==
  ASSUME DataInv
  PROVE  /\ \A c \in Groups : Quantity(c) \in Nat /\ Spent(c) \in Nat
         /\ TotalExpenses \in Nat /\ ExpenseCount \in Nat
<1>1. expenses \in [Kinds -> Nat]
  BY DEF DataInv
<1>2. ASSUME NEW c \in Groups PROVE Quantity(c) \in Nat /\ Spent(c) \in Nat
  BY <1>1, GroupNatural DEF Quantity, Spent, QuantityOf, SpentOf
<1>3. TotalExpenses = TotalOf(expenses)
  BY DEF TotalExpenses, TotalOf, Spent, SpentOf
<1>4. ExpenseCount = CountOf(expenses)
  BY DEF ExpenseCount, CountOf, Quantity, QuantityOf
<1>5. TotalOf(expenses) \in Nat /\ CountOf(expenses) \in Nat
  BY <1>1, TotalNatural, CountNatural
<1> QED BY <1>2, <1>3, <1>4, <1>5

-----------------------------------------------------------------------------
(* Insights: the open period and the close.                                *)

\* What counts against a budget is a natural, its amount positive.
LEMMA ChargedNatural ==
  ASSUME DataInv, NEW b \in Budgets
  PROVE  Charged(b) \in Nat /\ b.amount \in Nat \ {0}
<1>1. b.category \in Groups /\ b.amount \in Nat \ {0}
  BY InsightsAssumption DEF Groups
<1> QED BY <1>1, QuantitiesNatural DEF Charged

\* A budget over its amount is at 100% or more, whatever the rounding, and
\* no critical threshold is above that.
LEMMA ExceededAlerted ==
  ASSUME DataInv, NEW b \in Exceeded
  PROVE  BudgetAlert(b) = "budget_exceeded"
<1>1. PICK x \in Nat, a \in Nat \ {0} : x = Charged(b) /\ a = b.amount /\ x > a
  BY ChargedNatural DEF Exceeded
<1>2. b.critical \in 0 .. 100
  BY InsightsAssumption DEF Exceeded
<1>3. 1000 * x \in Nat /\ 1000 \in Nat /\ (2 * a) * 1000 <= 2 * (1000 * x) + a
  BY <1>1
<1>4. RoundDiv(1000 * x, a) >= 1000 /\ RoundDiv(1000 * x, a) \in Nat
  BY <1>3, RoundDivReaches, RoundDivNearest
<1>5. Percent(x, a) >= 10 * b.critical
  BY <1>2, <1>4 DEF Percent
<1> QED BY <1>1, <1>5 DEF BudgetAlert

\* Adding up more groups gives no less.
LEMMA SumOfGroups ==
  ASSUME NEW f \in [Groups -> Nat], NEW R \in SUBSET Groups,
         NEW S \in SUBSET Groups, R \subseteq S
  PROVE  SumFunction([c \in R |-> f[c]]) <= SumFunction([c \in S |-> f[c]])
<1>1. IsFiniteSet(R) /\ IsFiniteSet(S)
  BY GroupsFinite, FS_Subset
<1>2. PICK g \in [R -> Nat] : g = [c \in R |-> f[c]]
  OBVIOUS
<1>3. PICK h \in [S -> Nat] : h = [c \in S |-> f[c]]
  OBVIOUS
<1>4. SumFunctionOnSet(g, R) <= SumFunctionOnSet(h, R)
  <2>1. \A c \in R : g[c] \in Int /\ h[c] \in Int /\ g[c] <= h[c]
    BY <1>2, <1>3
  <2> QED BY <1>1, <2>1, SumMonotone
<1>5. SumFunctionOnSet(h, R) <= SumFunctionOnSet(h, S)
  BY <1>1, SumOfPart
<1>6. /\ SumFunction(g) = SumFunctionOnSet(g, R) /\ SumFunction(g) \in Nat
      /\ SumFunction(h) = SumFunctionOnSet(h, S) /\ SumFunction(h) \in Nat
  BY <1>1, SumOfNaturals
<1>7. SumFunctionOnSet(h, R) \in Int
  <2>1. \A c \in R : h[c] \in Int
    OBVIOUS
  <2> QED BY <1>1, <2>1, SumType
<1> QED BY <1>2, <1>3, <1>4, <1>5, <1>6, <1>7

\* The thresholds at the close ask for more than the ones before it.
LEMMA AntsPointedOut ==
  ASSUME DataInv, AntExpensesFinal
  PROVE  AntExpensesEarly
<1> DEFINE Small(n) ==
             {c \in Spending :
                /\ Quantity(c) >= n
                /\ 10 * Spent(c) * ExpenseCount < TotalExpenses * Quantity(c)}
           few == SumFunction([c \in Small(3) |-> Quantity(c)])
           more == SumFunction([c \in Small(2) |-> Quantity(c)])
<1>1. /\ \A c \in Groups : Quantity(c) \in Nat
      /\ ExpenseCount \in Nat
  BY QuantitiesNatural
<1>2. ExpenseCount >= 5 /\ few >= 5
  BY DEF AntExpensesFinal, AntExpenses
<1>3. /\ Small(3) \subseteq Small(2)
      /\ Small(2) \in SUBSET Groups /\ Small(3) \in SUBSET Groups
  BY <1>1 DEF Spending
<1>4. few <= more /\ few \in Nat /\ more \in Nat
  <2> HIDE DEF Small
  <2>1. PICK f \in [Groups -> Nat] : f = [c \in Groups |-> Quantity(c)]
    <3>1. [c \in Groups |-> Quantity(c)] \in [Groups -> Nat]
      BY <1>1
    <3> QED BY <3>1
  <2>2. \A S \in SUBSET Groups : [c \in S |-> Quantity(c)] = [c \in S |-> f[c]]
    BY <2>1
  <2>3. few <= more
    BY <1>3, <2>2, SumOfGroups
  <2>4. \A S \in SUBSET Groups :
          IsFiniteSet(S) /\ [c \in S |-> Quantity(c)] \in [S -> Nat]
    BY <1>1, GroupsFinite, FS_Subset
  <2>5. few \in Nat /\ more \in Nat
    BY <1>3, <2>4, SumOfNaturals
  <2> QED BY <2>3, <2>5
<1>5. ExpenseCount >= 3 /\ more >= 3
  BY <1>1, <1>2, <1>4
<1> QED BY <1>5 DEF AntExpensesEarly, AntExpenses

\* The smaller of two numbers.
LEMMA MinOfTwo ==
  ASSUME NEW a \in Int, NEW b \in Int
  PROVE  Min({a, b}) = IF a <= b THEN a ELSE b
<1>1. PICK m \in {a, b} : m = IF a <= b THEN a ELSE b
  OBVIOUS
<1>2. \A y \in {a, b} : m <= y
  BY <1>1
<1>3. Min({a, b}) \in {a, b} /\ \A y \in {a, b} : Min({a, b}) <= y
  BY <1>2, Zenon DEF Min
<1> QED BY <1>1, <1>2, <1>3

\* The days elapsed are clamped to the period.
LEMMA Elapsed ==
  ASSUME DataInv
  PROVE  /\ Min({day, Days}) \in Nat \ {0}
         /\ Min({day, Days}) = IF day <= Days THEN day ELSE Days
<1>1. day \in Nat \ {0} /\ Days \in Nat \ {0}
  BY InsightsAssumption DEF DataInv
<1> QED BY <1>1, MinOfTwo

\* The pace warns exactly when the projection is above the income.
LEMMA PaceWarns ==
  ASSUME DataInv
  PROVE  /\ SpendingPace \in {"warning", "critical"} <=>
              income > 0 /\ Projected > income
         /\ Projected \in Nat
<1>1. /\ TotalExpenses \in Nat /\ income \in Nat /\ Days \in Nat \ {0}
      /\ None \notin {"warning", "critical", "info"}
  BY QuantitiesNatural, InsightsAssumption DEF DataInv
<1>2. PICK m \in Nat \ {0} : m = Min({day, Days})
  BY Elapsed
<1>3. PICK n \in Nat : n = TotalExpenses * Days
  BY <1>1
<1>4. PICK p \in Nat : p = Projected /\ p = RoundDiv(n, m)
  BY <1>2, <1>3, RoundDivNearest DEF Projected
<1>5. TotalExpenses = 0 => p = 0
  <2> SUFFICES ASSUME TotalExpenses = 0 PROVE p = 0
    OBVIOUS
  <2>1. n = 0 * m
    BY <1>1, <1>2, <1>3
  <2> QED BY <1>2, <1>4, <2>1, RoundDivExact
<1> QED BY <1>1, <1>4, <1>5 DEF SpendingPace

\* On the last day the projection is what was spent.
LEMMA LastDayProjection ==
  ASSUME DataInv, day = Days
  PROVE  Projected = TotalExpenses
<1>1. TotalExpenses \in Nat /\ Days \in Nat \ {0}
  BY QuantitiesNatural, InsightsAssumption
<1>2. Min({day, Days}) = Days
  BY Elapsed, <1>1
<1>3. RoundDiv(TotalExpenses * Days, Days) = TotalExpenses
  BY <1>1, RoundDivExact
<1> QED BY <1>2, <1>3 DEF Projected

\* The summary warns exactly when more was spent than came in.
LEMMA NegativeSavings ==
  ASSUME DataInv
  PROVE  SavingsSummary = "warning" <=> TotalExpenses > income
<1>1. TotalExpenses \in Nat /\ income \in Nat
  BY QuantitiesNatural DEF DataInv
<1> QED BY <1>1 DEF SavingsSummary, NetSavings

\* The previous period, where one is compared with, has a total.
LEMMA ComparedNatural ==
  ASSUME DataInv, ComparedWith # None
  PROVE  ComparedWith \in Nat
  BY InsightsAssumption DEF DataInv, ComparedWith

\* On the last day the estimate is all of the previous period.
LEMMA LastDayEstimate ==
  ASSUME DataInv, day = Days, ComparedWith # None
  PROVE  PreviousEstimate(ComparedWith) = ComparedWith
<1>1. PICK p \in Nat : p = ComparedWith
  BY ComparedNatural
<1>2. Days \in Nat \ {0}
  BY InsightsAssumption
<1>3. RoundDiv(p * Days, Days) = p
  BY <1>2, RoundDivExact
<1> QED BY <1>1, <1>3 DEF PreviousEstimate

\* So that the two changes are the same, and more than 20% is more than 15%.
LEMMA CompareWarned ==
  ASSUME DataInv, day = Days, VsPreviousFinal = "warning"
  PROVE  VsPreviousPartial = "warning"
<1>1. ComparedWith # None
  BY InsightsAssumption DEF VsPreviousFinal
<1>2. PICK p \in Nat, t \in Nat : p = ComparedWith /\ t = TotalExpenses
  BY <1>1, ComparedNatural, QuantitiesNatural
<1>3. PICK x \in Nat : x = t - p /\ Percent(x, p) > 200
  BY <1>1, <1>2 DEF VsPreviousFinal
<1>4. p > 0 /\ Percent(x, p) = RoundDiv(1000 * x, p)
  BY <1>3 DEF Percent
<1>5. x > 0
  <2> SUFFICES ASSUME x = 0 PROVE FALSE
    OBVIOUS
  <2>1. 1000 * x = 0 * p
    OBVIOUS
  <2>2. RoundDiv(1000 * x, p) = 0
    BY <1>4, <2>1, RoundDivExact
  <2> QED BY <1>3, <1>4, <2>2
<1>6. Percent(x, p) \in Nat
  <2>1. 1000 * x \in Nat /\ p \in Nat \ {0}
    BY <1>4
  <2> QED BY <1>4, <2>1, RoundDivNatural
<1>7. PreviousEstimate(ComparedWith) = p /\ TotalExpenses - p = x
  BY <1>1, <1>2, <1>3, LastDayEstimate
<1> QED BY <1>1, <1>3, <1>5, <1>6, <1>7 DEF VsPreviousPartial

(***************************************************************************)
(* For any categories, prices, budgets, thresholds, incomes and lengths of *)
(* periods, the close brings no bad news the open period had kept to       *)
(* itself (analytics.go:208-491, analytics_during.go:109-494).             *)
(***************************************************************************)
THEOREM NoSurpriseAtCloseCorrect == Period => []NoSurpriseAtClose
<1>1. DataInv => NoSurpriseAtClose
  <2> SUFFICES ASSUME DataInv PROVE NoSurpriseAtClose
    OBVIOUS
  <2>1. \A b \in Exceeded : BudgetAlert(b) = "budget_exceeded"
    BY ExceededAlerted
  <2>2. ASSUME BudgetCompliance \in {"warning", "critical"}
        PROVE  \E b \in Budgets : BudgetAlert(b) # None
    <3>1. Exceeded # {} /\ Exceeded \subseteq Budgets
      BY <2>2, InsightsAssumption DEF BudgetCompliance, Exceeded
    <3>2. None # "budget_exceeded"
      BY InsightsAssumption
    <3> QED BY <2>1, <3>1, <3>2
  <2>3. ASSUME day = Days, SavingsSummary = "warning", income > 0
        PROVE  SpendingPace \in {"warning", "critical"}
    <3>1. /\ TotalExpenses > income /\ TotalExpenses \in Nat /\ income \in Nat
          /\ Projected = TotalExpenses
      BY <2>3, NegativeSavings, LastDayProjection, QuantitiesNatural
         DEF DataInv
    <3>2. Projected > income
      BY <3>1
    <3> QED BY <2>3, <3>2, PaceWarns
  <2>4. ASSUME day = Days, VsPreviousFinal = "warning"
        PROVE  VsPreviousPartial = "warning"
    BY <2>4, CompareWarned
  <2>5. AntExpensesFinal => AntExpensesEarly
    BY AntsPointedOut
  <2> QED BY <2>1, <2>2, <2>3, <2>4, <2>5 DEF NoSurpriseAtClose
<1> QED BY <1>1, InsightsTypeCorrect, PTL

(***************************************************************************)
(* Nor does it take back good news (analytics.go:321-491,                  *)
(* analytics_during.go:109-198,434-494).                                   *)
(***************************************************************************)
THEOREM NothingTakenBackCorrect == Period => []NothingTakenBack
<1>1. DataInv => NothingTakenBack
  <2> SUFFICES ASSUME DataInv, day = Days
               PROVE  /\ SpendingPace \in {"warning", "critical"} =>
                           SavingsSummary = "warning"
                      /\ VsPreviousPartial = "success" =>
                           VsPreviousFinal = "success"
                      /\ VsPreviousPartial = None <=> VsPreviousFinal = None
    BY DEF NothingTakenBack
  <2>1. ASSUME SpendingPace \in {"warning", "critical"}
        PROVE  SavingsSummary = "warning"
    <3>1. TotalExpenses \in Nat /\ income \in Nat
      BY QuantitiesNatural DEF DataInv
    <3>2. TotalExpenses > income
      BY <2>1, PaceWarns, LastDayProjection
    <3> QED BY <3>1, <3>2, NegativeSavings
  <2>2. None \notin {"info", "success", "warning"}
    BY InsightsAssumption
  <2>3. (VsPreviousPartial = None <=> ComparedWith = None)
        /\ (VsPreviousFinal = None <=> ComparedWith = None)
    BY <2>2 DEF VsPreviousPartial, VsPreviousFinal
  <2>4. ASSUME VsPreviousPartial = "success"
        PROVE  VsPreviousFinal = "success"
    <3>1. ComparedWith # None
      BY <2>2, <2>3, <2>4
    <3>2. PICK p \in Nat, t \in Nat : p = ComparedWith /\ t = TotalExpenses
      BY <3>1, ComparedNatural, QuantitiesNatural
    <3>3. t - p < 0
      BY <2>4, <3>1, <3>2, LastDayEstimate DEF VsPreviousPartial
    <3> QED BY <3>1, <3>2, <3>3 DEF VsPreviousFinal
  <2> QED BY <2>1, <2>3, <2>4
<1> QED BY <1>1, InsightsTypeCorrect, PTL

-----------------------------------------------------------------------------
(* Insights: the largest categories.                                       *)

\* A sequence of the elements of a finite set, each once, has them all.
LEMMA SeqOfSet ==
  ASSUME NEW S, IsFiniteSet(S), NEW s \in SetToSeqs(S)
  PROVE  /\ s \in Seq(S) /\ Len(s) \in Nat /\ s \in [1 .. Len(s) -> S]
         /\ Len(s) = Cardinality(S)
         /\ \A x \in S : \E i \in 1 .. Len(s) : s[i] = x
<1>1. PICK n \in Nat : n = Cardinality(S)
  BY FS_CardinalityType
<1>2. /\ s \in [1 .. n -> S]
      /\ \A i \in 1 .. n, j \in 1 .. n : i # j => s[i] # s[j]
  BY <1>1 DEF SetToSeqs
<1>3. s \in Seq(S) /\ Len(s) = n
  BY <1>2
<1>4. IsFiniteSet(1 .. n) /\ Cardinality(1 .. n) = n
  BY FS_Interval
<1>5. s \in Injection(1 .. n, S)
  BY <1>2 DEF Injection, IsInjective
<1>6. s \in Surjection(1 .. n, S)
  BY <1>1, <1>4, <1>5, FS_Injection
<1>7. \A x \in S : \E i \in 1 .. n : s[i] = x
  BY <1>6 DEF Surjection
<1> QED BY <1>1, <1>2, <1>3, <1>7

\* Sorted pairwise is sorted: nobody is smaller than one that follows.
LEMMA LargestFirst ==
  ASSUME DataInv, NEW S \in SUBSET Groups, NEW s \in InOrder(S),
         NEW i \in 1 .. Len(s), NEW j \in 1 .. Len(s), i <= j
  PROVE  Spent(s[i]) >= Spent(s[j])
<1>1. IsFiniteSet(S)
  BY GroupsFinite, FS_Subset
<1>2. s \in SetToSeqs(S)
  BY DEF InOrder
<1>3. PICK n \in Nat : n = Len(s) /\ s \in [1 .. n -> S]
  BY <1>1, <1>2, SeqOfSet
<1>4. \A k \in 1 .. n - 1 : Spent(s[k]) >= Spent(s[k + 1])
  BY <1>3 DEF InOrder
<1>5. \A k \in 1 .. n : Spent(s[k]) \in Nat
  BY <1>3, QuantitiesNatural
<1> DEFINE Bad == {k \in 1 .. n : i <= k /\ ~(Spent(s[i]) >= Spent(s[k]))}
<1>6. ASSUME Bad # {} PROVE FALSE
  <2>1. Bad \subseteq Nat
    OBVIOUS
  <2>2. PICK k \in Bad : \A m \in Bad : ~(<<m, k>> \in OpToRel(<, Nat))
    <3> HIDE DEF Bad
    <3> QED BY <1>6, <2>1, NatLessThanWellFounded, WFMin
  <2>3. k \in 1 .. n /\ i <= k /\ ~(Spent(s[i]) >= Spent(s[k])) /\ i \in 1 .. n
    BY <1>3, <2>2
  <2>4. k # i
    BY <1>5, <2>3
  <2>5. /\ k - 1 \in 1 .. n - 1 /\ k - 1 \in 1 .. n
        /\ i <= k - 1 /\ (k - 1) + 1 = k
    BY <2>3, <2>4
  <2>6. <<k - 1, k>> \in OpToRel(<, Nat)
    BY <2>5 DEF OpToRel
  <2>7. k - 1 \notin Bad
    BY <2>2, <2>6
  <2>8. Spent(s[i]) >= Spent(s[k - 1])
    BY <2>5, <2>7
  <2>9. Spent(s[k - 1]) >= Spent(s[k])
    BY <1>4, <2>5
  <2>10. Spent(s[i]) \in Nat /\ Spent(s[k]) \in Nat /\ Spent(s[k - 1]) \in Nat
    BY <1>5, <2>3, <2>5
  <2> QED BY <2>3, <2>8, <2>9, <2>10
<1>7. j \in 1 .. n
  BY <1>3
<1> QED BY <1>6, <1>7

\* No category left out of the top three is larger than one in it.
LEMMA TopThree ==
  ASSUME DataInv, NEW s \in ExpenseByCategory,
         NEW c \in Range(TopCategories(s)),
         NEW d \in Spending \ Range(TopCategories(s))
  PROVE  Spent(c) >= Spent(d)
<1>1. Spending \in SUBSET Groups /\ IsFiniteSet(Spending)
  BY GroupsFinite, FS_Subset DEF Spending
<1>2. s \in InOrder(Spending) /\ s \in SetToSeqs(Spending)
  BY DEF ExpenseByCategory, InOrder
<1>3. PICK n \in Nat :
        /\ n = Len(s) /\ s \in Seq(Spending) /\ s \in [1 .. n -> Spending]
        /\ \A x \in Spending : \E i \in 1 .. n : s[i] = x
  BY <1>1, <1>2, SeqOfSet
<1>4. PICK m \in Nat : m = Min({3, n}) /\ m <= n
  BY MinOfTwo
<1>5. PICK t : t = SubSeq(s, 1, m)
  OBVIOUS
<1>6. t = [k \in 1 .. m |-> s[k]]
  BY <1>3, <1>4, <1>5
<1>7. TopCategories(s) = t
  BY <1>3, <1>4, <1>5 DEF TopCategories
<1>8. Range(TopCategories(s)) = {s[k] : k \in 1 .. m}
  BY <1>6, <1>7 DEF Range
<1>9. PICK i \in 1 .. m : c = s[i]
  BY <1>8
<1>10. PICK j \in 1 .. n : d = s[j]
  BY <1>3
<1>11. j \notin 1 .. m
  BY <1>8, <1>10
<1>12. i <= j /\ i \in 1 .. Len(s) /\ j \in 1 .. Len(s)
  BY <1>3, <1>4, <1>11
<1> QED BY <1>1, <1>2, <1>9, <1>10, <1>12, LargestFirst

\* A set of naturals that is not empty has a least element.
LEMMA LeastOf ==
  ASSUME NEW S \in SUBSET Nat, S # {}
  PROVE  Min(S) \in S /\ \A x \in S : Min(S) <= x
<1>1. PICK k \in S : \A m \in S : ~(<<m, k>> \in OpToRel(<, Nat))
  BY NatLessThanWellFounded, WFMin
<1>2. \A m \in S : ~(m < k)
  BY <1>1 DEF OpToRel
<1>3. \A m \in S : k <= m
  BY <1>2
<1> QED BY <1>3, Zenon DEF Min

\* The first category with two expenses is the largest of those that have two.
LEMMA LargestReduction ==
  ASSUME DataInv, NEW s \in ExpenseByCategory, NEW c \in Categories,
         Quantity(c) >= 2
  PROVE  /\ ReductionOpportunity(s) # None
         /\ Spent(c) <= Spent(ReductionOpportunity(s))
<1>1. Spending \in SUBSET Groups /\ IsFiniteSet(Spending)
  BY GroupsFinite, FS_Subset DEF Spending
<1>2. s \in InOrder(Spending) /\ s \in SetToSeqs(Spending)
  BY DEF ExpenseByCategory, InOrder
<1>3. PICK n \in Nat :
        /\ n = Len(s) /\ s \in [1 .. n -> Spending]
        /\ \A x \in Spending : \E i \in 1 .. n : s[i] = x
  BY <1>1, <1>2, SeqOfSet
<1>4. PICK eligible \in SUBSET (1 .. n) :
        eligible = {i \in 1 .. n : s[i] # NoCategory /\ Quantity(s[i]) >= 2}
  OBVIOUS
<1>5. c \in Groups /\ Quantity(c) \in Nat /\ c # NoCategory
  BY InsightsAssumption, QuantitiesNatural DEF Groups
<1>6. PICK j \in eligible : s[j] = c
  <2>1. c \in Spending
    BY <1>5 DEF Spending
  <2> QED BY <1>3, <1>4, <1>5, <2>1
<1>7. PICK m \in eligible : m = Min(eligible) /\ m <= j
  <2>1. eligible \in SUBSET Nat /\ eligible # {}
    BY <1>6
  <2> QED BY <1>6, <2>1, LeastOf
<1>8. ReductionOpportunity(s) = s[m]
  BY <1>3, <1>4, <1>6, <1>7 DEF ReductionOpportunity
<1>9. s[m] \in Categories
  BY <1>1, <1>3, <1>4 DEF Groups
<1>10. m \in 1 .. Len(s) /\ j \in 1 .. Len(s)
  BY <1>3
<1>11. Spent(s[m]) >= Spent(s[j])
  BY <1>1, <1>2, <1>7, <1>10, LargestFirst
<1>12. Spent(s[m]) \in Nat /\ Spent(c) \in Nat
  BY <1>5, <1>9, QuantitiesNatural DEF Groups
<1> QED BY <1>6, <1>8, <1>9, <1>11, <1>12, InsightsAssumption

\* Both queries are led by a largest category.
LEMMA TopOfSummary ==
  ASSUME DataInv, NEW s \in ExpenseByCategory, s # <<>>, s[1] # NoCategory,
         NEW top \in TopExpenseCategory
  PROVE  Spent(top) = Spent(s[1])
<1>1. Spending \in SUBSET Groups /\ IsFiniteSet(Spending)
  BY GroupsFinite, FS_Subset DEF Spending
<1>2. s \in InOrder(Spending) /\ s \in SetToSeqs(Spending)
  BY DEF ExpenseByCategory, InOrder
<1>3. PICK n \in Nat :
        /\ n = Len(s) /\ s \in Seq(Spending) /\ s \in [1 .. n -> Spending]
        /\ \A x \in Spending : \E i \in 1 .. n : s[i] = x
  BY <1>1, <1>2, SeqOfSet
<1> DEFINE S == Spending \ {NoCategory}
<1>4. S \in SUBSET Groups /\ IsFiniteSet(S)
  BY <1>1, FS_Subset
<1>5. PICK t \in InOrder(S) : t # <<>> /\ top = t[1]
  BY DEF TopExpenseCategory
<1>6. t \in SetToSeqs(S)
  BY <1>5 DEF InOrder
<1> HIDE DEF S
<1>7. PICK m \in Nat :
        /\ m = Len(t) /\ t \in Seq(S) /\ t \in [1 .. m -> S]
        /\ \A x \in S : \E i \in 1 .. m : t[i] = x
  BY <1>4, <1>6, SeqOfSet
<1>8. 1 \in 1 .. n /\ 1 \in 1 .. m
  BY <1>3, <1>5, <1>7
<1>9. t[1] \in S /\ S \subseteq Spending /\ s[1] \in S
  BY <1>3, <1>7, <1>8 DEF S
<1>10. PICK i \in 1 .. n : s[i] = t[1]
  BY <1>3, <1>9
<1>11. PICK j \in 1 .. m : t[j] = s[1]
  BY <1>7, <1>9
<1>12. Spent(s[1]) >= Spent(s[i])
  BY <1>1, <1>2, <1>3, <1>8, LargestFirst
<1>13. Spent(t[1]) >= Spent(t[j])
  BY <1>4, <1>7, <1>8, LargestFirst
<1>14. Spent(s[1]) \in Nat /\ Spent(t[1]) \in Nat
  BY <1>1, <1>9, QuantitiesNatural
<1> QED BY <1>5, <1>10, <1>11, <1>12, <1>13, <1>14

(***************************************************************************)
(* The categories the insights and the summary name are the largest ones,  *)
(* in whatever order ties come (analytics.go:102-317,                      *)
(* store_periods.go:266-273).                                              *)
(***************************************************************************)
THEOREM LeadersAreLargestCorrect == Period => []LeadersAreLargest
<1>1. DataInv => LeadersAreLargest
  BY TopThree, LargestReduction, TopOfSummary DEF LeadersAreLargest
<1> QED BY <1>1, InsightsTypeCorrect, PTL

-----------------------------------------------------------------------------
(* Insights: what a step does to an alert.                                 *)

\* The rank of each severity; an insight that is omitted ranks lowest.
LEMMA RankValues == Rank(None) = 0 /\ Rank("info") = 0 /\ Rank("success") = 0
                    /\ Rank("warning") = 1 /\ Rank("budget_warning") = 1
                    /\ Rank("critical") = 2 /\ Rank("budget_exceeded") = 2
  BY InsightsAssumption DEF Rank

\* The rank of an insight in numbers: t spent, p projected, income i.
PaceRank(t, p, i) ==
  IF t > 0 /\ i > 0 /\ 10 * p > 12 * i THEN 2
  ELSE IF t > 0 /\ i > 0 /\ p > i THEN 1 ELSE 0

\* c charged against a budget.
BudgetRank(c, b) ==
  IF c = 0 THEN 0
  ELSE IF Percent(c, b.amount) >= 10 * b.critical THEN 2
  ELSE IF Percent(c, b.amount) >= 10 * b.warning THEN 1 ELSE 0

\* t spent where the previous period's estimate is e.
CompareRank(t, e) == IF t - e > 0 /\ Percent(t - e, e) > 150 THEN 1 ELSE 0

\* The rank of the pace of spending.
LEMMA RankOfPace ==
  ASSUME DataInv
  PROVE  Rank(SpendingPace) = PaceRank(TotalExpenses, Projected, income)
  BY RankValues, QuantitiesNatural DEF SpendingPace, PaceRank, DataInv

\* That of a budget.
LEMMA RankOfBudget ==
  ASSUME DataInv, NEW b \in Budgets
  PROVE  Rank(BudgetAlert(b)) = BudgetRank(Charged(b), b)
  BY RankValues DEF BudgetAlert, BudgetRank

\* That of the comparison, none without a previous period.
LEMMA RankOfComparison ==
  ASSUME DataInv
  PROVE  Rank(VsPreviousPartial) =
           IF ComparedWith = None THEN 0
           ELSE CompareRank(TotalExpenses, PreviousEstimate(ComparedWith))
  BY RankValues DEF VsPreviousPartial, CompareRank

\* The pace ranks higher when more is spent and projected.
LEMMA PaceRises ==
  ASSUME NEW t \in Nat, NEW u \in Nat, NEW p \in Nat, NEW q \in Nat,
         NEW i \in Nat, t <= u, p <= q
  PROVE  PaceRank(t, p, i) <= PaceRank(u, q, i)
  BY DEF PaceRank

\* A budget ranks higher when more is charged against it.
LEMMA BudgetRises ==
  ASSUME NEW b \in Budgets, NEW c \in Nat, NEW d \in Nat, c <= d
  PROVE  BudgetRank(c, b) <= BudgetRank(d, b)
<1>1. PICK a \in Nat \ {0} : a = b.amount
  BY InsightsAssumption
<1>2. b.critical \in 0 .. 100 /\ b.warning \in 0 .. 100
  BY InsightsAssumption
<1>3. 1000 * c \in Nat /\ 1000 * d \in Nat /\ 1000 * c <= 1000 * d /\ a <= a
  OBVIOUS
<1>4. RoundDiv(1000 * c, a) <= RoundDiv(1000 * d, a)
  BY <1>3, RoundDivOrder
<1>5. RoundDiv(1000 * c, a) \in Nat /\ RoundDiv(1000 * d, a) \in Nat
  BY <1>3, RoundDivNatural
<1>6. PICK x \in Nat, y \in Nat :
        x = Percent(c, b.amount) /\ y = Percent(d, b.amount) /\ x <= y
  BY <1>1, <1>4, <1>5 DEF Percent
<1> QED BY <1>2, <1>6 DEF BudgetRank

\* More spent, or less in the estimate.
LEMMA CompareRises ==
  ASSUME NEW t \in Nat, NEW u \in Nat, NEW e \in Nat, NEW d \in Nat,
         t <= u, d <= e, e > 0 => d > 0
  PROVE  CompareRank(t, e) <= CompareRank(u, d)
<1> SUFFICES ASSUME t - e > 0, Percent(t - e, e) > 150
             PROVE  u - d > 0 /\ Percent(u - d, d) > 150
  BY DEF CompareRank
<1>1. e > 0
  BY DEF Percent
<1>2. PICK x \in Nat, y \in Nat : x = t - e /\ y = u - d /\ x <= y /\ y > 0
  OBVIOUS
<1>3. /\ e \in Nat \ {0} /\ d \in Nat \ {0}
      /\ 1000 * x \in Nat /\ 1000 * y \in Nat /\ 1000 * x <= 1000 * y
  BY <1>1, <1>2
<1>4. RoundDiv(1000 * x, e) <= RoundDiv(1000 * y, d)
  BY <1>3, RoundDivOrder
<1>5. RoundDiv(1000 * x, e) \in Nat /\ RoundDiv(1000 * y, d) \in Nat
  BY <1>3, RoundDivNatural
<1>6. RoundDiv(1000 * x, e) > 150
  BY <1>1, <1>2 DEF Percent
<1>7. RoundDiv(1000 * y, d) > 150
  BY <1>4, <1>5, <1>6
<1> QED BY <1>2, <1>3, <1>7 DEF Percent

\* Projected, where t is what was spent and n the days elapsed: more spent in
\* fewer days.
LEMMA Projection ==
  ASSUME NEW t \in Nat, NEW u \in Nat,
         NEW m \in Nat \ {0}, NEW n \in Nat \ {0}, t <= u, n <= m
  PROVE  /\ RoundDiv(t * Days, m) \in Nat
         /\ RoundDiv(t * Days, m) <= RoundDiv(u * Days, n)
<1>1. PICK k \in Nat : k = Days
  BY InsightsAssumption
<1>2. PICK a \in Nat, b \in Nat :
        a = t * Days /\ b = u * Days /\ a <= b
  <2>1. t * k <= u * k /\ t * k \in Nat /\ u * k \in Nat
    OBVIOUS
  <2> QED BY <1>1, <2>1
<1> QED BY <1>2, RoundDivOrder, RoundDivNearest

\* The estimate of the previous period on two days.
LEMMA EstimateGrows ==
  ASSUME NEW p \in Nat, NEW x \in Nat \ {0}, NEW y \in Nat \ {0}, x <= y
  PROVE  /\ RoundDiv(p * x, Days) \in Nat
         /\ RoundDiv(p * x, Days) <= RoundDiv(p * y, Days)
<1>1. PICK k \in Nat \ {0} : k = Days /\ k <= k
  BY InsightsAssumption
<1>2. PICK a \in Nat, b \in Nat : a = p * x /\ b = p * y /\ a <= b
  <2>1. p * x <= p * y /\ p * x \in Nat /\ p * y \in Nat
    OBVIOUS
  <2> QED BY <2>1
<1>3. RoundDiv(a, k) <= RoundDiv(b, k)
  BY <1>1, <1>2, RoundDivOrder
<1>4. RoundDiv(a, k) \in Nat
  BY RoundDivNatural
<1> QED BY <1>1, <1>2, <1>3, <1>4

ExpensesGrow == \A k \in Kinds : expenses[k] <= expenses'[k]

\* No total and nothing charged against a budget gets smaller.
LEMMA TotalsGrow ==
  ASSUME DataInv, DataInv', ExpensesGrow
  PROVE  /\ TotalExpenses <= TotalExpenses'
         /\ \A b \in Budgets : Charged(b) <= Charged(b)'
<1>1. expenses \in [Kinds -> Nat] /\ expenses' \in [Kinds -> Nat]
  BY DEF DataInv
<1>2. \A k \in Kinds : expenses[k] <= expenses'[k]
  BY DEF ExpensesGrow
<1>3. /\ \A c \in Groups : SpentOf(expenses, c) <= SpentOf(expenses', c)
      /\ TotalOf(expenses) <= TotalOf(expenses')
  BY <1>1, <1>2, TotalsMonotone
<1>4. TotalExpenses = TotalOf(expenses) /\ TotalExpenses' = TotalOf(expenses')
  BY DEF TotalExpenses, TotalOf, Spent, SpentOf
<1>5. ASSUME NEW c \in Groups
      PROVE  /\ Spent(c) = SpentOf(expenses, c)
             /\ Spent(c)' = SpentOf(expenses', c)
  BY DEF Spent, SpentOf
<1>6. ASSUME NEW b \in Budgets PROVE Charged(b) <= Charged(b)'
  <2>1. b.category \in Groups
    BY InsightsAssumption DEF Groups
  <2>2. PICK c \in Groups : c = b.category
    BY <2>1
  <2>3. Spent(c) <= Spent(c)'
    BY <1>3, <1>5
  <2>4. CASE b.category = NoCategory
    BY <1>3, <1>4, <2>4 DEF Charged
  <2>5. CASE b.category # NoCategory
    BY <2>2, <2>3, <2>5 DEF Charged
  <2> QED BY <2>4, <2>5
<1> QED BY <1>3, <1>4, <1>6

\* The ranks after a step.
LEMMA PrimedRanks ==
  ASSUME DataInv'
  PROVE  /\ TotalExpenses' \in Nat
         /\ Rank(SpendingPace') = PaceRank(TotalExpenses', Projected', income')
         /\ Rank(VsPreviousPartial') =
              IF ComparedWith' = None THEN 0
              ELSE CompareRank(TotalExpenses', PreviousEstimate(ComparedWith)')
<1>1. TotalExpenses' = TotalOf(expenses') /\ expenses' \in [Kinds -> Nat]
  BY DEF TotalExpenses, TotalOf, Spent, SpentOf, DataInv
<1>2. TotalExpenses' \in Nat
  BY <1>1, TotalNatural
<1>3. income' \in Nat
  BY DEF DataInv
<1>4. Rank(SpendingPace') = PaceRank(TotalExpenses', Projected', income')
  BY <1>2, <1>3, RankValues DEF SpendingPace, PaceRank
<1>5. Rank(VsPreviousPartial') =
        IF ComparedWith' = None THEN 0
        ELSE CompareRank(TotalExpenses', PreviousEstimate(ComparedWith)')
  BY RankValues DEF VsPreviousPartial, CompareRank, PreviousEstimate
<1> QED BY <1>2, <1>4, <1>5

\* That of a budget after a step.
LEMMA PrimedBudget ==
  ASSUME DataInv', NEW b \in Budgets
  PROVE  /\ Charged(b)' \in Nat
         /\ Rank(BudgetAlert(b)') = BudgetRank(Charged(b)', b)
<1>1. b.category \in Groups /\ expenses' \in [Kinds -> Nat]
  BY InsightsAssumption DEF Groups, DataInv
<1>2. TotalExpenses' = TotalOf(expenses')
  BY DEF TotalExpenses, TotalOf, Spent, SpentOf
<1>3. ASSUME NEW c \in Groups PROVE Spent(c)' = SpentOf(expenses', c)
  BY DEF Spent, SpentOf
<1>4. Charged(b)' = IF b.category = NoCategory THEN TotalOf(expenses')
                    ELSE SpentOf(expenses', b.category)
  BY <1>1, <1>2, <1>3 DEF Charged
<1>5. Charged(b)' \in Nat
  BY <1>1, <1>4, TotalNatural, GroupNatural
<1>6. Rank(BudgetAlert(b)') = BudgetRank(Charged(b)', b)
  BY RankValues DEF BudgetAlert, BudgetRank
<1> QED BY <1>5, <1>6

\* Another expense eases neither the pace nor the comparison nor a budget's alert.
LEMMA ExpenseEasesNothing ==
  ASSUME DataInv, DataInv', [Change]_data, NEW k \in Kinds,
         expenses'[k] > expenses[k]
  PROVE  /\ Rank(SpendingPace') >= Rank(SpendingPace)
         /\ Rank(VsPreviousPartial') >= Rank(VsPreviousPartial)
         /\ \A b \in Budgets : Rank(BudgetAlert(b)') >= Rank(BudgetAlert(b))
<1>1. expenses[k] \in Nat /\ \A j \in Kinds : expenses[j] \in Nat
  BY DEF DataInv
<1>2. Spend
  <2>1. CASE DeleteExpense
    <3>1. PICK j \in Kinds : expenses' = [expenses EXCEPT ![j] = @ - 1]
      BY <2>1 DEF DeleteExpense
    <3>2. expenses'[k] = IF k = j THEN expenses[k] - 1 ELSE expenses[k]
      BY <3>1 DEF DataInv
    <3> QED BY <1>1, <3>2
  <2>2. ASSUME expenses' = expenses PROVE FALSE
    BY <1>1, <2>2
  <2> QED BY <2>1, <2>2
       DEF Change, Earn, NextDay, Contribute, EditGoal, DeleteGoal, data
<1>3. ExpensesGrow /\ UNCHANGED <<income, day, previous, bridge>>
  BY <1>1, <1>2 DEF Spend, ExpensesGrow, DataInv
<1>4. PICK t \in Nat, u \in Nat :
        t = TotalExpenses /\ u = TotalExpenses' /\ t <= u
  BY <1>3, TotalsGrow, QuantitiesNatural, PrimedRanks
<1>5. PICK m \in Nat \ {0} : m = Min({day, Days}) /\ m = Min({day, Days})'
  BY <1>3, Elapsed
<1>6. PICK p \in Nat, q \in Nat :
        p = Projected /\ q = Projected' /\ p <= q
  <2>1. m <= m
    OBVIOUS
  <2>2. /\ RoundDiv(t * Days, m) \in Nat
        /\ RoundDiv(u * Days, m) \in Nat
        /\ RoundDiv(t * Days, m) <= RoundDiv(u * Days, m)
    BY <1>4, <2>1, Projection
  <2>3. Projected = RoundDiv(t * Days, m)
    BY <1>4, <1>5 DEF Projected
  <2>4. Projected' = RoundDiv(u * Days, m)
    BY <1>4, <1>5 DEF Projected
  <2> QED BY <2>2, <2>3, <2>4
<1>7. Rank(SpendingPace') >= Rank(SpendingPace)
  <2>1. PICK i \in Nat : i = income /\ i = income'
    BY <1>3 DEF DataInv
  <2>2. PaceRank(t, p, i) <= PaceRank(u, q, i)
    BY <1>4, <1>6, PaceRises
  <2>3. Rank(SpendingPace) = PaceRank(t, p, i)
    BY <1>4, <1>6, <2>1, RankOfPace
  <2>4. Rank(SpendingPace') = PaceRank(u, q, i)
    BY <1>4, <1>6, <2>1, PrimedRanks
  <2> QED BY <2>2, <2>3, <2>4 DEF PaceRank
<1>8. Rank(VsPreviousPartial') >= Rank(VsPreviousPartial)
  <2>1. ComparedWith' = ComparedWith
    BY <1>3 DEF ComparedWith
  <2>2. CASE ComparedWith = None
    BY <2>1, <2>2, RankOfComparison, PrimedRanks
  <2>3. CASE ComparedWith # None
    <3>1. PICK c \in Nat : c = ComparedWith
      BY <2>3, ComparedNatural
    <3>2. PICK e \in Nat :
            /\ e = PreviousEstimate(ComparedWith)
            /\ e = PreviousEstimate(ComparedWith)'
      <4>1. day \in Nat \ {0} /\ day <= day
        BY DEF DataInv
      <4>2. RoundDiv(c * day, Days) \in Nat
        BY <4>1, EstimateGrows
      <4> QED BY <1>3, <2>1, <3>1, <4>2 DEF PreviousEstimate
    <3>3. CompareRank(t, e) <= CompareRank(u, e)
      BY <1>4, CompareRises
    <3>4. Rank(VsPreviousPartial) = CompareRank(t, e)
      BY <1>4, <2>3, <3>2, RankOfComparison
    <3>5. Rank(VsPreviousPartial') = CompareRank(u, e)
      BY <1>4, <2>1, <2>3, <3>2, PrimedRanks
    <3> QED BY <3>3, <3>4, <3>5 DEF CompareRank
  <2> QED BY <2>2, <2>3
<1>9. ASSUME NEW b \in Budgets
      PROVE  Rank(BudgetAlert(b)') >= Rank(BudgetAlert(b))
  <2>1. PICK c \in Nat, d \in Nat : c = Charged(b) /\ d = Charged(b)' /\ c <= d
    BY <1>3, ChargedNatural, PrimedBudget, TotalsGrow
  <2>2. BudgetRank(c, b) <= BudgetRank(d, b)
    BY <2>1, BudgetRises
  <2>3. Rank(BudgetAlert(b)) = BudgetRank(c, b)
    BY <2>1, RankOfBudget
  <2>4. Rank(BudgetAlert(b)') = BudgetRank(d, b)
    BY <2>1, PrimedBudget
  <2> QED BY <2>2, <2>3, <2>4 DEF BudgetRank
<1> QED BY <1>7, <1>8, <1>9

\* A goal that is behind is behind the day after, up to its target date.
LEMMA GoalStaysBehind ==
  ASSUME DataInv, GoalProgressAlert, day' = day + 1, plan' = plan,
         day' <= plan.end
  PROVE  GoalProgressAlert'
<1>1. PICK first \in Int, last \in Int, target \in Nat \ {0} :
        /\ first = GoalStart /\ last = plan.end /\ target = plan.target
        /\ first < last
  <2>1. plan \in GoalPlans
    BY DEF DataInv, GoalProgressAlert
  <2> QED BY <2>1, InsightsAssumption DEF GoalPlans
<1>2. PICK d \in Int : d = day /\ first <= d /\ d + 1 <= last /\ d + 1 = day'
  BY <1>1 DEF GoalProgressAlert, DataInv
<1>3. PICK x \in Nat, n \in Nat \ {0} :
        x = d - first + 1 /\ n = last - first + 1
  <2>1. first <= d /\ first < last
    BY <1>1, <1>2
  <2> QED BY <2>1
<1>4. PICK a \in Nat, b \in Nat :
        a = target * x /\ b = target * (x + 1) /\ a <= b
  <2>1. target * (x + 1) = target * x + target /\ target * x \in Nat
    OBVIOUS
  <2> QED BY <2>1
<1>5. RoundDiv(a, n) <= RoundDiv(b, n)
  BY <1>4, RoundDivOrder
<1>6. RoundDiv(a, n) \in Nat /\ RoundDiv(b, n) \in Nat
  BY RoundDivNatural
<1>7. plan.saved < RoundDiv(a, n) /\ plan.saved < target
  BY <1>1, <1>2, <1>3, <1>4 DEF GoalProgressAlert
<1>8. plan.saved < RoundDiv(b, n) /\ plan.saved \in Nat
  BY <1>5, <1>6, <1>7 DEF DataInv, GoalPlans, GoalProgressAlert
<1>9. (day + 1) - GoalStart + 1 = x + 1
  BY <1>1, <1>2, <1>3
<1>10. day' - GoalStart + 1 = x + 1
  BY <1>9
<1> QED BY <1>1, <1>2, <1>3, <1>4, <1>7, <1>8, <1>10 DEF GoalProgressAlert

\* Whatever happens, while the goal is left alone and until its target date.
LEMMA GoalAlertStays ==
  ASSUME DataInv, [Change]_data, GoalProgressAlert, plan' = plan
  PROVE  GoalProgressAlert' \/ day' > plan.end
<1>1. plan \in GoalPlans /\ day \in Nat \ {0}
  BY DEF DataInv, GoalProgressAlert
<1>2. day' = day + 1 \/ day' = day
  BY DEF Change, Spend, DeleteExpense, Earn, NextDay, Contribute, EditGoal,
         DeleteGoal, data
<1>3. CASE day' = day + 1
  <2>1. plan.end \in Int /\ day' \in Int
    BY <1>1, <1>3 DEF GoalPlans
  <2> QED BY <1>3, <2>1, GoalStaysBehind
<1>4. CASE day' = day
  BY <1>4 DEF GoalProgressAlert
<1> QED BY <1>2, <1>3, <1>4

\* A day without an expense makes no pace and no comparison worse.
LEMMA DayWorsensNothing ==
  ASSUME DataInv, DataInv', [Change]_data, day' > day
  PROVE  /\ Rank(SpendingPace') <= Rank(SpendingPace)
         /\ (Comparable' => Comparable) =>
              Rank(VsPreviousPartial') <= Rank(VsPreviousPartial)
<1>1. day \in Nat \ {0} /\ day' \in Nat \ {0} /\ Days \in Nat \ {0}
  BY InsightsAssumption DEF DataInv
<1>2. /\ day' = day + 1
      /\ UNCHANGED <<expenses, income, previous, bridge, plan>>
  <2>1. NextDay
    <3>1. day' # day
      BY <1>1
    <3> QED BY <3>1 DEF Change, Spend, DeleteExpense, Earn, Contribute, EditGoal,
                        DeleteGoal, data
  <2> QED BY <2>1 DEF NextDay
<1>3. PICK t \in Nat : t = TotalExpenses /\ t = TotalExpenses'
  <2>1. TotalExpenses' = TotalExpenses
    BY <1>2 DEF TotalExpenses, Spent
  <2> QED BY <2>1, QuantitiesNatural
<1>4. PICK m \in Nat \ {0}, n \in Nat \ {0} :
        m = Min({day, Days}) /\ n = Min({day, Days})' /\ m <= n
  <2>1. Min({day, Days}) = IF day <= Days THEN day ELSE Days
    BY <1>1, MinOfTwo
  <2>2. Min({day', Days}) = IF day' <= Days THEN day' ELSE Days
    BY <1>1, MinOfTwo
  <2>3. Min({day, Days})' = Min({day', Days})
    OBVIOUS
  <2> QED BY <1>1, <1>2, <2>1, <2>2, <2>3
<1>5. PICK p \in Nat, q \in Nat : p = Projected /\ q = Projected' /\ q <= p
  <2>1. t <= t /\ m <= m
    OBVIOUS
  <2>2. /\ RoundDiv(t * Days, m) \in Nat
        /\ RoundDiv(t * Days, n) \in Nat
        /\ RoundDiv(t * Days, n) <= RoundDiv(t * Days, m)
    BY <1>4, <2>1, Projection
  <2>3. Projected = RoundDiv(t * Days, m)
    BY <1>3, <1>4 DEF Projected
  <2>4. Projected' = RoundDiv(t * Days, n)
    BY <1>3, <1>4 DEF Projected
  <2> QED BY <2>2, <2>3, <2>4
<1>6. Rank(SpendingPace') <= Rank(SpendingPace)
  <2>1. PICK i \in Nat : i = income /\ i = income'
    BY <1>2 DEF DataInv
  <2>2. PaceRank(t, q, i) <= PaceRank(t, p, i)
    BY <1>5, PaceRises
  <2>3. Rank(SpendingPace) = PaceRank(t, p, i)
    BY <1>3, <1>5, <2>1, RankOfPace
  <2>4. Rank(SpendingPace') = PaceRank(t, q, i)
    BY <1>3, <1>5, <2>1, PrimedRanks
  <2> QED BY <2>2, <2>3, <2>4
<1>7. ASSUME Comparable' => Comparable
      PROVE  Rank(VsPreviousPartial') <= Rank(VsPreviousPartial)
  <2>1. ComparedWith' = ComparedWith
    BY <1>2 DEF ComparedWith
  <2>2. CASE ComparedWith = None
    BY <2>1, <2>2, RankOfComparison, PrimedRanks
  <2>3. CASE ComparedWith # None
    <3>1. PICK c \in Nat : c = ComparedWith
      BY <2>3, ComparedNatural
    <3>2. PICK d \in Nat, e \in Nat :
            /\ d = PreviousEstimate(ComparedWith)
            /\ e = PreviousEstimate(ComparedWith)'
            /\ d <= e /\ (e > 0 => d > 0)
      <4>1. PICK x \in Nat \ {0}, y \in Nat \ {0} :
              x = day /\ y = day' /\ x <= y /\ y <= y
        BY <1>1, <1>2
      <4>2. PICK d \in Nat, e \in Nat :
              d = RoundDiv(c * x, Days) /\ e = RoundDiv(c * y, Days) /\ d <= e
        <5>1. /\ RoundDiv(c * x, Days) \in Nat
              /\ RoundDiv(c * x, Days) <= RoundDiv(c * y, Days)
          BY <4>1, EstimateGrows
        <5>2. RoundDiv(c * y, Days) \in Nat
          BY <4>1, EstimateGrows
        <5> QED BY <5>1, <5>2
      <4>3. PreviousEstimate(ComparedWith) = d
        BY <3>1, <4>1, <4>2 DEF PreviousEstimate
      <4>4. PreviousEstimate(ComparedWith)' = e
        BY <2>1, <3>1, <4>1, <4>2 DEF PreviousEstimate
      <4>5. e > 0 => d > 0
        BY <1>7, <2>1, <2>3, <4>3, <4>4 DEF Comparable
      <4> QED BY <4>2, <4>3, <4>4, <4>5
    <3>3. t <= t
      OBVIOUS
    <3>4. CompareRank(t, e) <= CompareRank(t, d)
      BY <3>2, <3>3, CompareRises
    <3>5. Rank(VsPreviousPartial) = CompareRank(t, d)
      BY <1>3, <2>3, <3>2, RankOfComparison
    <3>6. Rank(VsPreviousPartial') = CompareRank(t, e)
      BY <1>3, <2>1, <2>3, <3>2, PrimedRanks
    <3> QED BY <3>4, <3>5, <3>6
  <2> QED BY <2>2, <2>3
<1> QED BY <1>6, <1>7

(***************************************************************************)
(* Another expense eases neither the pace nor the comparison with the      *)
(* previous period nor a budget's alert, a day without one makes neither   *)
(* of the first two worse but for the first day there is an estimate to    *)
(* compare with, and the alert of a goal that is behind stays until        *)
(* something is contributed, the goal is edited or deleted, or its target  *)
(* date has passed (analytics_during.go:109-296,434-576).                  *)
(***************************************************************************)
THEOREM AlertsFollowCorrect == Period => AlertsFollow
<1>1. DataInv /\ DataInv' /\ [Change]_data =>
        [/\ (\E k \in Kinds : expenses'[k] > expenses[k]) =>
               /\ Rank(SpendingPace') >= Rank(SpendingPace)
               /\ Rank(VsPreviousPartial') >= Rank(VsPreviousPartial)
               /\ \A b \in Budgets : Rank(BudgetAlert(b)') >= Rank(BudgetAlert(b))
         /\ day' > day =>
               /\ Rank(SpendingPace') <= Rank(SpendingPace)
               /\ (Comparable' => Comparable) =>
                   Rank(VsPreviousPartial') <= Rank(VsPreviousPartial)
         /\ GoalProgressAlert =>
               GoalProgressAlert' \/ plan' # plan \/ day' > plan.end]_data
  BY ExpenseEasesNothing, DayWorsensNothing, GoalAlertStays
<1> QED BY <1>1, InsightsTypeCorrect, PTL DEF Period, AlertsFollow
=============================================================================
