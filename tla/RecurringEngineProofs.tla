----------------------- MODULE RecurringEngineProofs -----------------------
(***************************************************************************)
(* The engine generates every occurrence of a template at most once, for   *)
(* any number of overlapping runs and whatever the user edits; and while   *)
(* no template is replaced under a run, it generates only what is due and  *)
(* skips nothing, for every interval, start, end and clock.                *)
(***************************************************************************)
EXTENDS RecurringEngine, TLAPS

-----------------------------------------------------------------------------
(* Every occurrence at most once.                                          *)

DueOK(t) == t.due \in Nat \cup {None}

\* What a run has inserted and not committed is not there yet, and stays so:
\* no other run has inserted it.
RunSafe(q) ==
  /\ q \in RunRows /\ DueOK(q.template)
  /\ q.today <= today
  /\ q.occurrence \in Nat
  /\ q.pc \in {"insert", "advance"} => q.occurrence <= q.today
  /\ q.inserted => q.pc = "advance" /\ live[q.occurrence] = 0

InsertsApart ==
  \A e, f \in Runs :
    /\ run[e].inserted /\ run[f].inserted
    /\ run[e].occurrence = run[f].occurrence
    => e = f

SafeInv ==
  /\ TypeOK /\ AtMostOnce
  /\ DueOK(template) /\ origin \in Nat \cup {None}
  /\ \A e \in Runs : RunSafe(run[e])
  /\ InsertsApart

LEMMA EngineNumbers ==
  /\ Horizon \in Nat /\ Interval \in Nat /\ 1 <= Interval
  /\ None \notin Int /\ 0 \in Days
  /\ \A d \in Days : d \in Nat /\ d <= Horizon
BY EngineAssumption DEF Days

LEMMA IdleSafe == ASSUME today \in Days PROVE RunSafe(Idle)
<1>1. NoTemplate \in Templates /\ DueOK(NoTemplate)
  BY DEF NoTemplate, Templates, DueDates, DueOK
<1>2. Idle \in RunRows
  BY <1>1, EngineNumbers DEF Idle, RunRows
<1> QED
  BY <1>1, <1>2, EngineNumbers DEF RunSafe, Idle

LEMMA InitSafe == Init => SafeInv
<1> SUFFICES ASSUME Init PROVE SafeInv
  OBVIOUS
<1>1. today \in Days /\ active \in Nat
  BY EngineNumbers DEF Init
<1>2. template \in Templates /\ DueOK(template) /\ origin \in Nat \cup {None}
  BY DEF Init, NoTemplate, Templates, DueDates, DueOK
<1>3. \A e \in Runs : RunSafe(run[e]) /\ ~run[e].inserted
  BY <1>1, IdleSafe DEF Init, Idle
<1>4. run \in [Runs -> RunRows]
  BY <1>1, IdleSafe DEF Init, RunSafe
<1>5. live \in [Days -> Nat] /\ dropped \subseteq Days /\ AtMostOnce
  BY DEF Init, AtMostOnce
<1> QED
  BY <1>1, <1>2, <1>3, <1>4, <1>5 DEF SafeInv, TypeOK, InsertsApart, DueDates

(***************************************************************************)
(* A step of run e that commits no transaction.                            *)
(***************************************************************************)
LEMMA RunStep ==
  ASSUME SafeInv, NEW e \in Runs, NEW q, Goto(e, q), RunSafe(q),
         UNCHANGED <<today, origin, live, dropped>>, active' \in Nat,
         template' \in Templates, DueOK(template'),
         q.inserted => \A f \in Runs \ {e} :
           run[f].inserted => run[f].occurrence # q.occurrence
  PROVE  SafeInv'
<1>1. run' \in [Runs -> RunRows]
  BY DEF SafeInv, TypeOK, Goto, RunSafe
<1>2. run'[e] = q /\ \A f \in Runs \ {e} : run'[f] = run[f]
  BY DEF SafeInv, TypeOK, Goto
<1>3. \A f \in Runs : RunSafe(run[f])'
  BY <1>2 DEF SafeInv, RunSafe
<1>4. InsertsApart'
  BY <1>2 DEF SafeInv, InsertsApart
<1> QED
  BY <1>1, <1>3, <1>4 DEF SafeInv, TypeOK, AtMostOnce, DueOK

\* The same when the run is over.
LEMMA EndOfRun ==
  ASSUME SafeInv, NEW e \in Runs, Goto(e, Idle),
         UNCHANGED <<today, origin, live, dropped>>, active' \in Nat,
         template' \in Templates, DueOK(template')
  PROVE  SafeInv'
<1>1. RunSafe(Idle) /\ ~Idle.inserted
  BY IdleSafe DEF SafeInv, TypeOK, Idle
<1> QED
  BY <1>1, RunStep

\* A step of the clock, of another request or of the user.
LEMMA OutsideStep ==
  ASSUME SafeInv, UNCHANGED run, today' \in Days, today <= today',
         active' \in Nat, template' \in Templates, DueOK(template'),
         origin' \in Nat \cup {None}, live' \in [Days -> Nat],
         \A d \in Days : live'[d] <= live[d], dropped' \subseteq Days
  PROVE  SafeInv'
<1>1. \A e \in Runs : RunSafe(run[e])'
  <2> SUFFICES ASSUME NEW e \in Runs PROVE RunSafe(run[e])'
    OBVIOUS
  <2>1. RunSafe(run[e]) /\ run[e].today \in Days
    BY DEF SafeInv, RunSafe, RunRows
  <2>2. run[e].inserted => live'[run[e].occurrence] = 0
    <3> SUFFICES ASSUME run[e].inserted PROVE live'[run[e].occurrence] = 0
      OBVIOUS
    <3>1. run[e].occurrence \in Days
      BY <2>1, EngineNumbers DEF RunSafe, Days
    <3>2. live[run[e].occurrence] = 0
      BY <2>1 DEF RunSafe
    <3> QED
      BY <3>1, <3>2
  <2>3. run[e].today <= today'
    BY <2>1, EngineNumbers DEF RunSafe, SafeInv, TypeOK
  <2> QED
    BY <2>1, <2>2, <2>3 DEF RunSafe
<1>2. AtMostOnce'
  BY DEF SafeInv, TypeOK, AtMostOnce
<1>3. InsertsApart'
  BY DEF SafeInv, InsertsApart
<1>4. TypeOK'
  BY DEF SafeInv, TypeOK, DueDates
<1> QED
  BY <1>1, <1>2, <1>3, <1>4 DEF SafeInv

LEMMA UserSteps ==
  ASSUME SafeInv,
         \/ Tick \/ RollOver \/ WriteTemplate \/ DeleteTemplate
         \/ DeleteTransaction
  PROVE  SafeInv'
<1> USE EngineNumbers
<1>0. /\ today \in Days /\ active \in Nat /\ template \in Templates
      /\ live \in [Days -> Nat] /\ dropped \subseteq Days
      /\ DueOK(template) /\ origin \in Nat \cup {None}
  BY DEF SafeInv, TypeOK
<1>1. CASE Tick
  <2>1. today' \in Days /\ today <= today'
    BY <1>0, <1>1 DEF Tick, Days
  <2> QED
    BY <1>0, <1>1, <2>1, OutsideStep DEF Tick
<1>2. CASE RollOver
  BY <1>0, <1>2, OutsideStep DEF RollOver
<1>3. CASE WriteTemplate
  <2>1. PICK s \in Starts, wait \in FirstWaits, end \in Ends, on \in BOOLEAN :
          /\ template' = [state |-> "live", on |-> on, due |-> s + wait,
                          end |-> end]
          /\ origin' = s + wait
    BY <1>3 DEF WriteTemplate
  <2>2. s + wait \in Nat /\ end \in DueDates
    BY EngineAssumption DEF DueDates
  <2>3. template' \in Templates /\ DueOK(template') /\ origin' \in Nat
    BY <2>1, <2>2 DEF Templates, DueDates, DueOK
  <2> QED
    BY <1>0, <1>3, <2>3, OutsideStep DEF WriteTemplate
<1>4. CASE DeleteTemplate
  <2>1. template' \in Templates /\ DueOK(template')
    BY <1>0, <1>4 DEF DeleteTemplate, Templates, DueOK
  <2> QED
    BY <1>0, <1>4, <2>1, OutsideStep DEF DeleteTemplate
<1>5. CASE DeleteTransaction
  <2>1. PICK d \in Days : /\ live[d] > 0
                          /\ live' = [live EXCEPT ![d] = @ - 1]
                          /\ dropped' = dropped \cup {d}
    BY <1>5 DEF DeleteTransaction
  <2>2. live[d] - 1 \in Nat
    BY <1>0, <2>1
  <2>3. live' \in [Days -> Nat] /\ \A c \in Days : live'[c] <= live[c]
    BY <1>0, <2>1, <2>2
  <2> QED
    BY <1>0, <1>5, <2>1, <2>3, OutsideStep DEF DeleteTransaction
<1> QED
  BY <1>1, <1>2, <1>3, <1>4, <1>5

\* The run of e, as the invariant knows it.
LEMMA RunFacts ==
  ASSUME SafeInv, NEW e \in Runs
  PROVE  /\ RunSafe(run[e]) /\ run[e] \in RunRows /\ run[e].template \in Templates
         /\ run[e].today \in Days /\ run[e].period \in Nat
         /\ run[e].occurrence \in Nat /\ run[e].inserted \in BOOLEAN
         /\ today \in Days /\ active \in Nat /\ template \in Templates
         /\ DueOK(template) /\ live \in [Days -> Nat] /\ dropped \subseteq Days
         /\ run \in [Runs -> RunRows]
BY DEF SafeInv, TypeOK, RunSafe, RunRows

LEMMA NextDueOK ==
  ASSUME NEW q \in RunRows, q.occurrence \in Nat
  PROVE  /\ NextDue(q) \in Nat \cup {None}
         /\ NextDue(q) # None => NextDue(q) = q.occurrence + Interval
BY EngineNumbers DEF NextDue

\* A run begins, or moves on to its next occurrence; a template is advanced.
LEMMA BegunRun ==
  ASSUME NEW r \in RunRows, NEW t \in Templates, NEW d \in Days, NEW o \in Int
  PROVE  [r EXCEPT !.pc = "resolve", !.template = t, !.today = d,
                   !.occurrence = o] \in RunRows
BY DEF RunRows

LEMMA MovedRun ==
  ASSUME NEW r \in RunRows, NEW o \in Int
  PROVE  [r EXCEPT !.pc = "next", !.occurrence = o, !.inserted = FALSE]
           \in RunRows
BY DEF RunRows

LEMMA AdvancedTemplate ==
  ASSUME NEW t \in Templates, NEW o \in DueDates
  PROVE  /\ [t EXCEPT !.due = o, !.on = o # None] \in Templates
         /\ [t EXCEPT !.due = o, !.on = o # None].due = o
         /\ [t EXCEPT !.due = o, !.on = o # None].end = t.end
         /\ [t EXCEPT !.due = o, !.on = o # None].state = t.state
BY DEF Templates

LEMMA ListDueSafe ==
  ASSUME SafeInv, NEW e \in Runs, ListDue(e) PROVE SafeInv'
<1> DEFINE q == [Idle EXCEPT !.pc = "resolve", !.template = template,
                             !.today = today, !.occurrence = template.due]
<1>1. Goto(e, q) /\ UNCHANGED <<today, active, template, origin, live, dropped>>
  BY DEF ListDue
<1>2. template.due \in Nat
  BY RunFacts DEF ListDue, Due, DueOK
<1>3. /\ q.pc = "resolve" /\ q.template = template /\ q.today = today
      /\ q.occurrence = template.due /\ ~q.inserted
  BY DEF Idle
<1>4. RunSafe(q)
  <2>1. Idle \in RunRows
    BY RunFacts, IdleSafe DEF RunSafe
  <2>2. q \in RunRows
    <3>1. template \in Templates /\ today \in Days /\ template.due \in Int
      BY <1>2, RunFacts
    <3> QED
      BY <2>1, <3>1, BegunRun, Zenon
  <2>3. q.today <= today
    BY <1>3, RunFacts, EngineNumbers
  <2> HIDE DEF q
  <2> QED
    BY <1>2, <1>3, <2>2, <2>3, RunFacts DEF RunSafe
<1>5. ~q.inserted
  BY <1>3
<1> HIDE DEF q
<1> QED
  BY <1>1, <1>4, <1>5, RunFacts, RunStep

LEMMA ResolveSafe ==
  ASSUME SafeInv, NEW e \in Runs, ResolveActivePeriod(e) PROVE SafeInv'
<1> DEFINE q == [run[e] EXCEPT !.pc = "next", !.period = active]
<1>1. UNCHANGED <<today, template, origin, live, dropped>>
      /\ run[e].pc = "resolve"
  BY DEF ResolveActivePeriod
<1>2. CASE PeriodEnd(active) < run[e].today
  <2>1. active' = active + 1 /\ UNCHANGED run
    BY <1>2 DEF ResolveActivePeriod
  <2> QED
    BY <1>1, <2>1, RunFacts, EngineNumbers, OutsideStep DEF SafeInv
<1>3. CASE ~(PeriodEnd(active) < run[e].today)
  <2>1. Goto(e, q) /\ UNCHANGED active
    BY <1>3 DEF ResolveActivePeriod
  <2>2. /\ q \in RunRows /\ q.pc = "next" /\ q.inserted = run[e].inserted
        /\ q.template = run[e].template /\ q.today = run[e].today
        /\ q.occurrence = run[e].occurrence
    BY RunFacts DEF RunRows
  <2>3. RunSafe(q) /\ ~q.inserted
    BY <1>1, <2>2, RunFacts DEF RunSafe
  <2> HIDE DEF q
  <2> QED
    BY <1>1, <2>1, <2>3, RunFacts, RunStep
<1> QED
  BY <1>2, <1>3

LEMMA DeactivateSafe ==
  ASSUME SafeInv, NEW e \in Runs, DeactivateTemplate(e) PROVE SafeInv'
<1>1. template' \in Templates /\ DueOK(template')
  <2>1. CASE template.state = "live"
    <3>1. template' = [template EXCEPT !.on = FALSE, !.due = None]
      BY <2>1 DEF DeactivateTemplate
    <3> QED
      BY <3>1, RunFacts DEF Templates, DueDates, DueOK
  <2>2. CASE template.state # "live"
    BY <2>2, RunFacts DEF DeactivateTemplate
  <2> QED
    BY <2>1, <2>2
<1> QED
  BY <1>1, RunFacts, EndOfRun DEF DeactivateTemplate

LEMMA HasTransactionSafe ==
  ASSUME SafeInv, NEW e \in Runs, HasTransactionForDate(e) PROVE SafeInv'
<1> DEFINE pc == IF live[run[e].occurrence] > 0 THEN "advance" ELSE "insert"
           q  == [run[e] EXCEPT !.pc = pc]
<1>1. /\ Goto(e, q) /\ run[e].pc = "next" /\ run[e].occurrence <= run[e].today
      /\ UNCHANGED <<today, active, template, origin, live, dropped>>
  BY DEF HasTransactionForDate
<1>2. pc \in {"advance", "insert"}
  OBVIOUS
<1>3. /\ q \in RunRows /\ q.pc = pc /\ q.inserted = run[e].inserted
      /\ q.template = run[e].template /\ q.today = run[e].today
      /\ q.occurrence = run[e].occurrence
  <2> HIDE DEF pc
  <2> QED
    BY <1>2, RunFacts DEF RunRows
<1>4. RunSafe(q) /\ ~q.inserted
  BY <1>1, <1>3, RunFacts DEF RunSafe
<1> HIDE DEF q
<1> QED
  BY <1>1, <1>4, RunFacts, RunStep

\* The unique index: no other run has inserted the occurrence.
LEMMA CreateSafe ==
  ASSUME SafeInv, NEW e \in Runs, CreateTransaction(e) PROVE SafeInv'
<1> DEFINE q == [run[e] EXCEPT !.pc = "advance", !.inserted = TRUE]
<1>1. /\ run[e].pc = "insert" /\ ~IndexWaits(e)
      /\ UNCHANGED <<today, active, template, origin, live, dropped>>
  BY DEF CreateTransaction
<1>2. CASE live[run[e].occurrence] = 0
           /\ TriggerAccepts(run[e].period, ClampToActivePeriod(run[e]))
  <2>1. Goto(e, q)
    BY <1>2 DEF CreateTransaction
  <2>2. /\ q \in RunRows /\ q.pc = "advance" /\ q.inserted
        /\ q.template = run[e].template /\ q.today = run[e].today
        /\ q.occurrence = run[e].occurrence
    BY RunFacts DEF RunRows
  <2>3. RunSafe(q)
    BY <1>1, <1>2, <2>2, RunFacts DEF RunSafe
  <2>4. \A f \in Runs \ {e} : run[f].inserted => run[f].occurrence # q.occurrence
    BY <1>1, <2>2 DEF IndexWaits
  <2> HIDE DEF q
  <2> QED
    BY <1>1, <2>1, <2>3, <2>4, RunFacts, RunStep
<1>3. CASE ~(live[run[e].occurrence] = 0
             /\ TriggerAccepts(run[e].period, ClampToActivePeriod(run[e])))
  <2>1. Goto(e, Idle)
    BY <1>3 DEF CreateTransaction
  <2> QED
    BY <1>1, <2>1, RunFacts, EndOfRun
<1> QED
  BY <1>2, <1>3

\* What AdvanceTemplate leaves, when there is a template to advance.
LEMMA AdvanceOutcome ==
  ASSUME SafeInv, NEW e \in Runs, AdvanceTemplate(e), template.state = "live"
  PROVE
    LET q == run[e] IN
    /\ q.pc = "advance" /\ q.occurrence \in Days
    /\ UNCHANGED <<today, active, origin, dropped>>
    /\ template' = [template EXCEPT !.due = NextDue(q), !.on = NextDue(q) # None]
    /\ live' = [live EXCEPT ![q.occurrence] = IF q.inserted THEN @ + 1 ELSE @]
    /\ \A f \in Runs \ {e} : run'[f] = run[f]
    /\ NextDue(q) = None => run'[e] = Idle
    /\ NextDue(q) # None =>
         run'[e] = [q EXCEPT !.pc = "next", !.occurrence = NextDue(q),
                             !.inserted = FALSE]
<1>1. run[e].pc = "advance"
  BY DEF AdvanceTemplate
<1>2. run[e].occurrence \in Days
  BY <1>1, RunFacts, EngineNumbers DEF RunSafe, Days
<1> QED
  BY <1>1, <1>2, RunFacts DEF AdvanceTemplate, Goto

\* A commit: the transaction that becomes visible is the first of its date.
LEMMA AdvanceSafe ==
  ASSUME SafeInv, NEW e \in Runs, AdvanceTemplate(e) PROVE SafeInv'
<1>1. CASE template.state # "live"
  BY <1>1, RunFacts, EndOfRun DEF AdvanceTemplate
<1>2. CASE template.state = "live"
  <2> DEFINE o == run[e].occurrence
  <2>1. /\ o \in Days /\ UNCHANGED <<today, active, origin, dropped>>
        /\ live' = [live EXCEPT ![o] = IF run[e].inserted THEN @ + 1 ELSE @]
        /\ \A f \in Runs \ {e} : run'[f] = run[f]
    BY <1>2, AdvanceOutcome
  <2>2. template' \in Templates /\ DueOK(template')
    <3>1. template' = [template EXCEPT !.due = NextDue(run[e]),
                                       !.on = NextDue(run[e]) # None]
      BY <1>2, AdvanceOutcome
    <3>2. NextDue(run[e]) \in Nat \cup {None}
      BY RunFacts, NextDueOK
    <3>3. NextDue(run[e]) \in DueDates
      BY <3>2 DEF DueDates
    <3>4. template' \in Templates /\ template'.due = NextDue(run[e])
      BY <3>1, <3>3, RunFacts, AdvancedTemplate
    <3> QED
      BY <3>2, <3>4 DEF DueOK
  <2>3. run[e].inserted => live[o] = 0
    BY RunFacts DEF RunSafe
  <2>4. live' \in [Days -> Nat] /\ AtMostOnce'
    <3>1. live[o] + 1 \in Nat
      BY <2>1, RunFacts
    <3>2. live' \in [Days -> Nat]
      BY <2>1, <3>1, RunFacts
    <3>3. \A d \in Days \ {o} : live'[d] = live[d]
      BY <2>1, RunFacts
    <3>4. live'[o] = IF run[e].inserted THEN live[o] + 1 ELSE live[o]
      BY <2>1, RunFacts
    <3>5. live'[o] <= 1
      BY <2>1, <2>3, <3>4 DEF SafeInv, AtMostOnce
    <3> QED
      BY <3>2, <3>3, <3>5 DEF SafeInv, AtMostOnce
  <2>5. RunSafe(run[e])' /\ ~run'[e].inserted
    <3>1. CASE NextDue(run[e]) = None
      <4>1. run'[e] = Idle
        BY <1>2, <3>1, AdvanceOutcome
      <4>2. RunSafe(Idle) /\ ~Idle.inserted
        BY RunFacts, IdleSafe DEF Idle
      <4> QED
        BY <2>1, <4>1, <4>2 DEF RunSafe
    <3>2. CASE NextDue(run[e]) # None
      <4>1. run'[e] = [run[e] EXCEPT !.pc = "next", !.occurrence = NextDue(run[e]),
                                     !.inserted = FALSE]
        BY <1>2, <3>2, AdvanceOutcome
      <4>2. NextDue(run[e]) \in Nat
        BY <3>2, RunFacts, NextDueOK
      <4>3. run'[e] \in RunRows
        <5>1. run[e] \in RunRows /\ NextDue(run[e]) \in Int
          BY <4>2, RunFacts
        <5> QED
          BY <4>1, <5>1, MovedRun, Zenon
      <4>4. /\ run'[e].pc = "next" /\ ~run'[e].inserted
            /\ run'[e].template = run[e].template
            /\ run'[e].today = run[e].today
            /\ run'[e].occurrence = NextDue(run[e])
        BY <4>1, RunFacts DEF RunRows
      <4> QED
        BY <2>1, <4>2, <4>3, <4>4, RunFacts DEF RunSafe
    <3> QED
      BY <3>1, <3>2
  <2>6. \A f \in Runs \ {e} : RunSafe(run[f])'
    <3> SUFFICES ASSUME NEW f \in Runs \ {e} PROVE RunSafe(run[f])'
      OBVIOUS
    <3>1. run'[f] = run[f] /\ RunSafe(run[f])
      BY <2>1, RunFacts
    <3>2. run[f].inserted => live'[run[f].occurrence] = 0
      <4> SUFFICES ASSUME run[f].inserted PROVE live'[run[f].occurrence] = 0
        OBVIOUS
      <4>1. run[f].occurrence \in Days /\ live[run[f].occurrence] = 0
        BY <3>1, RunFacts, EngineNumbers DEF RunSafe, Days
      <4>2. run[e].inserted => run[f].occurrence # o
        BY DEF SafeInv, InsertsApart
      <4> QED
        BY <2>1, <4>1, <4>2, RunFacts
    <3> QED
      BY <2>1, <3>1, <3>2 DEF RunSafe
  <2>7. InsertsApart'
    BY <2>1, <2>5 DEF SafeInv, InsertsApart
  <2>8. run' \in [Runs -> RunRows]
    <3>1. \A f \in Runs : run'[f] \in RunRows
      BY <2>5, <2>6 DEF RunSafe
    <3>2. run' = [f \in Runs |-> run'[f]]
      BY <1>2, RunFacts DEF AdvanceTemplate, Goto
    <3> QED
      BY <3>1, <3>2
  <2> QED
    BY <2>1, <2>2, <2>4, <2>5, <2>6, <2>7, <2>8 DEF SafeInv, TypeOK, DueDates
<1> QED
  BY <1>1, <1>2

LEMMA NextSafe == SafeInv /\ [Next]_vars => SafeInv'
<1> SUFFICES ASSUME SafeInv, [Next]_vars PROVE SafeInv'
  OBVIOUS
<1>1. CASE Tick \/ RollOver \/ WriteTemplate \/ DeleteTemplate
           \/ DeleteTransaction
  BY <1>1, UserSteps
<1>2. ASSUME NEW e \in Runs, ListDue(e) \/ ProcessTemplate(e) \/ Fail(e)
      PROVE  SafeInv'
  <2>1. CASE CaughtUp(e)
    BY <2>1, RunFacts, EndOfRun DEF CaughtUp
  <2>2. CASE Fail(e)
    BY <2>2, RunFacts, EndOfRun DEF Fail
  <2> QED
    BY <1>2, <2>1, <2>2, ListDueSafe, ResolveSafe, DeactivateSafe,
       HasTransactionSafe, CreateSafe, AdvanceSafe DEF ProcessTemplate
<1>3. CASE UNCHANGED vars
  BY <1>3, RunFacts, OutsideStep, EngineNumbers DEF vars, SafeInv, TypeOK
<1> QED
  BY <1>1, <1>2, <1>3 DEF Next

LEMMA AlwaysSafe == Spec => []SafeInv
<1> QED
  BY InitSafe, NextSafe, PTL DEF Spec

(***************************************************************************)
(* The template, the runs and the generated transactions keep their types. *)
(***************************************************************************)
THEOREM EngineTypeCorrect == Spec => []TypeOK
<1>1. SafeInv => TypeOK
  BY DEF SafeInv
<1> QED
  BY <1>1, AlwaysSafe, PTL

(***************************************************************************)
(* The check before the insert and uq_txn_recurring_occurrence keep every  *)
(* occurrence to one live transaction, however many runs overlap, whatever *)
(* the user edits and deletes, and wherever runs fail.                     *)
(***************************************************************************)
THEOREM AtMostOnceCorrect == Spec => []AtMostOnce
<1>1. SafeInv => AtMostOnce
  BY DEF SafeInv
<1> QED
  BY <1>1, AlwaysSafe, PTL

-----------------------------------------------------------------------------
(* Every occurrence, and only what is due, as long as no template is       *)
(* replaced while a run is under way.                                      *)

OnSchedule(o, d) == \E k \in Nat : d = o + k * Interval

Covered(d) == live[d] > 0 \/ d \in dropped

CoveredBefore(x) == \A d \in Days : OnSchedule(origin, d) /\ d < x => Covered(d)

\* A run is on the template's schedule and leaves nothing behind it.
RunOnSchedule(q) ==
  q.pc # "idle" =>
    /\ origin # None /\ q.template.end = template.end
    /\ OnSchedule(origin, q.occurrence)
    /\ CoveredBefore(q.occurrence)
    /\ q.pc \in {"insert", "advance"} => ~PastEnd(q.occurrence, template)
    /\ q.pc = "advance" => q.inserted \/ Covered(q.occurrence)

\* So is the template's due date, wherever runs have moved it.
TemplateOnSchedule ==
  template.state = "live" =>
    /\ origin # None
    /\ template.due # None =>
         OnSchedule(origin, template.due) /\ CoveredBefore(template.due)
    /\ template.due = None =>
         \A d \in Days :
           OnSchedule(origin, d) /\ ~PastEnd(d, template) => Covered(d)

ScheduleInv == TemplateOnSchedule /\ \A e \in Runs : RunOnSchedule(run[e])

LEMMA ScheduleBegins ==
  ASSUME NEW o \in Nat
  PROVE  /\ OnSchedule(o, o)
         /\ \A d \in Int : OnSchedule(o, d) => o <= d
<1>1. o = o + 0 * Interval
  BY EngineNumbers
<1>2. ASSUME NEW d \in Int, OnSchedule(o, d) PROVE o <= d
  <2>1. PICK k \in Nat : d = o + k * Interval
    BY <1>2 DEF OnSchedule
  <2>2. k * Interval \in Nat
    BY EngineNumbers
  <2> QED
    BY <2>1, <2>2
<1> QED
  BY <1>1, <1>2 DEF OnSchedule

LEMMA ScheduleNext ==
  ASSUME NEW o \in Nat, NEW d \in Int, OnSchedule(o, d)
  PROVE  OnSchedule(o, d + Interval)
<1>1. PICK k \in Nat : d = o + k * Interval
  BY DEF OnSchedule
<1>2. (k + 1) * Interval = k * Interval + Interval
  BY EngineNumbers
<1>3. d + Interval = o + (k + 1) * Interval
  BY <1>1, <1>2, EngineNumbers
<1> QED
  BY <1>3 DEF OnSchedule

\* Between an occurrence and the next there is none.
LEMMA ScheduleGap ==
  ASSUME NEW o \in Nat, NEW d \in Int, NEW x \in Int,
         OnSchedule(o, d), OnSchedule(o, x), d < x + Interval
  PROVE  d <= x
<1>1. PICK j \in Nat : d = o + j * Interval
  BY DEF OnSchedule
<1>2. PICK k \in Nat : x = o + k * Interval
  BY DEF OnSchedule
<1>3. CASE j <= k
  <2>1. j * Interval <= k * Interval
    BY <1>3, EngineNumbers
  <2> QED
    BY <1>1, <1>2, <2>1, EngineNumbers
<1>4. CASE k + 1 <= j
  <2>1. (k + 1) * Interval <= j * Interval
    BY <1>4, EngineNumbers
  <2>2. (k + 1) * Interval = k * Interval + Interval
    BY EngineNumbers
  <2> QED
    BY <1>1, <1>2, <2>1, <2>2, EngineNumbers
<1> QED
  BY <1>3, <1>4

LEMMA ScheduledMeans ==
  ASSUME SafeInv, NEW d \in Days
  PROVE  Scheduled(d) <=> /\ origin # None /\ OnSchedule(origin, d)
                          /\ ~PastEnd(d, template)
<1>1. ASSUME Scheduled(d) PROVE OnSchedule(origin, d)
  <2>1. \A k \in 0 .. d : k \in Nat
    BY EngineNumbers
  <2> QED
    BY <1>1, <2>1 DEF Scheduled, OnSchedule
<1>2. ASSUME origin # None, OnSchedule(origin, d), ~PastEnd(d, template)
      PROVE  Scheduled(d)
  <2>1. origin \in Nat /\ d \in Nat
    BY <1>2, EngineNumbers DEF SafeInv
  <2>2. PICK k \in Nat : d = origin + k * Interval
    BY <1>2 DEF OnSchedule
  <2>3. k <= k * Interval
    BY EngineNumbers
  <2>4. k \in 0 .. d
    BY <2>1, <2>2, <2>3, EngineNumbers
  <2> QED
    BY <1>2, <2>2, <2>4 DEF Scheduled
<1> QED
  BY <1>1, <1>2 DEF Scheduled

LEMMA InitSchedule == Init => ScheduleInv
BY DEF Init, NoTemplate, Idle, ScheduleInv, TemplateOnSchedule, RunOnSchedule

(***************************************************************************)
(* A step after which what was covered is covered: the runs it leaves      *)
(* alone stay on schedule while it keeps the template's dates.             *)
(***************************************************************************)
LEMMA CoveredStays ==
  ASSUME UNCHANGED origin, \A d \in Days : Covered(d) => Covered(d)',
         NEW x, CoveredBefore(x)
  PROVE  CoveredBefore(x)'
BY DEF CoveredBefore, OnSchedule

LEMMA RunStays ==
  ASSUME SafeInv, ScheduleInv, NEW f \in Runs, run'[f] = run[f],
         UNCHANGED origin, template'.end = template.end,
         \A d \in Days : Covered(d) => Covered(d)'
  PROVE  RunOnSchedule(run[f])'
<1>1. CASE run[f].pc # "idle"
  <2>1. RunOnSchedule(run[f])
    BY DEF ScheduleInv
  <2>2. CoveredBefore(run[f].occurrence)'
    BY <1>1, <2>1, CoveredStays DEF RunOnSchedule, CoveredBefore
  <2>3. run[f].pc = "advance" => run[f].occurrence \in Days
    BY RunFacts, EngineNumbers DEF RunSafe, Days
  <2>4. run[f].pc = "advance" => run[f].inserted \/ Covered(run[f].occurrence)'
    BY <1>1, <2>1, <2>3 DEF RunOnSchedule, Covered
  <2> QED
    BY <2>1, <2>2, <2>4 DEF RunOnSchedule, OnSchedule, PastEnd, Covered,
                            CoveredBefore
<1>2. CASE run[f].pc = "idle"
  BY <1>2 DEF RunOnSchedule
<1> QED
  BY <1>1, <1>2

\* A step of run e that writes no table.
LEMMA RunOnlyStep ==
  ASSUME SafeInv, ScheduleInv, NEW e \in Runs, NEW q, Goto(e, q),
         UNCHANGED <<template, origin, live, dropped>>, RunOnSchedule(q)
  PROVE  ScheduleInv'
<1>1. run'[e] = q /\ \A f \in Runs \ {e} : run'[f] = run[f]
  BY RunFacts DEF Goto
<1>2. RunOnSchedule(run[e])'
  BY <1>1 DEF RunOnSchedule, OnSchedule, CoveredBefore, Covered, PastEnd
<1>3. \A f \in Runs \ {e} : RunOnSchedule(run[f])'
  BY <1>1, RunStays DEF Covered
<1>4. TemplateOnSchedule'
  BY DEF ScheduleInv, TemplateOnSchedule, OnSchedule, CoveredBefore, Covered,
         PastEnd
<1> QED
  BY <1>2, <1>3, <1>4 DEF ScheduleInv

LEMMA IdleOnSchedule == RunOnSchedule(Idle)
BY DEF RunOnSchedule, Idle

LEMMA UserSchedule ==
  ASSUME ~EditsDuringRuns, SafeInv, ScheduleInv,
         \/ Tick \/ RollOver \/ WriteTemplate \/ DeleteTemplate
         \/ DeleteTransaction \/ UNCHANGED vars
  PROVE  ScheduleInv'
<1>1. CASE Tick \/ RollOver \/ UNCHANGED vars
  <2>1. UNCHANGED <<template, origin, live, dropped, run>>
    BY <1>1 DEF Tick, RollOver, vars
  <2> QED
    BY <2>1 DEF ScheduleInv, TemplateOnSchedule, RunOnSchedule, OnSchedule,
                CoveredBefore, Covered, PastEnd
<1>2. CASE WriteTemplate
  <2>1. PICK s \in Starts, wait \in FirstWaits, end \in Ends, on \in BOOLEAN :
          /\ template' = [state |-> "live", on |-> on, due |-> s + wait,
                          end |-> end]
          /\ origin' = s + wait
    BY <1>2 DEF WriteTemplate
  <2>2. template'.due = origin' /\ origin' \in Nat
    BY <2>1, EngineAssumption
  <2>3. \A f \in Runs : run'[f].pc = "idle"
    BY <1>2 DEF WriteTemplate, InFlight
  <2>4. OnSchedule(origin', origin')
    BY <2>2, ScheduleBegins
  <2>5. \A d \in Days : OnSchedule(origin', d) => origin' <= d
    BY <2>2, ScheduleBegins, EngineNumbers
  <2>6. CoveredBefore(origin)'
    BY <2>2, <2>5, EngineNumbers DEF CoveredBefore
  <2>7. TemplateOnSchedule'
    BY <2>2, <2>4, <2>6, EngineNumbers DEF TemplateOnSchedule
  <2> QED
    BY <2>3, <2>7 DEF ScheduleInv, RunOnSchedule
<1>3. CASE DeleteTemplate
  <2>1. /\ template'.end = template.end /\ template'.state = "deleted"
        /\ UNCHANGED <<origin, live, dropped, run>>
    BY <1>3, RunFacts DEF DeleteTemplate, Templates, SafeInv, TypeOK
  <2>2. \A f \in Runs : RunOnSchedule(run[f])'
    BY <2>1, RunStays DEF Covered
  <2> QED
    BY <2>1, <2>2 DEF ScheduleInv, TemplateOnSchedule
<1>4. CASE DeleteTransaction
  <2>1. PICK d \in Days : /\ live' = [live EXCEPT ![d] = @ - 1]
                          /\ dropped' = dropped \cup {d}
    BY <1>4 DEF DeleteTransaction
  <2>2. UNCHANGED <<template, origin, run>>
    BY <1>4 DEF DeleteTransaction
  <2>3. \A c \in Days : Covered(c) => Covered(c)'
    BY <2>1 DEF Covered, SafeInv, TypeOK
  <2>4. \A f \in Runs : RunOnSchedule(run[f])'
    BY <2>2, <2>3, RunStays
  <2>5. \A x : CoveredBefore(x) => CoveredBefore(x)'
    BY <2>2, <2>3, CoveredStays
  <2>6. TemplateOnSchedule'
    BY <2>2, <2>3, <2>5
       DEF ScheduleInv, TemplateOnSchedule, OnSchedule, PastEnd, CoveredBefore
  <2> QED
    BY <2>4, <2>6 DEF ScheduleInv
<1> QED
  BY <1>1, <1>2, <1>3, <1>4

LEMMA ReadSchedule ==
  ASSUME SafeInv, ScheduleInv, NEW e \in Runs,
         \/ ListDue(e) \/ ResolveActivePeriod(e) \/ CaughtUp(e)
         \/ HasTransactionForDate(e) \/ CreateTransaction(e) \/ Fail(e)
  PROVE  ScheduleInv'
<1>0. RunOnSchedule(run[e])
  BY DEF ScheduleInv
<1>1. CASE ListDue(e)
  <2> DEFINE q == [Idle EXCEPT !.pc = "resolve", !.template = template,
                               !.today = today, !.occurrence = template.due]
  <2>1. Goto(e, q) /\ UNCHANGED <<template, origin, live, dropped>>
    BY <1>1 DEF ListDue
  <2>2. q.pc = "resolve" /\ q.template = template /\ q.occurrence = template.due
    BY DEF Idle
  <2>3. template.state = "live" /\ template.due # None
    BY <1>1 DEF ListDue, Due
  <2>4. RunOnSchedule(q)
    <3> HIDE DEF q
    <3> QED
      BY <2>2, <2>3 DEF RunOnSchedule, ScheduleInv, TemplateOnSchedule
  <2> HIDE DEF q
  <2> QED
    BY <2>1, <2>4, RunOnlyStep
<1>2. CASE ResolveActivePeriod(e)
  <2> DEFINE q == [run[e] EXCEPT !.pc = "next", !.period = active]
  <2>1. CASE UNCHANGED run
    BY <1>2, <2>1 DEF ResolveActivePeriod, ScheduleInv, TemplateOnSchedule,
                      RunOnSchedule, OnSchedule, CoveredBefore, Covered, PastEnd
  <2>2. CASE Goto(e, q)
    <3>1. /\ q.pc = "next" /\ q.template = run[e].template
          /\ q.occurrence = run[e].occurrence
      BY RunFacts DEF RunRows
    <3>2. RunOnSchedule(q)
      <4> HIDE DEF q
      <4> QED
        BY <1>0, <1>2, <3>1 DEF RunOnSchedule, ResolveActivePeriod
    <3> HIDE DEF q
    <3> QED
      BY <1>2, <2>2, <3>2, RunOnlyStep DEF ResolveActivePeriod
  <2> QED
    BY <1>2, <2>1, <2>2 DEF ResolveActivePeriod
<1>3. CASE CaughtUp(e) \/ Fail(e)
  BY <1>3, IdleOnSchedule, RunOnlyStep DEF CaughtUp, Fail
<1>4. CASE HasTransactionForDate(e)
  <2> DEFINE pc == IF live[run[e].occurrence] > 0 THEN "advance" ELSE "insert"
             q  == [run[e] EXCEPT !.pc = pc]
  <2>1. /\ Goto(e, q) /\ UNCHANGED <<template, origin, live, dropped>>
        /\ run[e].pc = "next" /\ ~PastEnd(run[e].occurrence, run[e].template)
    BY <1>4 DEF HasTransactionForDate
  <2>2. /\ q.pc = pc /\ q.template = run[e].template
        /\ q.occurrence = run[e].occurrence
    <3> HIDE DEF pc
    <3> QED
      BY RunFacts DEF RunRows
  <2>3. pc = "advance" => Covered(run[e].occurrence)
    BY DEF Covered
  <2>4. RunOnSchedule(q)
    <3> HIDE DEF q, pc
    <3> QED
      BY <1>0, <2>1, <2>2, <2>3 DEF RunOnSchedule, PastEnd
  <2> HIDE DEF q
  <2> QED
    BY <2>1, <2>4, RunOnlyStep
<1>5. CASE CreateTransaction(e)
  <2> DEFINE q == [run[e] EXCEPT !.pc = "advance", !.inserted = TRUE]
  <2>1. /\ Goto(e, q) \/ Goto(e, Idle)
        /\ UNCHANGED <<template, origin, live, dropped>>
        /\ run[e].pc = "insert"
    BY <1>5 DEF CreateTransaction
  <2>2. /\ q.pc = "advance" /\ q.inserted /\ q.template = run[e].template
        /\ q.occurrence = run[e].occurrence
    BY RunFacts DEF RunRows
  <2>3. RunOnSchedule(q)
    <3> HIDE DEF q
    <3> QED
      BY <1>0, <2>1, <2>2 DEF RunOnSchedule
  <2> HIDE DEF q
  <2> QED
    BY <2>1, <2>3, IdleOnSchedule, RunOnlyStep
<1> QED
  BY <1>1, <1>2, <1>3, <1>4, <1>5

LEMMA DeactivateSchedule ==
  ASSUME SafeInv, ScheduleInv, NEW e \in Runs, DeactivateTemplate(e)
  PROVE  ScheduleInv'
<1>1. /\ Goto(e, Idle) /\ UNCHANGED <<origin, live, dropped>>
      /\ run[e].pc = "next" /\ PastEnd(run[e].occurrence, run[e].template)
  BY DEF DeactivateTemplate
<1>2. CASE template.state # "live"
  BY <1>1, <1>2, IdleOnSchedule, RunOnlyStep DEF DeactivateTemplate
<1>3. CASE template.state = "live"
  <2>1. template' = [template EXCEPT !.on = FALSE, !.due = None]
    BY <1>3 DEF DeactivateTemplate
  <2>2. template'.due = None /\ template'.end = template.end
    BY <2>1, RunFacts DEF Templates
  <2>3. RunOnSchedule(run[e])
    BY DEF ScheduleInv
  <2>4. ASSUME NEW d \in Days, OnSchedule(origin, d), ~PastEnd(d, template)
        PROVE  Covered(d)
    <3>1. template.end # None /\ run[e].occurrence > template.end
      BY <1>1, <2>3 DEF RunOnSchedule, PastEnd
    <3>2. ~(d > template.end)
      BY <2>4, <3>1 DEF PastEnd
    <3>3. template.end \in Int
      BY <3>1, RunFacts DEF Templates, DueDates
    <3>4. d < run[e].occurrence
      BY <3>1, <3>2, <3>3, RunFacts, EngineNumbers
    <3> QED
      BY <1>1, <2>3, <2>4, <3>4 DEF RunOnSchedule, CoveredBefore
  <2>5. origin # None
    BY <1>1, <2>3 DEF RunOnSchedule
  <2>6. TemplateOnSchedule'
    BY <1>1, <2>2, <2>4, <2>5
       DEF TemplateOnSchedule, OnSchedule, PastEnd, Covered
  <2>7. \A f \in Runs \ {e} : RunOnSchedule(run[f])'
    BY <1>1, <2>2, RunFacts, RunStays DEF Covered, Goto
  <2>8. RunOnSchedule(run[e])'
    BY <1>1, RunFacts DEF RunOnSchedule, Goto, Idle
  <2> QED
    BY <2>6, <2>7, <2>8 DEF ScheduleInv
<1> QED
  BY <1>2, <1>3

LEMMA AdvanceSchedule ==
  ASSUME SafeInv, ScheduleInv, NEW e \in Runs, AdvanceTemplate(e)
  PROVE  ScheduleInv'
<1>1. CASE template.state # "live"
  BY <1>1, IdleOnSchedule, RunOnlyStep DEF AdvanceTemplate
<1>2. CASE template.state = "live"
  <2>0. PICK q \in RunRows, o \in Days, next \in Nat \cup {None} :
          q = run[e] /\ o = q.occurrence /\ next = NextDue(q)
    BY <1>2, AdvanceOutcome, RunFacts, NextDueOK
  <2>1. /\ q.pc = "advance" /\ UNCHANGED <<origin, dropped>>
        /\ live' = [live EXCEPT ![o] = IF q.inserted THEN @ + 1 ELSE @]
        /\ \A f \in Runs \ {e} : run'[f] = run[f]
    BY <1>2, <2>0, AdvanceOutcome
  <2>2. next # None => next = o + Interval
    BY <2>0, RunFacts, NextDueOK
  <2>3. /\ template'.due = next /\ template'.end = template.end
        /\ template'.state = "live"
    <3>1. template' = [template EXCEPT !.due = next, !.on = next # None]
      BY <1>2, <2>0, AdvanceOutcome
    <3>2. template \in Templates /\ next \in DueDates
      BY RunFacts DEF DueDates
    <3> QED
      BY <1>2, <3>1, <3>2, AdvancedTemplate, Zenon
  <2>4. /\ origin # None /\ origin \in Nat /\ OnSchedule(origin, o)
        /\ q.template.end = template.end /\ CoveredBefore(o)
        /\ q.inserted \/ Covered(o)
    BY <2>0, <2>1 DEF ScheduleInv, RunOnSchedule, SafeInv
  <2>5. \A d \in Days : Covered(d) => Covered(d)'
    <3>1. \A d \in Days : live[d] > 0 => live'[d] > 0
      BY <2>1, RunFacts
    <3> QED
      BY <2>1, <3>1 DEF Covered
  <2>6. Covered(o)'
    <3>1. q.inserted => live'[o] > 0
      BY <2>1, RunFacts
    <3> QED
      BY <2>4, <2>5, <3>1 DEF Covered
  <2>7. ASSUME NEW d \in Days, OnSchedule(origin, d), d < o + Interval
        PROVE  Covered(d)'
    <3>1. d <= o
      BY <2>4, <2>7, ScheduleGap, EngineNumbers
    <3>2. CASE d = o
      BY <2>6, <3>2
    <3>3. CASE d < o
      BY <2>4, <2>5, <2>7, <3>3 DEF CoveredBefore
    <3> QED
      BY <3>1, <3>2, <3>3, EngineNumbers
  <2>8. \A f \in Runs \ {e} : RunOnSchedule(run[f])'
    BY <2>1, <2>3, <2>5, RunStays
  <2>9. CASE next # None
    <3>1. OnSchedule(origin, next)
      BY <2>2, <2>4, <2>9, ScheduleNext, EngineNumbers
    <3>2. CoveredBefore(next)'
      BY <2>1, <2>2, <2>7, <2>9 DEF CoveredBefore
    <3>3. TemplateOnSchedule'
      BY <2>1, <2>3, <2>4, <2>9, <3>1, <3>2 DEF TemplateOnSchedule
    <3>4. run'[e] = [q EXCEPT !.pc = "next", !.occurrence = next,
                              !.inserted = FALSE]
      BY <1>2, <2>0, <2>9, AdvanceOutcome
    <3>5. /\ run'[e].pc = "next" /\ run'[e].occurrence = next
          /\ run'[e].template = q.template
      BY <3>4 DEF RunRows
    <3>6. RunOnSchedule(run[e])'
      BY <2>1, <2>3, <2>4, <3>1, <3>2, <3>5 DEF RunOnSchedule
    <3> QED
      BY <2>8, <3>3, <3>6 DEF ScheduleInv
  <2>10. CASE next = None
    <3>1. template.end # None /\ o + Interval > template.end
      BY <2>0, <2>4, <2>10, EngineNumbers DEF NextDue, PastEnd
    <3>2. ASSUME NEW d \in Days, OnSchedule(origin, d), ~PastEnd(d, template)
          PROVE  Covered(d)'
      <4>1. ~(d > template.end) /\ template.end \in Int
        BY <3>1, <3>2, RunFacts DEF PastEnd, Templates, DueDates
      <4>2. d < o + Interval
        BY <3>1, <4>1, EngineNumbers
      <4> QED
        BY <2>7, <3>2, <4>2
    <3>3. TemplateOnSchedule'
      BY <2>1, <2>3, <2>4, <2>10, <3>2 DEF TemplateOnSchedule, PastEnd
    <3>4. run'[e] = Idle
      BY <1>2, <2>0, <2>10, AdvanceOutcome
    <3>5. RunOnSchedule(run[e])'
      BY <3>4 DEF RunOnSchedule, Idle
    <3> QED
      BY <2>8, <3>3, <3>5 DEF ScheduleInv
  <2> QED
    BY <2>9, <2>10
<1> QED
  BY <1>1, <1>2

LEMMA NextSchedule ==
  ASSUME ~EditsDuringRuns, SafeInv, ScheduleInv, [Next]_vars
  PROVE  ScheduleInv'
<1>1. ASSUME NEW e \in Runs, ListDue(e) \/ ProcessTemplate(e) \/ Fail(e)
      PROVE  ScheduleInv'
  BY <1>1, ReadSchedule, DeactivateSchedule, AdvanceSchedule DEF ProcessTemplate
<1> QED
  BY <1>1, UserSchedule DEF Next

LEMMA AlwaysOnSchedule ==
  ASSUME ~EditsDuringRuns PROVE Spec => [](SafeInv /\ ScheduleInv)
<1>1. SafeInv /\ ScheduleInv /\ [Next]_vars => (SafeInv /\ ScheduleInv)'
  BY NextSafe, NextSchedule
<1> QED
  BY <1>1, InitSafe, InitSchedule, PTL DEF Spec

(***************************************************************************)
(* No occurrence is left behind, whatever order overlapping runs move the  *)
(* template in, as long as it is not replaced under a run: run             *)
(* RecurringLostEdit shows that one may be skipped otherwise.              *)
(***************************************************************************)
THEOREM NothingSkippedCorrect ==
  ASSUME ~EditsDuringRuns PROVE Spec => []NothingSkipped
<1>1. ASSUME SafeInv, ScheduleInv PROVE NothingSkipped
  <2> SUFFICES ASSUME NEW d \in Days, template.state = "live", Scheduled(d),
                      template.due = None \/ d < template.due
               PROVE  live[d] > 0 \/ d \in dropped
    BY DEF NothingSkipped
  <2>1. OnSchedule(origin, d) /\ ~PastEnd(d, template)
    BY <1>1, ScheduledMeans
  <2>2. Covered(d)
    BY <1>1, <2>1 DEF ScheduleInv, TemplateOnSchedule, CoveredBefore
  <2> QED
    BY <2>2 DEF Covered
<1> QED
  BY <1>1, AlwaysOnSchedule, PTL

(***************************************************************************)
(* What the engine generates is due and on the schedule the template has   *)
(* when it is generated, and the template is not deleted, as long as it is *)
(* not replaced under a run.                                               *)
(***************************************************************************)
THEOREM PostsOnlyDueCorrect ==
  ASSUME ~EditsDuringRuns PROVE Spec => PostsOnlyDue
<1> DEFINE Posts == \A d \in Days :
                      live'[d] > live[d] =>
                        d <= today /\ template.state = "live" /\ Scheduled(d)
<1>1. ASSUME SafeInv, ScheduleInv, [Next]_vars PROVE [Posts]_vars
  <2> SUFFICES ASSUME NEW d \in Days, live'[d] > live[d]
               PROVE  d <= today /\ template.state = "live" /\ Scheduled(d)
    OBVIOUS
  <2>1. live \in [Days -> Nat]
    BY <1>1 DEF SafeInv, TypeOK
  <2>2. ~DeleteTransaction
    BY <2>1 DEF DeleteTransaction
  <2>3. PICK e \in Runs : AdvanceTemplate(e)
    <3>1. live' # live
      BY <2>1
    <3>2. ~(Tick \/ RollOver \/ WriteTemplate \/ DeleteTemplate)
      BY <3>1 DEF Tick, RollOver, WriteTemplate, DeleteTemplate
    <3>3. \A e \in Runs :
            ~(\/ ListDue(e) \/ ResolveActivePeriod(e) \/ CaughtUp(e)
              \/ DeactivateTemplate(e) \/ HasTransactionForDate(e)
              \/ CreateTransaction(e) \/ Fail(e))
      BY <3>1 DEF ListDue, ResolveActivePeriod, CaughtUp, DeactivateTemplate,
                  HasTransactionForDate, CreateTransaction, Fail
    <3> QED
      BY <1>1, <2>2, <3>1, <3>2, <3>3 DEF Next, vars, ProcessTemplate
  <2>4. template.state = "live"
    BY <2>1, <2>3 DEF AdvanceTemplate
  <2>5. run[e].pc = "advance" /\ d = run[e].occurrence
    <3>1. /\ run[e].pc = "advance" /\ run[e].occurrence \in Days
          /\ live' = [live EXCEPT ![run[e].occurrence] =
                                    IF run[e].inserted THEN @ + 1 ELSE @]
      BY <1>1, <2>3, <2>4, AdvanceOutcome
    <3> QED
      BY <2>1, <3>1
  <2>6. d <= today
    BY <1>1, <2>5, RunFacts, EngineNumbers DEF RunSafe
  <2>7. /\ origin # None /\ OnSchedule(origin, d) /\ ~PastEnd(d, template)
    BY <1>1, <2>5 DEF ScheduleInv, RunOnSchedule
  <2> QED
    BY <1>1, <2>4, <2>6, <2>7, ScheduledMeans
<1> QED
  BY <1>1, AlwaysOnSchedule, PTL DEF Spec, PostsOnlyDue
=============================================================================
