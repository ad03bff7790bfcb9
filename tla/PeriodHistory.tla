---------------------------- MODULE PeriodHistory ----------------------------
(***************************************************************************)
(* What a user is promised of their tracking periods, without requests,    *)
(* locks or tables: an append-only book of closed periods, each with its   *)
(* summary, and one current period that continues it.                      *)
(***************************************************************************)
EXTENDS Integers, Sequences

CONSTANT Lengths   \* the lengths a period may have, in days

VARIABLES
  history,  \* the closed periods, each with its summary
  current   \* the current period: start, end, mode, and whether a bridge

LengthOK(r) == r.end - r.start + 1 \in Lengths

Init == Len(history) = 0 /\ LengthOK(current)

(***************************************************************************)
(* The current period enters the book as it was, with a summary; what the  *)
(* book held does not change; the next period begins on the next day.      *)
(***************************************************************************)
Close ==
  LET k == Len(history) + 1
  IN  /\ Len(history') = k
      /\ \A n \in 1 .. k - 1 : history'[n] = history[n]
      /\ history'[k].period = current
      /\ current'.start = current.end + 1
      /\ LengthOK(current')

\* Before the first close, the end and the mode may still be chosen anew.
Reshape ==
  /\ Len(history) = 0
  /\ current'.start = current.start
  /\ LengthOK(current')
  /\ Len(history') = 0

Next == Close \/ Reshape

Spec == Init /\ [][Next]_<<history, current>>
=============================================================================
