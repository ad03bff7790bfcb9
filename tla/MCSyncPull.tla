------------------------------ MODULE MCSyncPull ------------------------------
(***************************************************************************)
(* SyncPull for TLC: a budget and three savings goals, which Pull queries  *)
(* after the budgets: a page of goals can pass a budget written in between.*)
(***************************************************************************)
EXTENDS SyncPull

MCKindOf == <<1, 2, 2, 2>>

\* A page ends between two goals of one time, at the beginning of a second and
\* in the middle of one; the budget is new in the first case.
MCStamps == {<<-1, 1, 6, 6>>, <<4, 1, 7, 7>>}
=============================================================================
